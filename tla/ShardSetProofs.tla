--------------------------- MODULE ShardSetProofs ---------------------------
(***************************************************************************)
(* Proofs about ShardSet for every list of shards, every manifest and every*)
(* directory: what load accepts can be read and is what was saved, or the  *)
(* beginning of it when the save was left unfinished; and what discover    *)
(* returns is what it has visited.                                         *)
(***************************************************************************)
EXTENDS ShardSet, SequenceTheorems, WellFoundedInduction, TLAPS

-----------------------------------------------------------------------------
(* Induction over the lines of a manifest.                                  *)

(* A set of numbers that is not empty has a least element.                 *)
LEMMA LeastElement ==
  ASSUME NEW T \in SUBSET Nat, T # {}
  PROVE  \E n \in T : \A m \in T : n <= m
<1> DEFINE R == OpToRel(<, Nat)
<1>1. IsWellFoundedOn(R, Nat)
  BY NatLessThanWellFounded
<1>2. PICK n \in T : \A m \in T : ~ (<<m, n>> \in R)
  <2> HIDE DEF R
  <2> QED BY <1>1, WFMin
<1>3. \A m \in T : ~ (m < n)
  BY <1>2 DEF OpToRel
<1> QED
  BY <1>3

(* So what holds of 0 and goes from a number to the next one holds up to n. *)
LEMMA Induction ==
  ASSUME NEW n \in Nat, NEW T,
         0 \in T,
         \A i \in 1 .. n : i - 1 \in T => i \in T
  PROVE  \A i \in 0 .. n : i \in T
<1> DEFINE Left == {i \in 0 .. n : i \notin T}
<1>1. SUFFICES ASSUME Left # {} PROVE FALSE
  OBVIOUS
<1>2. Left \in SUBSET Nat
  OBVIOUS
<1>3. PICK k \in Left : \A m \in Left : k <= m
  <2> HIDE DEF Left
  <2> QED BY <1>1, <1>2, LeastElement
<1>4. k \in 0 .. n /\ k \notin T /\ k # 0
  OBVIOUS
<1>5. k \in 1 .. n /\ k - 1 \notin T /\ k - 1 \in 0 .. n
  BY <1>4
<1> QED
  BY <1>3, <1>5

\* f[k] is what k steps make of first.
Steps(f, n, S, first, step) ==
  /\ f \in [0 .. n -> S]
  /\ f[0] = first
  /\ \A i \in 1 .. n : f[i] = step[i][f[i - 1]]

(* The function that starts with `first' and goes on with `step' exists.   *)
LEMMA Recursion ==
  ASSUME NEW S, NEW n \in Nat, NEW first \in S, NEW step \in [1 .. n -> [S -> S]]
  PROVE  \E f : Steps(f, n, S, first, step)
<1> DEFINE Good(f, k) == Steps(f, k, S, first, step)
<1> USE DEF Steps
<1> DEFINE T == {k \in 0 .. n : \E f : Good(f, k)}
<1>1. 0 \in T
  <2>1. Good([i \in 0 .. 0 |-> first], 0)
    OBVIOUS
  <2>2. 0 \in 0 .. n
    OBVIOUS
  <2> HIDE DEF Good
  <2> QED BY <2>1, <2>2
<1>2. ASSUME NEW k \in 1 .. n, k - 1 \in T PROVE k \in T
  <2>1. PICK f : Good(f, k - 1)
    <3> HIDE DEF Good
    <3> QED BY <1>2
  <2> DEFINE g == [i \in 0 .. k |-> IF i = k THEN step[k][f[k - 1]] ELSE f[i]]
  <2>2. k \in Nat /\ k - 1 \in 0 .. k - 1 /\ k \in 1 .. n
    OBVIOUS
  <2>3. step[k][f[k - 1]] \in S
    BY <2>1, <2>2
  <2>4. g \in [0 .. k -> S]
    BY <2>1, <2>2, <2>3
  <2>5. g[0] = first
    BY <2>1, <2>2
  <2>6. \A i \in 1 .. k : g[i] = step[i][g[i - 1]]
    <3> TAKE i \in 1 .. k
    <3>1. CASE i = k
      BY <3>1, <2>2
    <3>2. CASE i # k
      <4>1. i \in 1 .. k - 1 /\ i - 1 \in 0 .. k - 1
        BY <3>2, <2>2
      <4>2. g[i] = f[i] /\ g[i - 1] = f[i - 1]
        BY <4>1, <2>2
      <4>3. f[i] = step[i][f[i - 1]]
        BY <4>1, <2>1
      <4> HIDE DEF g
      <4> QED BY <4>2, <4>3
    <3> QED BY <3>1, <3>2
  <2>7. Good(g, k)
    <3> HIDE DEF g
    <3> QED BY <2>4, <2>5, <2>6
  <2>8. k \in 0 .. n
    OBVIOUS
  <2> HIDE DEF g, Good
  <2> QED
    BY <2>7, <2>8
<1>3. n \in T
  <2> HIDE DEF T
  <2>1. \A i \in 1 .. n : i - 1 \in T => i \in T
    BY <1>2
  <2>2. \A i \in 0 .. n : i \in T
    BY <1>1, <2>1, Induction
  <2> QED BY <2>2
<1> HIDE DEF Steps
<1> QED
  BY <1>3

-----------------------------------------------------------------------------
(* What load makes of the lines.                                            *)

(* load's loop, line by line: it keeps those that are not skipped.         *)
LEMMA EntriesByLine ==
  ASSUME NEW lines \in Seq(LineType)
  PROVE  \E f \in [0 .. Len(lines) -> Seq(LineType)] :
           /\ f[0] = <<>>
           /\ \A i \in 1 .. Len(lines) :
                f[i] = IF Skipped(lines[i]) THEN f[i - 1] ELSE Append(f[i - 1], lines[i])
           /\ Entries(lines) = f[Len(lines)]
<1> DEFINE step == [i \in 1 .. Len(lines) |-> [kept \in Seq(LineType) |->
                      IF Skipped(lines[i]) THEN kept ELSE Append(kept, lines[i])]]
<1>0. Len(lines) \in Nat /\ <<>> \in Seq(LineType)
  OBVIOUS
<1>1. step \in [1 .. Len(lines) -> [Seq(LineType) -> Seq(LineType)]]
  OBVIOUS
<1>2. PICK f \in [0 .. Len(lines) -> Seq(LineType)] :
        f[0] = <<>> /\ \A i \in 1 .. Len(lines) : f[i] = step[i][f[i - 1]]
  <2> HIDE DEF step
  <2>1. \E f : Steps(f, Len(lines), Seq(LineType), <<>>, step)
    BY <1>0, <1>1, Recursion
  <2> QED BY <2>1 DEF Steps
<1>3. \A i \in 1 .. Len(lines) :
        f[i] = IF Skipped(lines[i]) THEN f[i - 1] ELSE Append(f[i - 1], lines[i])
  <2> TAKE i \in 1 .. Len(lines)
  <2>1. i - 1 \in 0 .. Len(lines)
    BY <1>0
  <2>2. f[i - 1] \in Seq(LineType)
    BY <2>1
  <2>3. f[i] = step[i][f[i - 1]]
    <3> HIDE DEF step
    <3> QED BY <1>2
  <2> QED BY <2>2, <2>3
<1> HIDE DEF step
<1> DEFINE kept == CHOOSE F : F = [n \in 0 .. Len(lines) |->
                     IF n = 0 THEN <<>>
                     ELSE IF Skipped(lines[n]) THEN F[n - 1] ELSE Append(F[n - 1], lines[n])]
<1>4. f = [n \in 0 .. Len(lines) |->
             IF n = 0 THEN <<>>
             ELSE IF Skipped(lines[n]) THEN f[n - 1] ELSE Append(f[n - 1], lines[n])]
  <2>1. \A i \in 0 .. Len(lines) :
          f[i] = IF i = 0 THEN <<>>
                 ELSE IF Skipped(lines[i]) THEN f[i - 1] ELSE Append(f[i - 1], lines[i])
    <3> TAKE i \in 0 .. Len(lines)
    <3>1. i = 0 \/ i \in 1 .. Len(lines)
      BY <1>0
    <3> QED BY <1>2, <1>3, <3>1
  <2> QED BY <2>1
<1>5. kept = [n \in 0 .. Len(lines) |->
                IF n = 0 THEN <<>>
                ELSE IF Skipped(lines[n]) THEN kept[n - 1] ELSE Append(kept[n - 1], lines[n])]
  BY <1>4
<1>6. Entries(lines) = kept[Len(lines)]
  BY DEF Entries
<1> HIDE DEF kept
<1>7. \A i \in 0 .. Len(lines) : kept[i] = f[i]
  <2> DEFINE T == {i \in 0 .. Len(lines) : kept[i] = f[i]}
  <2>1. 0 \in T
    BY <1>0, <1>2, <1>5
  <2>2. \A i \in 1 .. Len(lines) : i - 1 \in T => i \in T
    <3> SUFFICES ASSUME NEW i \in 1 .. Len(lines), kept[i - 1] = f[i - 1]
                 PROVE  kept[i] = f[i]
      OBVIOUS
    <3>1. i \in 0 .. Len(lines) /\ i # 0
      OBVIOUS
    <3>2. kept[i] = IF Skipped(lines[i]) THEN kept[i - 1] ELSE Append(kept[i - 1], lines[i])
      BY <1>5, <3>1
    <3> QED BY <1>3, <3>2
  <2>3. \A i \in 0 .. Len(lines) : i \in T
    <3> HIDE DEF T
    <3> QED BY <1>0, <2>1, <2>2, Induction
  <2> QED BY <2>3
<1>8. Entries(lines) = f[Len(lines)]
  BY <1>0, <1>6, <1>7
<1> QED
  BY <1>2, <1>3, <1>8

(* What load keeps are lines of the manifest that are not skipped.         *)
LEMMA EntriesType ==
  ASSUME NEW lines \in Seq(LineType)
  PROVE  /\ Entries(lines) \in Seq(LineType)
         /\ \A k \in 1 .. Len(Entries(lines)) : ~Skipped(Entries(lines)[k])
<1>0. Len(lines) \in Nat
  OBVIOUS
<1>1. PICK f \in [0 .. Len(lines) -> Seq(LineType)] :
        /\ f[0] = <<>>
        /\ \A i \in 1 .. Len(lines) :
             f[i] = IF Skipped(lines[i]) THEN f[i - 1] ELSE Append(f[i - 1], lines[i])
        /\ Entries(lines) = f[Len(lines)]
  BY EntriesByLine
<1> DEFINE T == {i \in 0 .. Len(lines) : \A k \in 1 .. Len(f[i]) : ~Skipped(f[i][k])}
<1>2. 0 \in T
  BY <1>0, <1>1
<1>3. ASSUME NEW i \in 1 .. Len(lines), i - 1 \in T PROVE i \in T
  <2>1. i \in 0 .. Len(lines) /\ i - 1 \in 0 .. Len(lines)
    BY <1>0
  <2>2. f[i - 1] \in Seq(LineType) /\ lines[i] \in LineType
    BY <2>1
  <2>3. CASE Skipped(lines[i])
    BY <1>1, <1>3, <2>1, <2>3
  <2>4. CASE ~Skipped(lines[i])
    <3>1. f[i] = Append(f[i - 1], lines[i])
      BY <1>1, <2>4
    <3>2. \A k \in 1 .. Len(f[i]) : ~Skipped(f[i][k])
      <4> TAKE k \in 1 .. Len(f[i])
      <4>1. CASE k = Len(f[i - 1]) + 1
        <5>1. f[i][k] = lines[i]
          BY <2>2, <3>1, <4>1
        <5> QED BY <5>1, <2>4
      <4>2. CASE k # Len(f[i - 1]) + 1
        <5>1. k \in 1 .. Len(f[i - 1]) /\ f[i][k] = f[i - 1][k]
          BY <2>2, <3>1, <4>2
        <5> QED BY <5>1, <1>3
      <4> QED BY <4>1, <4>2
    <3> QED BY <2>1, <3>2
  <2> QED BY <2>3, <2>4
<1>4. Len(lines) \in T
  <2>1. \A i \in 1 .. Len(lines) : i - 1 \in T => i \in T
    BY <1>3
  <2>2. \A i \in 0 .. Len(lines) : i \in T
    <3> HIDE DEF T
    <3> QED BY <1>0, <1>2, <2>1, Induction
  <2> QED BY <1>0, <2>2
<1>5. f[Len(lines)] \in Seq(LineType)
  BY <1>0
<1> QED
  BY <1>1, <1>4, <1>5

(* Of a manifest whose first line alone is skipped it keeps all the others. *)
LEMMA EntriesAfterHeader ==
  ASSUME NEW lines \in Seq(LineType),
         Len(lines) > 0 => Skipped(lines[1]),
         \A i \in 2 .. Len(lines) : ~Skipped(lines[i])
  PROVE  /\ Len(Entries(lines)) = IF Len(lines) = 0 THEN 0 ELSE Len(lines) - 1
         /\ \A k \in 1 .. Len(Entries(lines)) : Entries(lines)[k] = lines[k + 1]
<1>0. Len(lines) \in Nat
  OBVIOUS
<1>1. PICK f \in [0 .. Len(lines) -> Seq(LineType)] :
        /\ f[0] = <<>>
        /\ \A i \in 1 .. Len(lines) :
             f[i] = IF Skipped(lines[i]) THEN f[i - 1] ELSE Append(f[i - 1], lines[i])
        /\ Entries(lines) = f[Len(lines)]
  BY EntriesByLine
<1> DEFINE Kept(i) == /\ Len(f[i]) = IF i = 0 THEN 0 ELSE i - 1
                      /\ \A k \in 1 .. Len(f[i]) : f[i][k] = lines[k + 1]
<1> DEFINE T == {i \in 0 .. Len(lines) : Kept(i)}
<1>2. 0 \in T
  BY <1>0, <1>1
<1>3. ASSUME NEW i \in 1 .. Len(lines), i - 1 \in T PROVE i \in T
  <2>1. i \in 0 .. Len(lines) /\ i - 1 \in 0 .. Len(lines) /\ i \in Nat /\ i > 0
    BY <1>0
  <2>2. f[i - 1] \in Seq(LineType) /\ lines[i] \in LineType /\ Kept(i - 1)
    BY <1>3, <2>1
  <2>3. CASE i = 1
    <3>1. f[1] = <<>>
      BY <1>1, <2>1, <2>3
    <3> QED BY <2>1, <2>3, <3>1
  <2>4. CASE i # 1
    <3>0. i \in 2 .. Len(lines) /\ i - 1 # 0
      BY <2>1, <2>4
    <3>a. f[i] = Append(f[i - 1], lines[i])
      BY <1>1, <3>0
    <3>b. Len(f[i - 1]) = (i - 1) - 1
      BY <2>2, <3>0
    <3>1. f[i] = Append(f[i - 1], lines[i]) /\ Len(f[i - 1]) = i - 2
      BY <2>1, <3>a, <3>b
    <3>2. Len(f[i]) = i - 1
      BY <2>1, <2>2, <3>1
    <3>3. \A k \in 1 .. Len(f[i]) : f[i][k] = lines[k + 1]
      <4> TAKE k \in 1 .. Len(f[i])
      <4>1. CASE k = i - 1
        <5>1. f[i][k] = lines[i]
          BY <2>2, <3>1, <4>1
        <5> QED BY <5>1, <4>1, <2>1
      <4>2. CASE k # i - 1
        <5>1. k \in 1 .. Len(f[i - 1]) /\ f[i][k] = f[i - 1][k]
          BY <2>1, <2>2, <3>1, <3>2, <4>2
        <5> QED BY <5>1, <2>2
      <4> QED BY <4>1, <4>2
    <3> QED BY <2>1, <2>4, <3>2, <3>3
  <2> QED BY <2>3, <2>4
<1>4. Kept(Len(lines))
  <2>1. \A i \in 1 .. Len(lines) : i - 1 \in T => i \in T
    BY <1>3
  <2>2. \A i \in 0 .. Len(lines) : i \in T
    <3> HIDE DEF T
    <3> QED BY <1>0, <1>2, <2>1, Induction
  <2> QED BY <1>0, <2>2
<1> QED
  BY <1>1, <1>4

(* A line that is not rejected gives a shard of 64-bit numbers.            *)
LEMMA LoadedType ==
  ASSUME NEW lines \in Seq(LineType), Loads(lines), has_directory \in BOOLEAN
  PROVE  /\ Loaded(lines) \in Seq(ShardType)
         /\ Len(Loaded(lines)) = Len(Entries(lines))
         /\ DOMAIN Loaded(lines) = 1 .. Len(Entries(lines))
         /\ \A i \in 1 .. Len(Entries(lines)) :
              /\ Loaded(lines)[i] = Parsed(Entries(lines)[i])
              /\ Entries(lines)[i] \in LineType
              /\ ~Rejected(Entries(lines)[i])
<1> DEFINE es == Entries(lines)
<1>1. es \in Seq(LineType)
  BY EntriesType
<1>2. \A i \in DOMAIN es : ~Rejected(es[i]) /\ es[i] \in LineType
  BY <1>1 DEF Loads
<1>3. \A i \in DOMAIN es : Parsed(es[i]) \in ShardType
  <2> TAKE i \in DOMAIN es
  <2> DEFINE line == es[i]
  <2>1. line \in LineType /\ ~Rejected(line)
    BY <1>2
  <2> HIDE DEF line, es
  <2>2. Modulus \in Nat /\ Elsewhere \in Files \cup {Elsewhere}
    BY NumbersAssumption
  <2>3. line.path \in PathType /\ line.offset \in Nat /\ line.length \in Nat
    BY <2>1 DEF LineType
  <2>4. line.offset \in 0 .. Modulus - 1 /\ line.length \in 0 .. Modulus - 1
    BY <2>1, <2>2, <2>3 DEF Rejected, Unparsable
  <2>5. Resolved(line.path) \in PathType
    BY <2>2, <2>3 DEF Resolved, PathType
  <2>6. Parsed(line) \in ShardType
    BY <2>4, <2>5 DEF Parsed, ShardType
  <2> QED BY <2>6 DEF line
<1>4. DOMAIN es = 1 .. Len(es) /\ Len(es) \in Nat
  BY <1>1
<1>5. Loaded(lines) = [i \in 1 .. Len(es) |-> Parsed(es[i])]
  BY <1>4 DEF Loaded
<1> HIDE DEF es
<1>6. Loaded(lines) \in Seq(ShardType)
  BY <1>3, <1>4, <1>5
<1>7. Len(Loaded(lines)) = Len(es) /\ DOMAIN Loaded(lines) = 1 .. Len(es)
  BY <1>4, <1>5
<1>8. \A i \in 1 .. Len(es) : /\ Loaded(lines)[i] = Parsed(es[i])
                               /\ es[i] \in LineType /\ ~Rejected(es[i])
  BY <1>2, <1>4, <1>5
<1> QED
  BY <1>6, <1>7, <1>8 DEF es

-----------------------------------------------------------------------------
(* What save writes.                                                        *)

(* The header is a line.                                                   *)
LEMMA HeaderType == Header \in LineType /\ Header.kind = "comment" /\ Malformed \in LineType
BY DEF Header, Malformed, NoPath, LineType, PathType

(* The line of a shard is one.                                             *)
LEMMA LineOfType ==
  ASSUME NEW shard \in ShardType
  PROVE  LineOf(shard) \in LineType
<1>1. shard.path \in PathType /\ shard.offset \in Nat /\ shard.length \in Nat
  BY NumbersAssumption DEF ShardType
<1>2. Written(shard.path) \in PathType
  BY <1>1 DEF Written, PathType
<1> QED
  BY <1>1, <1>2 DEF LineOf, LineType

(* A complete manifest: the header, then one line for each shard.          *)
LEMMA CompleteFacts ==
  ASSUME NEW list \in Seq(ShardType)
  PROVE  /\ Complete(list) \in Seq(LineType)
         /\ Len(list) \in Nat
         /\ Len(Complete(list)) = Len(list) + 1
         /\ Complete(list)[1] = Header
         /\ \A i \in 1 .. Len(list) : Complete(list)[i + 1] = LineOf(list[i])
<1> DEFINE body == [i \in 1 .. Len(list) |-> LineOf(list[i])]
<1>1. Len(list) \in Nat /\ DOMAIN list = 1 .. Len(list)
  OBVIOUS
<1>2. \A i \in 1 .. Len(list) : LineOf(list[i]) \in LineType
  BY LineOfType
<1>3. body \in Seq(LineType) /\ Len(body) = Len(list)
  BY <1>1, <1>2
<1>4. Complete(list) = <<Header>> \o body
  BY <1>1 DEF Complete
<1>5. \A i \in 1 .. Len(list) : body[i] = LineOf(list[i])
  OBVIOUS
<1> HIDE DEF body
<1>6. <<Header>> \in Seq(LineType) /\ Len(<<Header>>) = 1 /\ <<Header>>[1] = Header
  BY HeaderType
<1> DEFINE head == <<Header>>
<1>7. head \in Seq(LineType) /\ Len(head) = 1 /\ head[1] = Header
  BY <1>6
<1> HIDE DEF head
<1>8. /\ head \o body \in Seq(LineType)
      /\ Len(head \o body) = Len(list) + 1
      /\ \A i \in 1 .. Len(list) + 1 :
           (head \o body)[i] = IF i <= 1 THEN head[i] ELSE body[i - 1]
  <2>1. /\ head \o body \in Seq(LineType)
        /\ Len(head \o body) = Len(head) + Len(body)
        /\ \A i \in 1 .. Len(head) + Len(body) :
             (head \o body)[i] = IF i <= Len(head) THEN head[i] ELSE body[i - Len(head)]
    <3>1. \A s, t \in Seq(LineType) :
            /\ s \o t \in Seq(LineType)
            /\ Len(s \o t) = Len(s) + Len(t)
            /\ \A i \in 1 .. Len(s) + Len(t) :
                 (s \o t)[i] = IF i <= Len(s) THEN s[i] ELSE t[i - Len(s)]
      BY ONLY ConcatProperties
    <3> QED BY ONLY <1>3, <1>7, <3>1, Zenon
  <2>2. Len(head) + Len(body) = Len(list) + 1 /\ Len(head) = 1
    BY <1>1, <1>3, <1>7
  <2> QED BY <2>1, <2>2
<1>9. (head \o body)[1] = Header /\ \A i \in 1 .. Len(list) : (head \o body)[i + 1] = body[i]
  <2>1. 1 \in 1 .. Len(list) + 1
    BY <1>1
  <2>2. ASSUME NEW i \in 1 .. Len(list) PROVE (head \o body)[i + 1] = body[i]
    <3>1. i + 1 \in 1 .. Len(list) + 1 /\ ~(i + 1 <= 1) /\ (i + 1) - 1 = i
      BY <1>1
    <3>2. (head \o body)[i + 1] = body[(i + 1) - 1]
      BY <1>8, <3>1
    <3> QED BY <3>1, <3>2
  <2> QED BY <1>7, <1>8, <2>1, <2>2
<1> QED
  BY <1>1, <1>4, <1>5, <1>8, <1>9 DEF head

(* What is left of a line that is cut off is a line.                       *)
LEMMA CutType ==
  ASSUME NEW line \in LineType, NEW cut \in Cut(line)
  PROVE  cut \in LineType
<1>1. CASE cut = Header \/ cut = Malformed
  BY <1>1, HeaderType
<1>2. CASE \E n \in FirstDigits(line.length) : cut = [line EXCEPT !.length = n]
  <2>1. PICK n \in 1 .. line.length : cut = [line EXCEPT !.length = n]
    BY <1>2 DEF FirstDigits
  <2>2. line.length \in Nat
    BY DEF LineType
  <2>3. n \in Nat
    BY <2>1, <2>2
  <2> QED BY <2>1, <2>3 DEF LineType
<1> QED
  BY <1>1, <1>2 DEF Cut

(* A flush leaves the first lines that were inserted, the last perhaps cut. *)
LEMMA FlushFacts ==
  ASSUME NEW lines, FlushTo(lines), manifest \in Seq(LineType), text \in Seq(LineType)
  PROVE  /\ lines \in Seq(LineType)
         /\ Len(lines) \in Len(manifest) .. Len(text)
         /\ \A i \in 1 .. Len(lines) :
              lines[i] = text[i] \/ (i = Len(lines) /\ lines[i] \in Cut(text[i]))
<1>0. Len(manifest) \in Nat /\ Len(text) \in Nat
  OBVIOUS
<1>1. CASE \E n \in Len(manifest) .. Len(text) : lines = SubSeq(text, 1, n)
  <2>1. PICK n \in Len(manifest) .. Len(text) : lines = SubSeq(text, 1, n)
    BY <1>1
  <2> QED BY <1>0, <2>1
<1>2. CASE \E n \in Len(manifest) .. Len(text) - 1 :
             \E line \in Cut(text[n + 1]) : lines = Append(SubSeq(text, 1, n), line)
  <2>1. PICK n \in Len(manifest) .. Len(text) - 1 :
               \E line \in Cut(text[n + 1]) : lines = Append(SubSeq(text, 1, n), line)
    BY <1>2
  <2>2. PICK line \in Cut(text[n + 1]) : lines = Append(SubSeq(text, 1, n), line)
    BY <2>1
  <2>3. n \in 0 .. Len(text) - 1 /\ text[n + 1] \in LineType
    BY <1>0
  <2>4. line \in LineType
    BY <2>3, CutType
  <2> DEFINE kept == SubSeq(text, 1, n)
  <2>5. /\ kept \in Seq(LineType) /\ Len(kept) = n
        /\ \A i \in 1 .. n : kept[i] = text[i]
    BY <1>0, <2>3
  <2> HIDE DEF kept
  <2>6. /\ lines \in Seq(LineType) /\ Len(lines) = n + 1
        /\ \A i \in 1 .. n : lines[i] = kept[i]
        /\ lines[n + 1] = line
    BY <2>2, <2>3, <2>4, <2>5 DEF kept
  <2>7. \A i \in 1 .. Len(lines) :
          lines[i] = text[i] \/ (i = Len(lines) /\ lines[i] \in Cut(text[i]))
    <3> TAKE i \in 1 .. Len(lines)
    <3>1. i \in 1 .. n \/ i = n + 1
      BY <2>3, <2>6
    <3>2. CASE i \in 1 .. n
      BY <2>5, <2>6, <3>2
    <3>3. CASE i = n + 1
      BY <2>2, <2>6, <3>3
    <3> QED BY <3>1, <3>2, <3>3
  <2> QED BY <1>0, <2>3, <2>6, <2>7
<1> QED
  BY <1>1, <1>2 DEF FlushTo
-----------------------------------------------------------------------------
(* The inductive invariant of save, and that of discover.                   *)

\* The lines are the first of `all'; only the last may be cut.
BeginningOf(lines, all) ==
  /\ Len(lines) <= Len(all)
  /\ \A i \in 1 .. Len(lines) :
       lines[i] = all[i] \/ (i = Len(lines) /\ lines[i] \in Cut(all[i]))

Saving ==
  /\ saved = shards_ /\ save_result # "never"
  /\ Len(text) \in 1 .. Len(shards_) + 1
  /\ \A i \in 1 .. Len(text) : text[i] = Complete(shards_)[i]
  /\ BeginningOf(manifest, text)

SaveInv ==
  /\ pc \in {"lines", "close"} => Saving
  /\ save_result # "never" => BeginningOf(manifest, Complete(saved))

\* A file discover took: it was there, and visible, when it was visited.
Candidate(f) == ~directory[f].hidden /\ directory[f].kind \in {"file", "gone"}
Wanted(f) == f \in Present /\ Taken(directory[f]) /\ directory[f].size > 0

DiscoverInv ==
  /\ pc # "stat" => set = <<>>
  /\ pc \notin {"iterate", "stat"} => visited = {} /\ files = {}
  /\ pc = "iterate" => \A f \in visited : Wanted(f) => f \in files
  /\ pc = "stat" => \A f \in Files : Wanted(f) =>
                      f \in files \/ \E i \in DOMAIN set : set[i] = WholeFile(f)
  /\ \A f \in files : Candidate(f)
  /\ \A i \in DOMAIN set : \E f \in Files :
       /\ set[i] = WholeFile(f) /\ Candidate(f)
       /\ \A g \in files : f < g
       /\ i > 1 => set[i - 1].path.file < f

Inv == TypeOK /\ SaveInv

(* An action that leaves a save alone keeps what is known of it.           *)
LEMMA SaveUntouched ==
  ASSUME SaveInv,
         UNCHANGED <<has_directory, manifest, saveVars>>,
         \/ pc' \notin {"lines", "close"}
         \/ UNCHANGED <<pc, shards_>>
  PROVE  SaveInv'
<1>1. Complete(saved)' = Complete(saved)
  BY DEF saveVars, Complete, LineOf, Written
<1>2. BeginningOf(manifest, Complete(saved))' = BeginningOf(manifest, Complete(saved))
  BY <1>1 DEF saveVars, BeginningOf, Cut, Skipped
<1>3. ASSUME pc' \in {"lines", "close"} PROVE Saving'
  <2>1. pc \in {"lines", "close"} /\ shards_' = shards_
    BY <1>3
  <2>2. Saving
    BY <2>1 DEF SaveInv
  <2>3. Complete(shards_)' = Complete(shards_)
    BY <2>1 DEF saveVars, Complete, LineOf, Written
  <2>4. BeginningOf(manifest, text)' = BeginningOf(manifest, text)
    BY DEF saveVars, BeginningOf, Cut, Skipped
  <2> QED BY <2>1, <2>2, <2>3, <2>4 DEF Saving, saveVars
<1> QED
  BY <1>2, <1>3 DEF SaveInv, saveVars

(* The first states are of the type, and nothing was saved.                *)
LEMMA InvInit == Init => Inv
<1> SUFFICES ASSUME Init PROVE Inv
  OBVIOUS
<1>1. Gone \in [Files -> EntryType]
  BY NumbersAssumption DEF Gone, EntryType
<1>2. manifest \in Seq(LineType)
  BY InputsAssumption DEF Init
<1>3. <<>> \in Seq(ShardType) /\ <<>> \in Seq(LineType)
  OBVIOUS
<1>4. TypeOK
  BY <1>1, <1>2, <1>3 DEF Init, TypeOK
<1>5. SaveInv
  BY DEF Init, SaveInv
<1> QED
  BY <1>4, <1>5 DEF Inv

(* The shard of a whole file.                                              *)
LEMMA WholeFileType ==
  ASSUME TypeOK, NEW f \in Files
  PROVE  WholeFile(f) \in ShardType
<1>1. directory[f].size \in 0 .. Modulus - 1
  BY DEF TypeOK, EntryType
<1>2. 0 \in 0 .. Modulus - 1
  BY NumbersAssumption
<1> QED
  BY <1>1, <1>2 DEF WholeFile, ShardType, PathType

(* Returning forgets the locals of discover.                               *)
LEMMA ReturnsType ==
  ASSUME Inv, NEW outcome \in {"ok", "error"}, Returns(outcome), shards_' \in Seq(ShardType)
  PROVE  Inv'
<1>1. Gone \in [Files -> EntryType]
  BY NumbersAssumption DEF Gone, EntryType
<1>2. TypeOK'
  <2>1. /\ has_directory' = has_directory /\ manifest' = manifest
        /\ text' = text /\ bad' = bad /\ saved' = saved /\ save_result' = save_result
        /\ pc' = "idle" /\ result' = outcome
        /\ directory' = Gone /\ visited' = {} /\ ec' = FALSE /\ files' = {} /\ set' = <<>>
    BY DEF Returns, saveVars
  <2>2. set' \in Seq(ShardType) /\ directory' \in [Files -> EntryType]
    BY <1>1, <2>1
  <2>3. pc' \notin {"lines", "close"}
    BY <2>1
  <2> QED BY <2>1, <2>2, <2>3 DEF Inv, TypeOK
<1>3. SaveInv'
  BY SaveUntouched DEF Inv, Returns
<1> QED
  BY <1>2, <1>3 DEF Inv

(* Opening the stream: nothing of the old list is left.                    *)
LEMMA BeginSaveInv ==
  ASSUME Inv, BeginSave
  PROVE  Inv'
<1>1. /\ has_directory' = has_directory /\ shards_' = shards_ /\ manifest' = <<>>
      /\ text' = <<Header>> /\ bad' = FALSE /\ saved' = shards_ /\ save_result' = "none"
      /\ pc' = "lines" /\ result' = result
      /\ directory' = directory /\ visited' = visited /\ ec' = ec /\ files' = files /\ set' = set
  BY DEF BeginSave, OpensWith, discoverVars
<1>2. <<Header>> \in Seq(LineType) /\ Len(<<Header>>) = 1 /\ <<Header>>[1] = Header
  BY HeaderType
<1>3. manifest' \in Seq(LineType) /\ Len(manifest') = 0
  BY <1>1
<1>4. shards_ \in Seq(ShardType) /\ Len(shards_) \in Nat
  BY DEF Inv, TypeOK
<1>5. Len(text') = 1 /\ text' \in Seq(LineType) /\ text'[1] = Header
  BY <1>1, <1>2
<1>6. TypeOK'
  <2>1. saved' \in Seq(ShardType) /\ Len(manifest') <= Len(text')
    BY <1>1, <1>3, <1>4, <1>5
  <2> QED BY <1>1, <1>3, <1>5, <2>1 DEF Inv, TypeOK
<1>7. /\ Len(Complete(shards_)') = Len(shards_) + 1
      /\ Complete(shards_)'[1] = Header
  <2>1. Complete(shards_)' = Complete(shards_)
    BY <1>1 DEF Complete, LineOf, Written
  <2> QED BY <1>4, <2>1, CompleteFacts
<1>8. Saving'
  <2>1. Len(text') \in 1 .. Len(shards_') + 1
    BY <1>1, <1>4, <1>5
  <2>2. \A i \in 1 .. Len(text') : text'[i] = Complete(shards_)'[i]
    BY <1>5, <1>7
  <2>3. BeginningOf(manifest, text)'
    BY <1>3, <1>5 DEF BeginningOf
  <2> QED BY <1>1, <2>1, <2>2, <2>3 DEF Saving
<1>9. BeginningOf(manifest, Complete(saved))'
  <2>1. Complete(saved)' = Complete(shards_)'
    BY <1>1 DEF Complete, LineOf, Written
  <2> QED BY <1>1, <1>3, <1>4, <1>7, <2>1 DEF BeginningOf
<1> QED
  BY <1>6, <1>8, <1>9 DEF Inv, SaveInv

(* The next line: what was inserted stays the beginning of the whole.      *)
LEMMA WriteLineInv ==
  ASSUME Inv, WriteLine
  PROVE  Inv'
<1>1. /\ has_directory' = has_directory /\ shards_' = shards_ /\ manifest' = manifest
      /\ text' = Append(text, LineOf(NextShard)) /\ bad' = bad /\ saved' = saved
      /\ save_result' = save_result /\ pc' = pc /\ result' = result
      /\ directory' = directory /\ visited' = visited /\ ec' = ec /\ files' = files /\ set' = set
  BY DEF WriteLine, discoverVars
<1>2. pc = "lines" /\ Len(text) <= Len(shards_)
  BY DEF WriteLine
<1>3. Saving
  BY <1>2 DEF Inv, SaveInv
<1>4. /\ shards_ \in Seq(ShardType) /\ text \in Seq(LineType) /\ manifest \in Seq(LineType)
      /\ Len(manifest) <= Len(text)
  BY <1>2 DEF Inv, TypeOK
<1>5. Len(text) \in 1 .. Len(shards_) /\ Len(shards_) \in Nat /\ Len(manifest) \in Nat
  BY <1>2, <1>3, <1>4 DEF Saving
<1>6. LineOf(NextShard) \in LineType
  BY <1>4, <1>5, LineOfType DEF NextShard
<1>7. /\ text' \in Seq(LineType) /\ Len(text') = Len(text) + 1
      /\ \A i \in 1 .. Len(text) : text'[i] = text[i]
      /\ text'[Len(text) + 1] = LineOf(NextShard)
  <2> DEFINE line == LineOf(NextShard)
  <2> HIDE DEF line
  <2>1. line \in LineType /\ text' = Append(text, line)
    BY <1>1, <1>6 DEF line
  <2>2. /\ text' \in Seq(LineType) /\ Len(text') = Len(text) + 1
        /\ \A i \in 1 .. Len(text) : text'[i] = text[i]
        /\ text'[Len(text) + 1] = line
    BY <1>4, <2>1
  <2> QED BY <2>2 DEF line
<1>8. TypeOK'
  <2>1. Len(manifest') <= Len(text')
    BY <1>1, <1>4, <1>5, <1>7
  <2> QED BY <1>1, <1>7, <2>1 DEF Inv, TypeOK
<1>9. Complete(shards_)' = Complete(shards_) /\ Complete(saved)' = Complete(saved)
  BY <1>1 DEF Complete, LineOf, Written
<1>10. Saving'
  <2>1. Len(text') \in 1 .. Len(shards_') + 1
    BY <1>1, <1>5, <1>7
  <2>2. \A i \in 1 .. Len(text') : text'[i] = Complete(shards_)[i]
    <3> TAKE i \in 1 .. Len(text')
    <3>1. i \in 1 .. Len(text) \/ i = Len(text) + 1
      BY <1>5, <1>7
    <3>2. CASE i \in 1 .. Len(text)
      BY <1>3, <1>7, <3>2 DEF Saving
    <3>3. CASE i = Len(text) + 1
      <4>1. Complete(shards_)[Len(text) + 1] = LineOf(shards_[Len(text)])
        BY <1>4, <1>5, CompleteFacts
      <4> QED BY <1>7, <3>3, <4>1 DEF NextShard
    <3> QED BY <3>1, <3>2, <3>3
  <2>3. BeginningOf(manifest', text')
    <3>1. BeginningOf(manifest, text)
      BY <1>3 DEF Saving
    <3>2. Len(manifest') <= Len(text')
      BY <1>1, <1>4, <1>5, <1>7
    <3>3. \A i \in 1 .. Len(manifest) : i \in 1 .. Len(text) /\ text'[i] = text[i]
      BY <1>4, <1>5, <1>7
    <3> QED BY <1>1, <3>1, <3>2, <3>3 DEF BeginningOf
  <2>4. BeginningOf(manifest, text)'
    BY <2>3 DEF BeginningOf, Cut, Skipped
  <2> QED BY <1>1, <1>3, <1>9, <2>1, <2>2, <2>4 DEF Saving
<1>11. BeginningOf(manifest, Complete(saved))'
  <2>1. BeginningOf(manifest, Complete(saved))
    BY <1>3 DEF Inv, SaveInv, Saving
  <2>2. BeginningOf(manifest, Complete(saved))' = BeginningOf(manifest', Complete(saved))
    BY <1>9 DEF BeginningOf, Cut, Skipped
  <2> QED BY <1>1, <2>1, <2>2
<1> QED
  BY <1>8, <1>10, <1>11 DEF Inv, SaveInv

(* What a flush leaves on disk is the beginning of the whole manifest too. *)
LEMMA FlushBeginning ==
  ASSUME Inv, pc \in {"lines", "close"}, NEW lines, FlushTo(lines)
  PROVE  /\ lines \in Seq(LineType) /\ Len(lines) <= Len(text)
         /\ BeginningOf(lines, text)
         /\ BeginningOf(lines, Complete(saved))
<1>1. /\ saved \in Seq(ShardType) /\ text \in Seq(LineType) /\ manifest \in Seq(LineType)
      /\ Saving
  BY DEF Inv, TypeOK, SaveInv
<1>2. /\ lines \in Seq(LineType)
      /\ Len(lines) \in Len(manifest) .. Len(text)
      /\ \A i \in 1 .. Len(lines) :
           lines[i] = text[i] \/ (i = Len(lines) /\ lines[i] \in Cut(text[i]))
  BY <1>1, FlushFacts
<1>3. /\ Len(text) \in 1 .. Len(saved) + 1
      /\ \A i \in 1 .. Len(text) : text[i] = Complete(saved)[i]
      /\ Len(Complete(saved)) = Len(saved) + 1
      /\ Len(lines) \in Nat /\ Len(manifest) \in Nat /\ Len(saved) \in Nat
  BY <1>1, <1>2, CompleteFacts DEF Saving
<1>4. \A i \in 1 .. Len(lines) : i \in 1 .. Len(text)
  BY <1>2, <1>3
<1>5. Len(lines) <= Len(text) /\ Len(lines) <= Len(Complete(saved))
  BY <1>2, <1>3
<1> QED
  BY <1>2, <1>3, <1>4, <1>5 DEF BeginningOf

(* A flush while the lines are written.                                    *)
LEMMA FlushInv ==
  ASSUME Inv, Flush
  PROVE  Inv'
<1>1. /\ has_directory' = has_directory /\ shards_' = shards_
      /\ text' = text /\ bad' \in BOOLEAN /\ saved' = saved
      /\ save_result' = save_result /\ pc' = pc /\ result' = result
      /\ directory' = directory /\ visited' = visited /\ ec' = ec /\ files' = files /\ set' = set
      /\ pc = "lines"
  BY DEF Flush, discoverVars
<1>2. /\ manifest' \in Seq(LineType) /\ Len(manifest') <= Len(text)
      /\ BeginningOf(manifest', text)
      /\ BeginningOf(manifest', Complete(saved))
  BY <1>1, FlushBeginning DEF Flush
<1>3. TypeOK'
  BY <1>1, <1>2 DEF Inv, TypeOK
<1>4. Complete(shards_)' = Complete(shards_) /\ Complete(saved)' = Complete(saved)
  BY <1>1 DEF Complete, LineOf, Written
<1>5. BeginningOf(manifest, text)' /\ BeginningOf(manifest, Complete(saved))'
  <2>1. BeginningOf(manifest, Complete(saved))' = BeginningOf(manifest', Complete(saved))
    BY <1>4 DEF BeginningOf, Cut, Skipped
  <2>2. BeginningOf(manifest, text)' = BeginningOf(manifest', text)
    BY <1>1 DEF BeginningOf, Cut, Skipped
  <2> QED BY <1>2, <2>1, <2>2
<1>6. Saving'
  BY <1>1, <1>4, <1>5 DEF Inv, SaveInv, Saving
<1> QED
  BY <1>3, <1>5, <1>6 DEF Inv, SaveInv

(* The destructor's flush.                                                 *)
LEMMA CloseInv ==
  ASSUME Inv, Close
  PROVE  Inv'
<1>1. /\ has_directory' = has_directory /\ shards_' = shards_
      /\ text' = <<>> /\ bad' = FALSE /\ saved' = saved
      /\ save_result' = save_result /\ pc' = "idle" /\ result' = result
      /\ directory' = directory /\ visited' = visited /\ ec' = ec /\ files' = files /\ set' = set
      /\ pc = "close"
  BY DEF Close, discoverVars
<1>2. manifest' \in Seq(LineType) /\ BeginningOf(manifest', Complete(saved))
  <2>1. CASE manifest' = manifest
    BY <1>1, <2>1 DEF Inv, TypeOK, SaveInv, Saving
  <2>2. CASE FlushTo(manifest')
    BY <1>1, <2>2, FlushBeginning
  <2> QED BY <2>1, <2>2 DEF Close
<1>3. TypeOK'
  <2>1. text' \in Seq(LineType) /\ pc' \notin {"lines", "close"}
    BY <1>1
  <2> QED BY <1>1, <1>2, <2>1 DEF Inv, TypeOK
<1>4. Complete(saved)' = Complete(saved)
  BY <1>1 DEF Complete, LineOf, Written
<1>5. BeginningOf(manifest, Complete(saved))'
  <2>1. BeginningOf(manifest, Complete(saved))' = BeginningOf(manifest', Complete(saved))
    BY <1>4 DEF BeginningOf, Cut, Skipped
  <2> QED BY <1>2, <2>1
<1> QED
  BY <1>1, <1>3, <1>5 DEF Inv, SaveInv

(* A crash leaves the manifest as it is.                                   *)
LEMMA CrashInv ==
  ASSUME Inv, Crash
  PROVE  Inv'
<1>1. /\ has_directory' = has_directory /\ shards_' = <<>> /\ manifest' = manifest
      /\ text' = <<>> /\ bad' = FALSE /\ saved' = saved
      /\ save_result' = "none" /\ pc' = "idle" /\ result' = result
      /\ directory' = directory /\ visited' = visited /\ ec' = ec /\ files' = files /\ set' = set
      /\ pc \in {"lines", "close"}
  BY DEF Crash, discoverVars
<1>2. TypeOK'
  <2>1. text' \in Seq(LineType) /\ shards_' \in Seq(ShardType) /\ pc' \notin {"lines", "close"}
    BY <1>1
  <2> QED BY <1>1, <2>1 DEF Inv, TypeOK
<1>3. Complete(saved)' = Complete(saved)
  BY <1>1 DEF Complete, LineOf, Written
<1>4. BeginningOf(manifest, Complete(saved))
  BY <1>1 DEF Inv, SaveInv, Saving
<1>5. BeginningOf(manifest, Complete(saved))'
  <2>1. BeginningOf(manifest, Complete(saved))' = BeginningOf(manifest', Complete(saved))
    BY <1>3 DEF BeginningOf, Cut, Skipped
  <2> QED BY <1>1, <1>4, <2>1
<1> QED
  BY <1>1, <1>2, <1>5 DEF Inv, SaveInv

(* Discovering touches neither a manifest nor a save.                      *)
LEMMA DiscoverKeepsInv ==
  ASSUME Inv,
         \/ BeginDiscover \/ DiscoverFails \/ EndIteration \/ IterationFailed
         \/ StatFails \/ EndDiscover
         \/ \E f \in Files : Visit(f) \/ Stat(f) \/ Unlink(f)
  PROVE  Inv'
<1>1. CASE BeginDiscover
  <2>1. /\ UNCHANGED <<has_directory, shards_, manifest, text, bad, saved, save_result, result,
                       visited, ec, files, set>>
        /\ directory' \in [Files -> EntryType] /\ pc' = "iterate"
    BY <1>1, DirectoriesAssumption DEF BeginDiscover, saveVars
  <2>2. TypeOK'
    BY <2>1 DEF Inv, TypeOK
  <2>3. SaveInv'
    BY <2>1, SaveUntouched DEF Inv, saveVars
  <2> QED BY <2>2, <2>3 DEF Inv
<1>2. CASE DiscoverFails
  BY <1>2, ReturnsType DEF DiscoverFails, Inv, TypeOK
<1>3. CASE EndIteration
  <2>1. /\ UNCHANGED <<has_directory, shards_, manifest, text, bad, saved, save_result, result,
                       directory, visited, ec, files, set>>
        /\ pc' = "stat"
    BY <1>3 DEF EndIteration, saveVars, discoverVars
  <2>2. TypeOK'
    BY <2>1 DEF Inv, TypeOK
  <2>3. SaveInv'
    BY <2>1, SaveUntouched DEF Inv, saveVars
  <2> QED BY <2>2, <2>3 DEF Inv
<1>4. CASE IterationFailed
  BY <1>4, ReturnsType DEF IterationFailed, Inv, TypeOK
<1>5. CASE StatFails
  BY <1>5, ReturnsType DEF StatFails, Inv, TypeOK
<1>6. CASE EndDiscover
  BY <1>6, ReturnsType DEF EndDiscover, Inv, TypeOK
<1>7. ASSUME NEW f \in Files, Visit(f) PROVE Inv'
  <2>1. /\ UNCHANGED <<has_directory, shards_, manifest, text, bad, saved, save_result, pc, result,
                       directory, set>>
        /\ visited' = visited \cup {f}
        /\ files' = files \cup {f} \/ files' = files
        /\ pc = "iterate"
    BY <1>7 DEF Visit, saveVars
  <2>2. ec' \in BOOLEAN
    BY <1>7 DEF Visit, Inv, TypeOK
  <2>3. TypeOK'
    BY <2>1, <2>2 DEF Inv, TypeOK
  <2>4. SaveInv'
    BY <2>1, SaveUntouched DEF Inv, saveVars
  <2> QED BY <2>3, <2>4 DEF Inv
<1>8. ASSUME NEW f \in Files, Stat(f) PROVE Inv'
  <2>1. /\ UNCHANGED <<has_directory, shards_, manifest, text, bad, saved, save_result, pc, result,
                       directory, visited, ec>>
        /\ files' = files \ {f}
        /\ set' = set \/ set' = Append(set, WholeFile(f))
        /\ pc = "stat"
    BY <1>8 DEF Stat, saveVars
  <2>2. set' \in Seq(ShardType)
    <3>1. set \in Seq(ShardType) /\ WholeFile(f) \in ShardType
      BY WholeFileType DEF Inv, TypeOK
    <3>2. Append(set, WholeFile(f)) \in Seq(ShardType)
      BY <3>1, AppendProperties
    <3> QED BY <2>1, <3>1, <3>2, Zenon
  <2>3. TypeOK'
    BY <2>1, <2>2 DEF Inv, TypeOK
  <2>4. SaveInv'
    BY <2>1, SaveUntouched DEF Inv, saveVars
  <2> QED BY <2>3, <2>4 DEF Inv
<1>9. ASSUME NEW f \in Files, Unlink(f) PROVE Inv'
  <2>1. /\ UNCHANGED <<has_directory, shards_, manifest, text, bad, saved, save_result, pc, result,
                       visited, ec, files, set>>
        /\ directory' = [directory EXCEPT ![f].kind = "gone"]
        /\ pc \in {"iterate", "stat"}
    BY <1>9 DEF Unlink, saveVars
  <2>2. directory' \in [Files -> EntryType]
    BY <2>1 DEF Inv, TypeOK, EntryType
  <2>3. TypeOK'
    BY <2>1, <2>2 DEF Inv, TypeOK
  <2>4. SaveInv'
    BY <2>1, SaveUntouched DEF Inv, saveVars
  <2> QED BY <2>3, <2>4 DEF Inv
<1> QED
  BY <1>1, <1>2, <1>3, <1>4, <1>5, <1>6, <1>7, <1>8, <1>9

(* No step of Next breaks the invariant.                                   *)
LEMMA InvNext == Inv /\ [Next]_vars => Inv'
<1> SUFFICES ASSUME Inv, [Next]_vars PROVE Inv'
  OBVIOUS
<1>0. TypeOK /\ SaveInv
  BY DEF Inv
<1>1. ASSUME NEW shard \in Added, Add(shard) PROVE Inv'
  <2>1. /\ UNCHANGED <<has_directory, manifest, text, bad, saved, save_result, pc, result,
                       directory, visited, ec, files, set>>
        /\ shards_' = Append(shards_, shard) /\ pc = "idle"
    BY <1>1 DEF Add, saveVars, discoverVars
  <2>2. shards_' \in Seq(ShardType)
    BY <1>0, <2>1, InputsAssumption DEF TypeOK
  <2>3. TypeOK'
    BY <1>0, <2>1, <2>2 DEF TypeOK
  <2>4. SaveInv'
    BY <1>0, <2>1, SaveUntouched DEF saveVars
  <2> QED BY <2>3, <2>4 DEF Inv
<1>2. CASE Load
  <2>1. /\ UNCHANGED <<has_directory, manifest, text, bad, saved, save_result, pc,
                       directory, visited, ec, files, set>>
        /\ shards_' = Loaded(manifest) /\ pc = "idle" /\ result' = "ok" /\ Loads(manifest)
    BY <1>2 DEF Load, StartCall, saveVars, discoverVars
  <2>2. shards_' \in Seq(ShardType)
    BY <1>0, <2>1, LoadedType DEF TypeOK
  <2>3. TypeOK'
    BY <1>0, <2>1, <2>2 DEF TypeOK
  <2>4. SaveInv'
    BY <1>0, <2>1, SaveUntouched DEF saveVars
  <2> QED BY <2>3, <2>4 DEF Inv
<1>3. CASE LoadFails \/ SaveCannotOpen
  <2>1. /\ UNCHANGED <<has_directory, shards_, manifest, text, bad, saved, save_result, pc,
                       directory, visited, ec, files, set>>
        /\ pc = "idle" /\ result' = "error"
    BY <1>3 DEF LoadFails, SaveCannotOpen, saveVars, discoverVars
  <2>2. TypeOK'
    BY <1>0, <2>1 DEF TypeOK
  <2>3. SaveInv'
    BY <1>0, <2>1, SaveUntouched DEF saveVars
  <2> QED BY <2>2, <2>3 DEF Inv
<1>4. CASE PathRejected \/ CheckStream
  <2>1. /\ UNCHANGED <<has_directory, shards_, manifest, text, bad, saved, result,
                       directory, visited, ec, files, set>>
        /\ pc = "lines" /\ pc' = "close" /\ save_result' \in {"ok", "error"}
    BY <1>4 DEF PathRejected, CheckStream, discoverVars
  <2>2. TypeOK'
    BY <1>0, <2>1 DEF TypeOK
  <2>3. Complete(shards_)' = Complete(shards_) /\ Complete(saved)' = Complete(saved)
    BY <2>1 DEF Complete, LineOf, Written
  <2>4. Saving /\ BeginningOf(manifest, Complete(saved))
    BY <1>0, <2>1 DEF SaveInv, Saving
  <2>5. BeginningOf(manifest, text)' = BeginningOf(manifest, text)
    BY <2>1 DEF BeginningOf, Cut, Skipped
  <2>6. BeginningOf(manifest, Complete(saved))' = BeginningOf(manifest, Complete(saved))
    BY <2>1, <2>3 DEF BeginningOf, Cut, Skipped
  <2>7. Saving'
    BY <2>1, <2>3, <2>4, <2>5 DEF Saving
  <2> QED BY <2>2, <2>4, <2>6, <2>7 DEF Inv, SaveInv
<1>5. CASE UNCHANGED vars
  <2>1. UNCHANGED <<has_directory, shards_, manifest, text, bad, saved, save_result, pc, result,
                    directory, visited, ec, files, set>>
    BY <1>5 DEF vars, saveVars, discoverVars
  <2>2. TypeOK'
    BY <1>0, <2>1 DEF TypeOK
  <2>3. SaveInv'
    BY <1>0, <2>1, SaveUntouched DEF saveVars
  <2> QED BY <2>2, <2>3 DEF Inv
<1> QED
  BY <1>1, <1>2, <1>3, <1>4, <1>5, BeginSaveInv, WriteLineInv, FlushInv, CloseInv, CrashInv,
     DiscoverKeepsInv DEF Next

(* The invariant of every state.                                           *)
THEOREM InvCorrect == Spec => []Inv
<1> QED
  BY InvInit, InvNext, PTL DEF Spec

(* TypeOK holds in every state: whatever the manifest held, whatever was   *)
(* added or discovered, and wherever a save was cut off.                   *)
THEOREM TypeCorrect == Spec => []TypeOK
<1>1. Inv => TypeOK
  BY DEF Inv
<1> QED
  BY <1>1, InvCorrect, PTL

-----------------------------------------------------------------------------
(* What load accepts.                                                       *)

(* The sum of two 64-bit numbers wraps around at most once.                *)
LEMMA SumWraps ==
  ASSUME NEW a \in 0 .. Modulus - 1, NEW b \in 0 .. Modulus - 1
  PROVE  /\ a + b < Modulus => (a + b) % Modulus = a + b
         /\ a + b >= Modulus => (a + b) % Modulus = a + b - Modulus
<1>1. Modulus \in Nat \ {0}
  BY NumbersAssumption
<1> QED
  BY <1>1

(* A line that load does not reject gives a shard that does not wrap.      *)
LEMMA AcceptedSound ==
  ASSUME NEW line \in LineType, ~Rejected(line)
  PROVE  Sound(Parsed(line))
<1> DEFINE o == line.offset
<1> DEFINE n == line.length
<1> DEFINE shard == Parsed(line)
<1>1. shard.offset = o /\ shard.length = n
  BY DEF Parsed
<1>2. Modulus \in Nat \ {0} /\ o \in Nat /\ n \in Nat
  BY NumbersAssumption DEF LineType
<1>3. o \in 0 .. Modulus - 1 /\ n \in 0 .. Modulus - 1 /\ n # 0 /\ o % Alignment = 0
  BY <1>2 DEF Rejected, Unparsable
<1>4. (o + n) % Modulus >= o
  <2>1. ~((o + n) % Modulus < o)
    BY DEF Rejected, Overflows
  <2>2. (o + n) % Modulus \in Int
    BY <1>2
  <2> QED BY <1>2, <2>1, <2>2
<1> HIDE DEF o, n, shard
<1>5. o + n < Modulus
  <2>1. SUFFICES ASSUME o + n >= Modulus PROVE FALSE
    BY <1>2
  <2>2. (o + n) % Modulus = o + n - Modulus
    BY <1>3, <2>1, SumWraps
  <2> QED BY <1>2, <1>3, <1>4, <2>2
<1>6. end(shard) = o + n
  BY <1>1, <1>3, <1>5, SumWraps DEF end
<1>7. {p \in 0 .. Modulus - 1 : contains(shard, p)} = o .. o + n - 1
  BY <1>1, <1>2, <1>3, <1>5, <1>6 DEF contains
<1> QED
  BY <1>1, <1>2, <1>3, <1>7 DEF Sound, shard

(* LoadedSound holds in every state: whatever is in the manifest, a shard  *)
(* that load accepts is not empty, is aligned for O_DIRECT and does not    *)
(* wrap around.                                                            *)
THEOREM LoadsOnlySound == Spec => []LoadedSound
<1>1. TypeOK => LoadedSound
  <2> SUFFICES ASSUME TypeOK, Loads(manifest),
                      NEW i \in DOMAIN Loaded(manifest)
               PROVE  Sound(Loaded(manifest)[i])
    BY DEF LoadedSound
  <2>1. /\ DOMAIN Loaded(manifest) = 1 .. Len(Entries(manifest))
        /\ \A k \in 1 .. Len(Entries(manifest)) :
             /\ Loaded(manifest)[k] = Parsed(Entries(manifest)[k])
             /\ Entries(manifest)[k] \in LineType
             /\ ~Rejected(Entries(manifest)[k])
    BY LoadedType DEF TypeOK
  <2> QED BY <2>1, AcceptedSound
<1> QED
  BY <1>1, TypeCorrect, PTL

-----------------------------------------------------------------------------
(* What save wrote is what load finds.                                      *)

(* A path that is plain survives being written and resolved.               *)
LEMMA PlainLine ==
  ASSUME NEW shard \in ShardType, Plain(shard), has_directory \in BOOLEAN
  PROVE  /\ ~Skipped(LineOf(shard)) /\ LineOf(shard).kind = "shard"
         /\ LineOf(shard).offset = shard.offset /\ LineOf(shard).length = shard.length
         /\ Resolved(LineOf(shard).path).file = shard.path.file
<1>1. shard.path \in PathType
  BY DEF ShardType
<1>2. LineOf(shard).path = Written(shard.path)
  BY DEF LineOf
<1>3. Written(shard.path).file = shard.path.file
  BY <1>1 DEF Written
<1>4. ~Skipped(LineOf(shard))
  BY <1>2, <1>3 DEF Skipped, LineOf, Plain
<1>5. Resolved(Written(shard.path)).file = shard.path.file
  <2>1. CASE has_directory
    <3>1. Written(shard.path) = [file |-> shard.path.file, base |-> "manifest"]
      BY <2>1 DEF Written, Plain
    <3> QED BY <3>1 DEF Resolved
  <2>2. CASE ~has_directory
    BY <2>2 DEF Written, Resolved
  <2> QED BY <2>1, <2>2
<1> QED
  BY <1>2, <1>4, <1>5 DEF LineOf

(* And a shard that is sound is not rejected.                              *)
LEMMA SoundAccepted ==
  ASSUME NEW shard \in ShardType, Sound(shard)
  PROVE  ~Rejected(LineOf(shard))
<1> DEFINE o == shard.offset
<1> DEFINE n == shard.length
<1> DEFINE line == LineOf(shard)
<1>1. Modulus \in Nat \ {0} /\ o \in 0 .. Modulus - 1 /\ n \in 0 .. Modulus - 1
  BY NumbersAssumption DEF ShardType
<1>2. n > 0 /\ o % Alignment = 0
  BY DEF Sound
<1>3. {p \in 0 .. Modulus - 1 : contains(shard, p)} = o .. o + n - 1
  BY DEF Sound
<1>4. line.kind = "shard" /\ line.offset = o /\ line.length = n
  BY DEF LineOf
<1> HIDE DEF line
<1>5. o + n - 1 \in 0 .. Modulus - 1 /\ contains(shard, o)
  <2> HIDE DEF o, n
  <2>1. o \in o .. o + n - 1 /\ o + n - 1 \in o .. o + n - 1
    BY <1>1, <1>2
  <2> QED BY <1>3, <2>1
<1>6. o < end(shard)
  BY <1>5 DEF contains
<1> DEFINE e == end(shard)
<1>7. e = (o + n) % Modulus
  BY DEF end
<1> HIDE DEF o, n, e
<1>8. o + n < Modulus
  <2>1. SUFFICES ASSUME o + n = Modulus PROVE FALSE
    BY <1>1, <1>5
  <2>2. e = 0
    BY <1>1, <1>7, <2>1, SumWraps
  <2> QED BY <1>1, <1>6, <2>2 DEF e
<1>9. (o + n) % Modulus = o + n
  BY <1>1, <1>8, SumWraps
<1>10. ~Overflows(line)
  BY <1>1, <1>4, <1>9 DEF Overflows
<1>11. ~Unparsable(line)
  BY <1>1, <1>4 DEF Unparsable
<1>12. line.length # 0 /\ line.offset % Alignment = 0
  BY <1>1, <1>2, <1>4 DEF o, n
<1> QED
  BY <1>10, <1>11, <1>12 DEF Rejected, line

(* RoundTrip holds in every state: a manifest that save has written        *)
(* completely loads as the list it was saved from.                         *)
THEOREM SavedLoadsBack == Spec => []RoundTrip
<1>1. TypeOK => RoundTrip
  <2> SUFFICES ASSUME TypeOK, manifest = Complete(saved),
                      \A i \in DOMAIN saved : Plain(saved[i]) /\ Sound(saved[i])
               PROVE  /\ Loads(manifest) /\ Len(Loaded(manifest)) = Len(saved)
                      /\ \A i \in DOMAIN saved : SameRange(Loaded(manifest)[i], saved[i])
    BY DEF RoundTrip
  <2>1. /\ saved \in Seq(ShardType) /\ manifest \in Seq(LineType) /\ has_directory \in BOOLEAN
        /\ DOMAIN saved = 1 .. Len(saved) /\ Len(saved) \in Nat
    BY DEF TypeOK
  <2>2. /\ Len(manifest) = Len(saved) + 1 /\ manifest[1] = Header
        /\ \A i \in 1 .. Len(saved) : manifest[i + 1] = LineOf(saved[i])
    BY <2>1, CompleteFacts
  <2>3. Skipped(manifest[1])
    BY <2>2, HeaderType DEF Skipped
  <2>4. \A i \in 1 .. Len(saved) : ~Skipped(manifest[i + 1]) /\ ~Rejected(manifest[i + 1])
    BY <2>1, <2>2, PlainLine, SoundAccepted
  <2>5. \A i \in 2 .. Len(manifest) : ~Skipped(manifest[i])
    <3> TAKE i \in 2 .. Len(manifest)
    <3>1. i - 1 \in 1 .. Len(saved) /\ (i - 1) + 1 = i
      BY <2>1, <2>2
    <3>2. ~Skipped(manifest[(i - 1) + 1])
      BY <2>4, <3>1
    <3> QED BY <3>1, <3>2
  <2>6. /\ Len(Entries(manifest)) = Len(saved)
        /\ \A i \in 1 .. Len(saved) : Entries(manifest)[i] = manifest[i + 1]
    BY <2>1, <2>2, <2>3, <2>5, EntriesAfterHeader
  <2>7. Loads(manifest)
    <3>1. DOMAIN Entries(manifest) = 1 .. Len(saved)
      BY <2>1, <2>6, EntriesType
    <3> QED BY <2>4, <2>6, <3>1 DEF Loads
  <2>8. /\ Len(Loaded(manifest)) = Len(saved)
        /\ \A i \in 1 .. Len(saved) : Loaded(manifest)[i] = Parsed(Entries(manifest)[i])
    BY <2>1, <2>6, <2>7, LoadedType
  <2>9. ASSUME NEW i \in 1 .. Len(saved) PROVE SameRange(Loaded(manifest)[i], saved[i])
    <3>1. Loaded(manifest)[i] = Parsed(LineOf(saved[i]))
      BY <2>2, <2>6, <2>8
    <3>2. saved[i] \in ShardType /\ Plain(saved[i])
      BY <2>1
    <3> QED BY <2>1, <3>1, <3>2, PlainLine DEF SameRange, Parsed
  <2> QED BY <2>1, <2>7, <2>8, <2>9
<1> QED
  BY <1>1, TypeCorrect, PTL

(* What is on disk of a shard's line is the line, a line that is refused,  *)
(* or the line with fewer digits at the end.                               *)
LEMMA CutLine ==
  ASSUME NEW shard \in ShardType, Plain(shard), has_directory \in BOOLEAN,
         NEW line, line = LineOf(shard) \/ line \in Cut(LineOf(shard))
  PROVE  /\ ~Skipped(line)
         /\ ~Rejected(line) =>
              /\ Parsed(line).path.file = shard.path.file
              /\ Parsed(line).offset = shard.offset
              /\ Parsed(line).length <= shard.length
<1> DEFINE whole == LineOf(shard)
<1>1. /\ ~Skipped(whole) /\ whole.kind = "shard"
      /\ whole.offset = shard.offset /\ whole.length = shard.length
      /\ Resolved(whole.path).file = shard.path.file
      /\ whole \in LineType /\ shard.length \in Nat
  BY PlainLine, LineOfType, NumbersAssumption DEF ShardType
<1> HIDE DEF whole
<1>2. CASE line = whole
  BY <1>1, <1>2 DEF Parsed
<1>3. CASE line = Malformed
  <2>1. line.kind = "malformed"
    BY <1>3 DEF Malformed, Header
  <2> QED BY <2>1 DEF Skipped, Rejected, Unparsable
<1>4. CASE \E n \in FirstDigits(whole.length) : line = [whole EXCEPT !.length = n]
  <2>1. PICK n \in 1 .. whole.length : line = [whole EXCEPT !.length = n]
    BY <1>4 DEF FirstDigits
  <2>2. n \in Nat /\ n <= whole.length
    BY <1>1, <2>1
  <2>3. /\ line.kind = whole.kind /\ line.path = whole.path /\ line.offset = whole.offset
        /\ line.length = n
    BY <1>1, <2>1 DEF LineType
  <2> QED BY <1>1, <2>2, <2>3 DEF Skipped, Parsed
<1> QED
  BY <1>1, <1>2, <1>3, <1>4 DEF Cut, whole

(* UnfinishedIsPrefix holds in every state: what an error, a failed write  *)
(* or a crash left of a save is refused or describes the beginning of the  *)
(* list, and only the last length may have lost digits.                    *)
THEOREM UnfinishedLoadsPrefix == Spec => []UnfinishedIsPrefix
<1>1. Inv => UnfinishedIsPrefix
  <2> SUFFICES ASSUME Inv, save_result # "never", Loads(manifest),
                      \A i \in DOMAIN saved : Plain(saved[i])
               PROVE  /\ Len(Loaded(manifest)) <= Len(saved)
                      /\ \A i \in DOMAIN Loaded(manifest) :
                           LET shard == Loaded(manifest)[i]
                           IN  /\ SameRange([shard EXCEPT !.length = saved[i].length], saved[i])
                               /\ shard.length <= saved[i].length
                               /\ i < Len(Loaded(manifest)) => shard.length = saved[i].length
    BY DEF UnfinishedIsPrefix
  <2>1. /\ saved \in Seq(ShardType) /\ manifest \in Seq(LineType) /\ has_directory \in BOOLEAN
        /\ DOMAIN saved = 1 .. Len(saved) /\ Len(saved) \in Nat /\ Len(manifest) \in Nat
    BY DEF Inv, TypeOK
  <2>2. BeginningOf(manifest, Complete(saved))
    BY DEF Inv, SaveInv
  <2>3. /\ Len(Complete(saved)) = Len(saved) + 1 /\ Complete(saved)[1] = Header
        /\ \A i \in 1 .. Len(saved) : Complete(saved)[i + 1] = LineOf(saved[i])
    BY <2>1, CompleteFacts
  <2>4. Len(manifest) <= Len(saved) + 1
    BY <2>2, <2>3 DEF BeginningOf
  <2>5. Len(manifest) > 0 => Skipped(manifest[1])
    <3> SUFFICES ASSUME Len(manifest) > 0 PROVE Skipped(manifest[1])
      OBVIOUS
    <3>1. manifest[1] = Header \/ manifest[1] \in Cut(Header)
      BY <2>1, <2>2, <2>3 DEF BeginningOf
    <3>2. manifest[1] = Header
      BY <3>1, HeaderType DEF Cut
    <3> QED BY <3>2, HeaderType DEF Skipped
  <2>6. ASSUME NEW k \in 1 .. Len(saved), k + 1 <= Len(manifest)
        PROVE  /\ ~Skipped(manifest[k + 1])
               /\ ~Rejected(manifest[k + 1]) =>
                    /\ Parsed(manifest[k + 1]).path.file = saved[k].path.file
                    /\ Parsed(manifest[k + 1]).offset = saved[k].offset
                    /\ Parsed(manifest[k + 1]).length <= saved[k].length
               /\ k + 1 < Len(manifest) => Parsed(manifest[k + 1]).length = saved[k].length
    <3>1. k + 1 \in 1 .. Len(manifest)
      BY <2>1, <2>6
    <3>2. saved[k] \in ShardType /\ Plain(saved[k])
      BY <2>1
    <3>3. \/ manifest[k + 1] = LineOf(saved[k])
          \/ (k + 1 = Len(manifest) /\ manifest[k + 1] \in Cut(LineOf(saved[k])))
      BY <2>2, <2>3, <3>1 DEF BeginningOf
    <3>4. ASSUME k + 1 < Len(manifest)
          PROVE  Parsed(manifest[k + 1]).length = saved[k].length
      <4>1. manifest[k + 1] = LineOf(saved[k])
        BY <2>1, <3>3, <3>4
      <4> QED BY <2>1, <3>2, <4>1, PlainLine DEF Parsed
    <3> QED BY <2>1, <3>2, <3>3, <3>4, CutLine
  <2>7. \A i \in 2 .. Len(manifest) : ~Skipped(manifest[i])
    <3> TAKE i \in 2 .. Len(manifest)
    <3>1. i - 1 \in 1 .. Len(saved) /\ (i - 1) + 1 = i /\ (i - 1) + 1 <= Len(manifest)
      BY <2>1, <2>4
    <3>2. ~Skipped(manifest[(i - 1) + 1])
      BY <2>6, <3>1
    <3> QED BY <3>1, <3>2
  <2>8. /\ Len(Entries(manifest)) = IF Len(manifest) = 0 THEN 0 ELSE Len(manifest) - 1
        /\ \A i \in 1 .. Len(Entries(manifest)) : Entries(manifest)[i] = manifest[i + 1]
    BY <2>1, <2>5, <2>7, EntriesAfterHeader
  <2>9. /\ Len(Loaded(manifest)) = Len(Entries(manifest))
        /\ DOMAIN Loaded(manifest) = 1 .. Len(Entries(manifest))
        /\ \A i \in 1 .. Len(Entries(manifest)) :
             /\ Loaded(manifest)[i] = Parsed(Entries(manifest)[i])
             /\ ~Rejected(Entries(manifest)[i])
    BY <2>1, LoadedType
  <2>10. Len(Loaded(manifest)) <= Len(saved)
    BY <2>1, <2>4, <2>8, <2>9
  <2>11. ASSUME NEW i \in 1 .. Len(Entries(manifest))
         PROVE  LET shard == Loaded(manifest)[i]
                IN  /\ SameRange([shard EXCEPT !.length = saved[i].length], saved[i])
                    /\ shard.length <= saved[i].length
                    /\ i < Len(Loaded(manifest)) => shard.length = saved[i].length
    <3>1. i \in 1 .. Len(saved) /\ i + 1 <= Len(manifest)
      BY <2>1, <2>4, <2>8
    <3> DEFINE shard == Loaded(manifest)[i]
    <3>2. shard = Parsed(manifest[i + 1]) /\ ~Rejected(manifest[i + 1])
      BY <2>8, <2>9
    <3>3. /\ shard.path.file = saved[i].path.file /\ shard.offset = saved[i].offset
          /\ shard.length <= saved[i].length
      BY <2>6, <3>1, <3>2
    <3>4. i < Len(Loaded(manifest)) => shard.length = saved[i].length
      <4> SUFFICES ASSUME i < Len(Loaded(manifest)) PROVE shard.length = saved[i].length
        OBVIOUS
      <4>1. i + 1 < Len(manifest)
        BY <2>1, <2>8, <2>9
      <4> QED BY <2>6, <3>1, <3>2, <4>1
    <3>5. shard = [path |-> shard.path, offset |-> shard.offset, length |-> shard.length]
      BY <3>2 DEF Parsed
    <3>6. SameRange([shard EXCEPT !.length = saved[i].length], saved[i])
      <4> HIDE DEF shard
      <4> QED BY <3>3, <3>5 DEF SameRange
    <3> QED BY <3>3, <3>4, <3>6
  <2> QED BY <2>9, <2>10, <2>11
<1> QED
  BY <1>1, InvCorrect, PTL

-----------------------------------------------------------------------------
(* What discover returns.                                                   *)

(* With nothing visited, taken or returned there is nothing to say.        *)
LEMMA NothingDiscovered ==
  ASSUME pc' # "stat", visited' = {}, files' = {}, set' = <<>>
  PROVE  DiscoverInv'
<1>1. DOMAIN set' = {}
  OBVIOUS
<1> QED
  BY <1>1 DEF DiscoverInv

(* And so it is before discover is called, and after it has returned.      *)
LEMMA OutsideDiscover ==
  ASSUME DiscoverInv, pc \notin {"iterate", "stat"}, pc' # "stat",
         UNCHANGED <<visited, files, set>>
  PROVE  DiscoverInv'
<1>1. visited = {} /\ files = {} /\ set = <<>>
  BY DEF DiscoverInv
<1> QED
  BY <1>1, NothingDiscovered

(* A visit takes the entry if it is a visible regular file.                *)
LEMMA VisitDiscovers ==
  ASSUME TypeOK, DiscoverInv, NEW f \in Files, Visit(f)
  PROVE  DiscoverInv'
<1>1. /\ pc = "iterate" /\ pc' = pc /\ directory' = directory /\ set' = set
      /\ visited' = visited \cup {f}
      /\ files' = IF Taken(directory[f]) THEN files \cup {f} ELSE files
  BY DEF Visit
<1>2. set = <<>> /\ DOMAIN set' = {}
  BY <1>1 DEF DiscoverInv
<1>3. \A g \in Files : (Wanted(g))' = Wanted(g) /\ (Candidate(g))' = Candidate(g)
  BY <1>1 DEF Wanted, Candidate, Present, Taken
<1>4. visited \subseteq Files /\ files \subseteq Files
  BY DEF TypeOK
<1>5. \A g \in visited' : (Wanted(g))' => g \in files'
  <2> TAKE g \in visited'
  <2>1. g \in Files
    BY <1>1, <1>4
  <2>2. CASE g = f
    BY <1>1, <1>3, <2>1, <2>2 DEF Wanted
  <2>3. CASE g # f
    BY <1>1, <1>3, <2>1, <2>3 DEF DiscoverInv
  <2> QED BY <2>2, <2>3
<1>6. \A g \in files' : (Candidate(g))'
  <2> TAKE g \in files'
  <2>1. g \in files \/ (g = f /\ Taken(directory[f]))
    BY <1>1
  <2>2. Candidate(g)
    BY <2>1 DEF DiscoverInv, Candidate, Taken
  <2> QED BY <1>3, <1>4, <2>1, <2>2
<1>7. /\ pc' \notin {"idle", "stat"} /\ pc' \in {"iterate"} /\ set' = <<>>
  BY <1>1, <1>2
<1> QED
  BY <1>2, <1>5, <1>6, <1>7 DEF DiscoverInv

(* When all that is present was visited, what is wanted was taken.         *)
LEMMA EndIterationDiscovers ==
  ASSUME TypeOK, DiscoverInv, EndIteration
  PROVE  DiscoverInv'
<1>1. /\ pc = "iterate" /\ pc' = "stat" /\ directory' = directory /\ set' = set
      /\ visited' = visited /\ files' = files /\ Present \subseteq visited
  BY DEF EndIteration, discoverVars
<1>2. set = <<>> /\ DOMAIN set' = {}
  BY <1>1 DEF DiscoverInv
<1>3. \A g \in Files : (Wanted(g))' = Wanted(g) /\ (Candidate(g))' = Candidate(g)
  BY <1>1 DEF Wanted, Candidate, Present, Taken
<1>4. \A g \in Files : (Wanted(g))' => g \in files'
  BY <1>1, <1>3 DEF DiscoverInv, Wanted
<1>5. \A g \in files' : (Candidate(g))'
  BY <1>1, <1>3 DEF DiscoverInv, TypeOK
<1> QED
  BY <1>1, <1>2, <1>4, <1>5 DEF DiscoverInv

(* The first file left goes to the end of the list, unless it is empty.    *)
LEMMA StatDiscovers ==
  ASSUME TypeOK, DiscoverInv, NEW f \in Files, Stat(f)
  PROVE  DiscoverInv'
<1>1. /\ pc = "stat" /\ pc' = pc /\ directory' = directory /\ visited' = visited
      /\ files' = files \ {f} /\ First(f)
      /\ set' = IF directory[f].size = 0 THEN set ELSE Append(set, WholeFile(f))
  BY DEF Stat
<1>2. \A g \in Files : /\ (Wanted(g))' = Wanted(g) /\ (Candidate(g))' = Candidate(g)
                       /\ (WholeFile(g))' = WholeFile(g)
  BY <1>1 DEF Wanted, Candidate, Present, Taken, WholeFile
<1>3. /\ set \in Seq(ShardType) /\ Len(set) \in Nat /\ DOMAIN set = 1 .. Len(set)
      /\ files \subseteq Files /\ Files \subseteq Nat
      /\ f \in files /\ \A g \in files : f <= g
  BY <1>1, FilesAssumption DEF TypeOK, First
<1>4. \A g \in files' : f < g /\ g \in files
  BY <1>1, <1>3
<1>5. WholeFile(f) \in ShardType /\ WholeFile(f).path.file = f
  BY WholeFileType DEF WholeFile
<1>6. /\ \A i \in DOMAIN set : i \in DOMAIN set' /\ set'[i] = set[i]
      /\ \A i \in DOMAIN set' : i \in DOMAIN set \/ (i = Len(set) + 1 /\ set'[i] = WholeFile(f))
      /\ directory[f].size # 0 => \E i \in DOMAIN set' : set'[i] = WholeFile(f)
      /\ \A i \in DOMAIN set : i > 1 => i - 1 \in DOMAIN set /\ set'[i - 1] = set[i - 1]
      /\ DOMAIN set' = 1 .. Len(set) \/ DOMAIN set' = 1 .. Len(set) + 1
  <2>1. CASE directory[f].size = 0
    BY <1>1, <1>3, <2>1
  <2>2. CASE directory[f].size # 0
    <3> DEFINE w == WholeFile(f)
    <3>1. set' = Append(set, w) /\ w \in ShardType
      BY <1>1, <1>5, <2>2
    <3> HIDE DEF w
    <3>2. /\ DOMAIN set' = 1 .. Len(set) + 1 /\ set'[Len(set) + 1] = w
          /\ \A i \in 1 .. Len(set) : set'[i] = set[i]
      BY <1>3, <3>1
    <3>3. Len(set) + 1 \in DOMAIN set'
      BY <1>3, <3>2
    <3>4. \A i \in 1 .. Len(set) : i \in 1 .. Len(set) + 1 /\ (i > 1 => i - 1 \in 1 .. Len(set))
      BY <1>3
    <3>5. \A i \in 1 .. Len(set) + 1 : i \in 1 .. Len(set) \/ i = Len(set) + 1
      BY <1>3
    <3> QED BY <1>3, <3>2, <3>3, <3>4, <3>5 DEF w
  <2> QED BY <2>1, <2>2
<1>7. \A g \in Files : (Wanted(g))' =>
        g \in files' \/ \E i \in DOMAIN set' : set'[i] = (WholeFile(g))'
  <2> SUFFICES ASSUME NEW g \in Files, Wanted(g), g \notin files'
               PROVE  \E i \in DOMAIN set' : set'[i] = WholeFile(g)
    BY <1>2
  <2>1. CASE g = f
    <3>1. directory[f].size # 0
      BY <2>1 DEF Wanted, TypeOK, EntryType
    <3> QED BY <1>6, <2>1, <3>1
  <2>2. CASE g # f
    <3>1. g \notin files
      BY <1>1, <2>2
    <3>2. PICK i \in DOMAIN set : set[i] = WholeFile(g)
      BY <1>1, <3>1 DEF DiscoverInv
    <3> QED BY <1>6, <3>2
  <2> QED BY <2>1, <2>2
<1>8. \A g \in files' : (Candidate(g))'
  BY <1>2, <1>3, <1>4 DEF DiscoverInv
<1>9. ASSUME NEW i \in DOMAIN set'
      PROVE  \E h \in Files :
               /\ set'[i] = (WholeFile(h))' /\ (Candidate(h))'
               /\ \A g \in files' : h < g
               /\ i > 1 => set'[i - 1].path.file < h
  <2>1. CASE i \in DOMAIN set
    <3>1. PICK h \in Files : /\ set[i] = WholeFile(h) /\ Candidate(h)
                             /\ \A g \in files : h < g
                             /\ i > 1 => set[i - 1].path.file < h
      BY <2>1 DEF DiscoverInv
    <3>2. set'[i] = WholeFile(h) /\ (i > 1 => set'[i - 1].path.file < h)
      BY <1>6, <2>1, <3>1
    <3> QED BY <1>2, <1>4, <3>1, <3>2
  <2>2. CASE i = Len(set) + 1 /\ set'[i] = WholeFile(f)
    <3>1. Candidate(f)
      BY <1>3 DEF DiscoverInv
    <3>2. ASSUME i > 1 PROVE set'[i - 1].path.file < f
      <4>1. i - 1 \in DOMAIN set /\ i - 1 = Len(set)
        BY <1>3, <2>2, <3>2
      <4>2. set'[i - 1] = set[i - 1]
        BY <1>6, <4>1
      <4>3. PICK h \in Files : set[i - 1] = WholeFile(h) /\ \A g \in files : h < g
        BY <4>1 DEF DiscoverInv
      <4>4. set[i - 1].path.file = h
        BY <4>3 DEF WholeFile
      <4> QED BY <1>3, <4>2, <4>3, <4>4
    <3> QED BY <1>2, <1>4, <2>2, <3>1, <3>2
  <2> QED BY <1>6, <2>1, <2>2
<1>10. pc' = "stat"
  BY <1>1
<1> QED
  BY <1>7, <1>8, <1>9, <1>10 DEF DiscoverInv

(* A file that goes away is not wanted any more, and may be named.         *)
LEMMA UnlinkDiscovers ==
  ASSUME TypeOK, DiscoverInv, NEW f \in Files, Unlink(f)
  PROVE  DiscoverInv'
<1>1. /\ pc' = pc /\ visited' = visited /\ files' = files /\ set' = set
      /\ directory' = [directory EXCEPT ![f].kind = "gone"]
  BY DEF Unlink
<1>2. directory \in [Files -> EntryType] /\ files \subseteq Files /\ visited \subseteq Files
  BY DEF TypeOK
<1>3. \A g \in Files : /\ directory'[g].hidden = directory[g].hidden
                       /\ directory'[g].size = directory[g].size
                       /\ directory'[g].kind = IF g = f THEN "gone" ELSE directory[g].kind
  BY <1>1, <1>2 DEF EntryType
<1>4. \A g \in Files : /\ (Wanted(g))' => Wanted(g)
                       /\ Candidate(g) => (Candidate(g))'
                       /\ (WholeFile(g))' = WholeFile(g)
  <2> TAKE g \in Files
  <2>1. (Wanted(g))' => Wanted(g)
    BY <1>3 DEF Wanted, Present, Taken
  <2>2. Candidate(g) => (Candidate(g))'
    BY <1>3 DEF Candidate
  <2>3. (WholeFile(g))' = WholeFile(g)
    BY <1>3 DEF WholeFile
  <2> QED BY <2>1, <2>2, <2>3
<1> QED
  BY <1>1, <1>2, <1>4 DEF DiscoverInv

(* No step breaks the invariant of discover.                               *)
LEMMA DiscoverNext == TypeOK /\ DiscoverInv /\ [Next]_vars => DiscoverInv'
<1> SUFFICES ASSUME TypeOK, DiscoverInv, [Next]_vars PROVE DiscoverInv'
  OBVIOUS
<1>1. ASSUME pc \notin {"iterate", "stat"}, pc' # "stat", UNCHANGED <<visited, files, set>>
      PROVE  DiscoverInv'
  BY <1>1, OutsideDiscover
<1>2. CASE \E shard \in Added : Add(shard)
  BY <1>1, <1>2 DEF Add, discoverVars
<1>3. CASE Load \/ LoadFails
  BY <1>1, <1>3 DEF Load, LoadFails, StartCall, discoverVars
<1>4. CASE BeginSave \/ SaveCannotOpen
  BY <1>1, <1>4 DEF BeginSave, OpensWith, SaveCannotOpen, StartCall, discoverVars
<1>5. CASE WriteLine \/ PathRejected \/ CheckStream
  BY <1>1, <1>5 DEF WriteLine, PathRejected, CheckStream, discoverVars
<1>6. CASE Flush \/ Close \/ Crash
  BY <1>1, <1>6 DEF Flush, Close, Crash, discoverVars
<1>7. CASE BeginDiscover
  BY <1>1, <1>7 DEF BeginDiscover, StartCall
<1>8. CASE DiscoverFails \/ IterationFailed \/ StatFails \/ EndDiscover
  BY <1>8, NothingDiscovered DEF DiscoverFails, IterationFailed, StatFails, EndDiscover, Returns
<1>9. CASE EndIteration
  BY <1>9, EndIterationDiscovers
<1>10. CASE \E f \in Files : Visit(f) \/ Stat(f) \/ Unlink(f)
  BY <1>10, VisitDiscovers, StatDiscovers, UnlinkDiscovers
<1>11. CASE UNCHANGED vars
  BY <1>11 DEF vars, discoverVars, DiscoverInv, Wanted, Candidate, Present, Taken, WholeFile
<1> QED
  BY <1>2, <1>3, <1>4, <1>5, <1>6, <1>7, <1>8, <1>9, <1>10, <1>11 DEF Next

(* At the start nothing was discovered.                                    *)
LEMMA DiscoverInit == Init => DiscoverInv
<1>1. ASSUME set = <<>> PROVE DOMAIN set = {}
  BY <1>1
<1> QED
  BY <1>1 DEF Init, DiscoverInv

(* DiscoverExact holds of every step: discover returns ok with one shard   *)
(* for each visible regular file that is not empty, in the order of their  *)
(* names; a file removed meanwhile is the only other it may name.          *)
THEOREM DiscoversExactly == Spec => DiscoverExact
<1> DEFINE Exact ==
      pc = "stat" /\ pc' = "idle" /\ result' = "ok" =>
        /\ \A f \in Present : ~directory[f].hidden /\ directory[f].kind = "file"
                               /\ directory[f].size > 0
                               => \E i \in DOMAIN shards_' : shards_'[i] = WholeFile(f)
        /\ \A i \in DOMAIN shards_' :
             LET f == shards_'[i].path.file
             IN  /\ ~directory[f].hidden /\ directory[f].kind \in {"file", "gone"}
                 /\ i > 1 => shards_'[i - 1].path.file < f
<1>1. TypeOK /\ DiscoverInv /\ [Next]_vars => Exact
  <2> SUFFICES ASSUME DiscoverInv, [Next]_vars, pc = "stat", pc' = "idle", result' = "ok"
               PROVE  Exact
    OBVIOUS
  <2>1. EndDiscover
    <3>1. pc' # pc
      OBVIOUS
    <3>2. Next
      BY <3>1 DEF vars
    <3> QED
      BY <3>2 DEF Next, Add, Load, LoadFails, BeginSave, OpensWith, SaveCannotOpen, StartCall,
         WriteLine, PathRejected, CheckStream, Flush, Close, Crash, BeginDiscover, DiscoverFails,
         EndIteration, IterationFailed, StatFails, Returns, Visit, Stat, Unlink
  <2>2. shards_' = set /\ files = {}
    BY <2>1 DEF EndDiscover
  <2>3. \A f \in Present : ~directory[f].hidden /\ directory[f].kind = "file"
                           /\ directory[f].size > 0
                           => \E i \in DOMAIN shards_' : shards_'[i] = WholeFile(f)
    <3> SUFFICES ASSUME NEW f \in Present, Wanted(f)
                 PROVE  \E i \in DOMAIN set : set[i] = WholeFile(f)
      BY <2>2 DEF Wanted, Taken
    <3> QED BY <2>2 DEF DiscoverInv, Present
  <2>4. ASSUME NEW i \in DOMAIN set
        PROVE  /\ ~directory[set[i].path.file].hidden
               /\ directory[set[i].path.file].kind \in {"file", "gone"}
               /\ i > 1 => set[i - 1].path.file < set[i].path.file
    <3>1. PICK h \in Files : /\ set[i] = WholeFile(h) /\ Candidate(h)
                             /\ i > 1 => set[i - 1].path.file < h
      BY DEF DiscoverInv
    <3>2. set[i].path.file = h
      BY <3>1 DEF WholeFile
    <3> QED BY <3>1, <3>2 DEF Candidate
  <2> QED BY <2>2, <2>3, <2>4
<1>2. TypeOK /\ DiscoverInv /\ [Next]_vars => [Exact]_vars
  BY <1>1
<1>3. Spec => []DiscoverInv
  BY DiscoverInit, DiscoverNext, TypeCorrect, PTL DEF Spec
<1>4. Spec => [][Exact]_vars
  BY <1>2, <1>3, TypeCorrect, PTL DEF Spec
<1> QED
  BY <1>4 DEF DiscoverExact
=============================================================================
