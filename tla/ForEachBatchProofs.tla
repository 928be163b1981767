------------------------- MODULE ForEachBatchProofs -------------------------
(***************************************************************************)
(* Proofs that the batch pipeline of for_each_batch is correct for every   *)
(* prefetch, every stream length and every interleaving of its two         *)
(* threads.  The inductive invariant IInv adds to the checked properties   *)
(* where each buffer is (Conserved), which batch it holds (Numbered), what *)
(* the control states imply (Control) and why the stream ended (Ending).   *)
(***************************************************************************)
EXTENDS ForEachBatch, SequenceTheorems, TLAPS

Bit(b) == IF b THEN 1 ELSE 0

\* Batches that have left `ready' for the callback.
Taken == IF cpc = "callback" THEN Len(seen) + 1 ELSE Len(seen)

Control ==
  /\ ppc = "unborn" => cpc \in {"start", "returned"}
  /\ cpc = "start" => ppc = "unborn" /\ free = <<>> /\ ready = <<>> /\ seen = <<>>
  /\ ppc = "unborn" /\ cpc = "returned" => ~ValidOptions
  /\ cpc \notin {"start", "returned"} => ValidOptions
  /\ cpc = "start" => readyOpen
  /\ cpc \in {"start", "recv", "callback", "recycle"} => freeOpen
  /\ cpc \in {"start", "recv", "callback"} => keep_going
  /\ cpc \in {"start", "recv", "callback", "recycle", "take"} => result = "none"
  /\ cpc \in {"close_free", "close_ready"} => result \in {"none", "throw"}
  /\ cpc \in {"join", "returned"} => result # "none"

\* Every buffer is counted once.
Conserved ==
  Len(free) + Len(ready) + Bit(ProducerHolds) + Bit(ConsumerHolds)
    <= options.prefetch + 1

\* The queued buffers hold consecutive batches, the next ones to be seen.
Numbered ==
  /\ InOrder
  /\ cpc = "callback" => content[cbuf] = Len(seen) + 1
  /\ \A i \in DOMAIN ready : content[ready[i]] = Taken + i
  /\ ppc = "send" => content[pbuf] = produced
  /\ ppc # "done" => produced = Taken + Len(ready) + Bit(ppc = "send")

\* While the callback has not asked to stop, `ready' is closed only by a
\* producer that has reached the end or left its error.
StreamOver == error \/ produced = total

Ending ==
  /\ ppc = "close" /\ keep_going /\ result = "none" => StreamOver
  /\ cpc \in {"recv", "callback", "recycle"} /\ keep_going /\ ~readyOpen =>
       ppc = "done" /\ produced = Taken + Len(ready) /\ StreamOver
  /\ cpc \in {"close_free", "close_ready", "take"} /\ keep_going /\ result = "none" =>
       ppc = "done" /\ produced = Len(seen) /\ StreamOver
  /\ cpc \in {"join", "returned"} /\ keep_going /\ result \in {"ok", "err"} /\ ValidOptions =>
       /\ ppc = "done" /\ produced = Len(seen)
       /\ error => result = "err"
       /\ result = "ok" => produced = total

IInv ==
  /\ TypeOK /\ Control /\ NoSharing /\ Conserved /\ Numbered
  /\ ReadAheadBounded /\ Ending

-----------------------------------------------------------------------------
(* The loop that fills `free' leaves every buffer in it, once.             *)
LEMMA FilledFacts ==
  ASSUME NEW n \in Nat
  PROVE  LET filled == [i \in 1 .. n + 1 |-> i - 1]
         IN  filled \in Seq(0 .. n) /\ Len(filled) = n + 1 /\ DOMAIN filled = 1 .. n + 1
<1> DEFINE filled == [i \in 1 .. n + 1 |-> i - 1]
<1>1. filled \in [1 .. n + 1 -> 0 .. n]
  OBVIOUS
<1>2. n + 1 \in Nat
  OBVIOUS
<1>3. filled \in Seq(0 .. n)
  BY <1>1, <1>2, SeqDef
<1>4. DOMAIN filled = 1 .. n + 1
  OBVIOUS
<1>5. Len(filled) = n + 1
  BY <1>2, <1>3, <1>4, LenProperties
<1> QED
  BY <1>3, <1>4, <1>5

-----------------------------------------------------------------------------
(* Type correctness.                                                        *)

(* The options are BatchOptions of natural numbers, so there are buffers.  *)
LEMMA OptionsFacts ==
  ASSUME options \in Options
  PROVE  /\ options.prefetch \in Nat
         /\ 0 \in Buffers
BY OptionsAssumption DEF Buffers

(* The initial state is well typed.                                        *)
LEMMA InitTypeOK == Init => TypeOK
<1> SUFFICES ASSUME Init PROVE TypeOK
  OBVIOUS
<1>1. options.prefetch \in Nat /\ 0 \in Buffers
  BY OptionsFacts DEF Init
<1>2. total \in Nat
  BY TotalsAssumption DEF Init
<1> QED
  BY <1>1, <1>2 DEF Init, TypeOK, Dirty, ProducerStates, ConsumerStates

(* Every step of the two threads keeps the variables' types.               *)
LEMMA NextTypeOK == TypeOK /\ [Next]_vars => TypeOK'
<1> SUFFICES ASSUME TypeOK, [Next]_vars PROVE TypeOK'
  OBVIOUS
<1>0. /\ options.prefetch \in Nat /\ total \in Nat
      /\ options' = options /\ total' = total /\ Buffers' = Buffers
      /\ free \in Seq(Buffers) /\ ready \in Seq(Buffers) /\ seen \in Seq(0 .. total)
      /\ content \in [Buffers -> 0 .. total]
      /\ pbuf \in Buffers /\ cbuf \in Buffers
  <2>1. options' = options /\ total' = total
    BY DEF Next, vars, Producer, Consumer, Finished, RejectOptions, Start, PRecv,
       PRecvClosed, PReadOk, PReadEnd, PReadFails, PReadThrows, PSetError, PClose,
       PSend, PSendClosed, CRecv, CRecvClosed, CCallback, CCallbackThrows,
       CRecycle, CCloseFree, CCloseReady, CTake, CJoin
  <2> QED
    BY <2>1, OptionsFacts, TotalsAssumption DEF TypeOK, Buffers
<1>1. CASE RejectOptions
  BY <1>0, <1>1 DEF RejectOptions, TypeOK, producerVars, ConsumerStates
<1>2. CASE Start
  <2>1. free' \in Seq(Buffers)
    BY <1>0, <1>2, FilledFacts DEF Start, Buffers
  <2> QED
    BY <1>0, <1>2, <2>1 DEF Start, TypeOK, ProducerStates, ConsumerStates
<1>3. CASE PRecv
  <2>1. Head(free) \in Buffers /\ Tail(free) \in Seq(Buffers)
    BY <1>0, <1>3, HeadTailProperties, EmptySeq, LenProperties DEF PRecv
  <2>2. content' \in [Buffers -> 0 .. total]
    BY <1>0, <1>3, <2>1 DEF PRecv, Dirty
  <2> QED
    BY <1>0, <1>3, <2>1, <2>2 DEF PRecv, TypeOK, consumerVars, ProducerStates
<1>4. CASE PReadOk
  <2>1. produced' \in 0 .. total /\ produced + 1 \in 0 .. total
    BY <1>0, <1>4 DEF PReadOk, MoreInStream, TypeOK
  <2>2. content' \in [Buffers -> 0 .. total]
    BY <1>0, <1>4, <2>1 DEF PReadOk
  <2> QED
    BY <1>0, <1>4, <2>1, <2>2 DEF PReadOk, TypeOK, consumerVars, ProducerStates
<1>5. CASE PRecvClosed \/ PReadEnd \/ PReadFails \/ PReadThrows \/ PSetError
             \/ PClose \/ PSendClosed
  BY <1>0, <1>5 DEF TypeOK, consumerVars, ProducerStates, PRecvClosed, PReadEnd,
     PReadFails, PReadThrows, PSetError, PClose, PSendClosed
<1>6. CASE PSend
  <2>1. ready' \in Seq(Buffers)
    BY <1>0, <1>6, AppendProperties, LenProperties DEF PSend
  <2> QED
    BY <1>0, <1>6, <2>1 DEF PSend, TypeOK, consumerVars, ProducerStates
<1>7. CASE CRecv
  <2>1. Head(ready) \in Buffers /\ Tail(ready) \in Seq(Buffers)
    BY <1>0, <1>7, HeadTailProperties, EmptySeq, LenProperties DEF CRecv
  <2> QED
    BY <1>0, <1>7, <2>1 DEF CRecv, TypeOK, producerVars, ConsumerStates
<1>8. CASE (\E more \in BOOLEAN : CCallback(more)) \/ CCallbackThrows
  <2>1. content[cbuf] \in 0 .. total
    BY <1>0
  <2>2. seen' = Append(seen, content[cbuf])
    BY <1>8 DEF CCallback, CCallbackThrows
  <2>3. seen' \in Seq(0 .. total)
    BY <1>0, <2>1, <2>2, AppendProperties, LenProperties
  <2> QED
    BY <1>0, <1>8, <2>3 DEF CCallback, CCallbackThrows, TypeOK, producerVars,
       ConsumerStates
<1>9. CASE CRecycle
  <2>1. free' \in Seq(Buffers)
    BY <1>0, <1>9, AppendProperties, LenProperties DEF CRecycle
  <2> QED
    BY <1>0, <1>9, <2>1 DEF CRecycle, TypeOK, producerVars, ConsumerStates
<1>10. CASE CRecvClosed \/ CCloseFree \/ CCloseReady \/ CTake \/ CJoin
  BY <1>0, <1>10 DEF TypeOK, producerVars, ConsumerStates, CRecvClosed,
     CCloseFree, CCloseReady, CTake, CJoin
<1>11. CASE UNCHANGED vars
  BY <1>0, <1>11 DEF vars, TypeOK
<1> QED
  BY <1>1, <1>2, <1>3, <1>4, <1>5, <1>6, <1>7, <1>8, <1>9, <1>10, <1>11
  DEF Next, Producer, Consumer, Finished

(* Every reachable state of for_each_batch is well typed: no buffer holds  *)
(* a batch the stream does not have, whatever the options and the stream.  *)
THEOREM TypeCorrect == Spec => []TypeOK
BY InitTypeOK, NextTypeOK, PTL DEF Spec

-----------------------------------------------------------------------------
(* The parts of the inductive invariant.                                    *)

(* Facts every part uses: the parameters never change and have their types.*)
LEMMA StepFacts ==
  ASSUME TypeOK, [Next]_vars
  PROVE  /\ options' = options /\ total' = total /\ Buffers' = Buffers
         /\ options.prefetch \in Nat /\ total \in Nat
         /\ free \in Seq(Buffers) /\ ready \in Seq(Buffers) /\ seen \in Seq(0 .. total)
         /\ Len(free) \in Nat /\ Len(ready) \in Nat /\ Len(seen) \in Nat
         /\ DOMAIN free = 1 .. Len(free) /\ DOMAIN ready = 1 .. Len(ready)
         /\ DOMAIN seen = 1 .. Len(seen)
         /\ content \in [Buffers -> 0 .. total] /\ produced \in Nat
         /\ pbuf \in Buffers /\ cbuf \in Buffers
<1>1. options' = options /\ total' = total
  BY DEF Next, vars, Producer, Consumer, Finished, RejectOptions, Start, PRecv,
     PRecvClosed, PReadOk, PReadEnd, PReadFails, PReadThrows, PSetError, PClose,
     PSend, PSendClosed, CRecv, CRecvClosed, CCallback, CCallbackThrows,
     CRecycle, CCloseFree, CCloseReady, CTake, CJoin
<1>2. options.prefetch \in Nat /\ total \in Nat
  BY OptionsFacts, TotalsAssumption DEF TypeOK
<1> QED
  BY <1>1, <1>2, LenProperties DEF TypeOK, Buffers

(* Who may be where: one step of either thread keeps Control.              *)
LEMMA NextControl == TypeOK /\ Control /\ [Next]_vars => Control'
<1> SUFFICES ASSUME TypeOK, Control, [Next]_vars PROVE Control'
  OBVIOUS
<1>0. options' = options /\ ValidOptions' = ValidOptions
  BY StepFacts DEF ValidOptions
<1>1. CASE Producer
  BY <1>0, <1>1 DEF Control, consumerVars, Producer, PRecv, PRecvClosed, PReadOk,
     PReadEnd, PReadFails, PReadThrows, PSetError, PClose, PSend, PSendClosed
<1>2. CASE RejectOptions \/ Start
  BY <1>0, <1>2 DEF Control, producerVars, RejectOptions, Start
<1>3. CASE CRecv \/ CRecvClosed \/ CCallbackThrows \/ (\E more \in BOOLEAN : CCallback(more))
  BY <1>0, <1>3 DEF Control, producerVars, CRecv, CRecvClosed, CCallback, CCallbackThrows
<1>4. CASE CRecycle \/ CCloseFree \/ CCloseReady \/ CTake \/ CJoin
  BY <1>0, <1>4 DEF Control, TypeOK, producerVars, CRecycle, CCloseFree, CCloseReady, CTake,
     CJoin
<1>5. CASE UNCHANGED vars
  BY <1>0, <1>5 DEF Control, vars
<1> QED
  BY <1>1, <1>2, <1>3, <1>4, <1>5 DEF Next, Consumer, Finished

(* A buffer only ever moves: one step keeps every buffer in one place.     *)
LEMMA NextNoSharing == TypeOK /\ Control /\ NoSharing /\ [Next]_vars => NoSharing'
<1> SUFFICES ASSUME TypeOK, Control, NoSharing, [Next]_vars PROVE NoSharing'
  OBVIOUS
<1> USE DEF ProducerHolds, ConsumerHolds
<1>0. /\ options.prefetch \in Nat
      /\ free \in Seq(Buffers) /\ ready \in Seq(Buffers)
      /\ pbuf \in Buffers /\ cbuf \in Buffers
      /\ Len(free) \in Nat /\ Len(ready) \in Nat
      /\ DOMAIN free = 1 .. Len(free) /\ DOMAIN ready = 1 .. Len(ready)
  BY StepFacts
<1>1. CASE Start
  <2>1. /\ DOMAIN free' = 1 .. options.prefetch + 1
        /\ \A i \in DOMAIN free' : free'[i] = i - 1
    BY <1>0, <1>1, FilledFacts DEF Start
  <2> QED
    BY <1>1, <2>1 DEF Start, NoSharing, Control
<1>2. CASE PRecv
  <2>1. /\ free # <<>> /\ free' = Tail(free) /\ pbuf' = Head(free) /\ ppc' = "read"
        /\ ready' = ready /\ cpc' = cpc /\ cbuf' = cbuf
    BY <1>2 DEF PRecv, consumerVars
  <2>2. /\ pbuf' = free[1] /\ DOMAIN free' = 1 .. Len(free) - 1 /\ Len(free) > 0
        /\ \A i \in 1 .. Len(free) - 1 : free'[i] = free[i + 1]
    BY <1>0, <2>1, HeadTailProperties, EmptySeq, LenProperties
  <2> QED
    <3>1. /\ 1 \in DOMAIN free
          /\ \A i \in DOMAIN free' : i + 1 \in DOMAIN free /\ i + 1 # 1 /\ free'[i] = free[i + 1]
      BY <1>0, <2>2
    <3>2. \A i, j \in DOMAIN free' : free'[i] = free'[j] => i = j
      <4>1. \A i, j \in DOMAIN free' : free'[i] = free'[j] => i + 1 = j + 1
        BY <3>1 DEF NoSharing
      <4>2. \A i \in DOMAIN free' : i \in Int
        BY <1>0, <2>2
      <4> QED
        BY <4>1, <4>2
    <3>3. \A i \in DOMAIN free' : free'[i] # pbuf' /\ (ConsumerHolds => free'[i] # cbuf)
      BY <2>2, <3>1 DEF NoSharing
    <3>4. \A i \in DOMAIN free', j \in DOMAIN ready : free'[i] # ready[j]
      BY <3>1 DEF NoSharing
    <3>5. /\ \A j \in DOMAIN ready : ready[j] # pbuf'
          /\ ConsumerHolds => pbuf' # cbuf
      BY <2>2, <3>1 DEF NoSharing
    <3> QED
      BY <2>1, <3>2, <3>3, <3>4, <3>5 DEF NoSharing
<1>3. CASE PSend
  <2>1. /\ ready' = Append(ready, pbuf) /\ ppc' = "recv" /\ ppc = "send"
        /\ free' = free /\ cpc' = cpc /\ cbuf' = cbuf
    BY <1>3 DEF PSend, consumerVars
  <2>2. /\ DOMAIN ready' = 1 .. Len(ready) + 1 /\ ready'[Len(ready) + 1] = pbuf
        /\ \A i \in 1 .. Len(ready) : ready'[i] = ready[i]
    BY <1>0, <2>1, AppendProperties, LenProperties
  <2> QED
    BY <1>0, <2>1, <2>2 DEF NoSharing
<1>4. CASE CRecv
  <2>1. /\ ready # <<>> /\ ready' = Tail(ready) /\ cbuf' = Head(ready) /\ cpc' = "callback"
        /\ free' = free /\ ppc' = ppc /\ pbuf' = pbuf
    BY <1>4 DEF CRecv, producerVars
  <2>2. /\ cbuf' = ready[1] /\ DOMAIN ready' = 1 .. Len(ready) - 1 /\ Len(ready) > 0
        /\ \A i \in 1 .. Len(ready) - 1 : ready'[i] = ready[i + 1]
    BY <1>0, <2>1, HeadTailProperties, EmptySeq, LenProperties
  <2> QED
    <3>1. /\ 1 \in DOMAIN ready
          /\ \A i \in DOMAIN ready' :
               i + 1 \in DOMAIN ready /\ i + 1 # 1 /\ ready'[i] = ready[i + 1]
      BY <1>0, <2>2
    <3>2. \A i, j \in DOMAIN ready' : ready'[i] = ready'[j] => i = j
      <4>1. \A i, j \in DOMAIN ready' : ready'[i] = ready'[j] => i + 1 = j + 1
        BY <3>1 DEF NoSharing
      <4>2. \A i \in DOMAIN ready' : i \in Int
        BY <1>0, <2>2
      <4> QED
        BY <4>1, <4>2
    <3>3. \A i \in DOMAIN ready' : ready'[i] # cbuf' /\ (ProducerHolds => ready'[i] # pbuf)
      BY <2>2, <3>1 DEF NoSharing
    <3>4. \A i \in DOMAIN free, j \in DOMAIN ready' : free[i] # ready'[j]
      BY <3>1 DEF NoSharing
    <3>5. /\ \A i \in DOMAIN free : free[i] # cbuf'
          /\ ProducerHolds => pbuf # cbuf'
      BY <2>2, <3>1 DEF NoSharing
    <3> QED
      BY <2>1, <3>2, <3>3, <3>4, <3>5 DEF NoSharing
<1>5. CASE CRecycle
  <2>1. /\ free' = Append(free, cbuf) /\ cpc' \in {"recv", "close_free"} /\ cpc = "recycle"
        /\ ready' = ready /\ ppc' = ppc /\ pbuf' = pbuf
    BY <1>5 DEF CRecycle, producerVars
  <2>2. /\ DOMAIN free' = 1 .. Len(free) + 1 /\ free'[Len(free) + 1] = cbuf
        /\ \A i \in 1 .. Len(free) : free'[i] = free[i]
    BY <1>0, <2>1, AppendProperties, LenProperties
  <2> QED
    BY <1>0, <2>1, <2>2 DEF NoSharing
<1>6. CASE PRecvClosed \/ PReadOk \/ PReadEnd \/ PReadFails \/ PReadThrows
             \/ PSetError \/ PClose \/ PSendClosed
  BY <1>6 DEF NoSharing, consumerVars, PRecvClosed, PReadOk, PReadEnd, PReadFails,
     PReadThrows, PSetError, PClose, PSendClosed
<1>7. CASE RejectOptions \/ CRecvClosed \/ CCallbackThrows \/ (\E more \in BOOLEAN : CCallback(more))
             \/ CCloseFree \/ CCloseReady \/ CTake \/ CJoin
  BY <1>7 DEF NoSharing, producerVars, RejectOptions, CRecvClosed, CCallback,
     CCallbackThrows, CCloseFree, CCloseReady, CTake, CJoin
<1>8. CASE UNCHANGED vars
  BY <1>8 DEF NoSharing, vars
<1> QED
  BY <1>1, <1>2, <1>3, <1>4, <1>5, <1>6, <1>7, <1>8
  DEF Next, Producer, Consumer, Finished

(* No step makes a buffer more than there are.                             *)
LEMMA NextConserved == TypeOK /\ Control /\ Conserved /\ [Next]_vars => Conserved'
<1> SUFFICES ASSUME TypeOK, Control, Conserved, [Next]_vars PROVE Conserved'
  OBVIOUS
<1> USE StepFacts DEF ProducerHolds, ConsumerHolds, Bit
<1>1. CASE Start
  <2>1. Len(free') = options.prefetch + 1
    BY <1>1, FilledFacts DEF Start
  <2> QED
    BY <1>1, <2>1 DEF Start, Conserved, Control
<1>2. CASE PRecv
  <2>1. Len(free') = Len(free) - 1
    BY <1>2, HeadTailProperties, EmptySeq, LenProperties DEF PRecv
  <2> QED
    BY <1>2, <2>1 DEF PRecv, consumerVars, Conserved
<1>3. CASE PSend
  <2>1. Len(ready') = Len(ready) + 1
    BY <1>3, AppendProperties, LenProperties DEF PSend
  <2> QED
    BY <1>3, <2>1 DEF PSend, consumerVars, Conserved
<1>4. CASE CRecv
  <2>1. Len(ready') = Len(ready) - 1
    BY <1>4, HeadTailProperties, EmptySeq, LenProperties DEF CRecv
  <2> QED
    BY <1>4, <2>1 DEF CRecv, producerVars, Conserved
<1>5. CASE CRecycle
  <2>1. Len(free') = Len(free) + 1
    BY <1>5, AppendProperties, LenProperties DEF CRecycle
  <2> QED
    BY <1>5, <2>1 DEF CRecycle, producerVars, Conserved
<1>6. CASE PRecvClosed \/ PReadOk \/ PReadEnd \/ PReadFails \/ PReadThrows
             \/ PSetError \/ PClose \/ PSendClosed
  <2>1. CASE PRecvClosed
    BY <2>1 DEF Conserved, consumerVars, PRecvClosed
  <2>2. CASE PReadOk
    BY <2>2 DEF Conserved, consumerVars, PReadOk
  <2>3. CASE PReadEnd \/ PReadFails
    <3>1. CASE PReadEnd
      BY <3>1 DEF Conserved, consumerVars, PReadEnd
    <3>2. CASE PReadFails
      BY <3>2 DEF Conserved, consumerVars, PReadFails
    <3> QED
      BY <2>3, <3>1, <3>2
  <2>4. CASE PReadThrows \/ PSetError
    <3>1. CASE PReadThrows
      BY <3>1 DEF Conserved, consumerVars, PReadThrows
    <3>2. CASE PSetError
      BY <3>2 DEF Conserved, consumerVars, PSetError
    <3> QED
      BY <2>4, <3>1, <3>2
  <2>5. CASE PClose \/ PSendClosed
    <3>1. CASE PClose
      BY <3>1 DEF Conserved, consumerVars, PClose
    <3>2. CASE PSendClosed
      BY <3>2 DEF Conserved, consumerVars, PSendClosed
    <3> QED
      BY <2>5, <3>1, <3>2
  <2> QED
    BY <1>6, <2>1, <2>2, <2>3, <2>4, <2>5
<1>7. CASE RejectOptions \/ CRecvClosed \/ CCallbackThrows \/ (\E more \in BOOLEAN : CCallback(more))
             \/ CCloseFree \/ CCloseReady \/ CTake \/ CJoin
  <2>1. CASE RejectOptions \/ CRecvClosed
    <3>1. CASE RejectOptions
      BY <3>1 DEF Conserved, producerVars, RejectOptions
    <3>2. CASE CRecvClosed
      BY <3>2 DEF Conserved, producerVars, CRecvClosed
    <3> QED
      BY <2>1, <3>1, <3>2
  <2>2. CASE CCallbackThrows \/ (\E more \in BOOLEAN : CCallback(more))
    <3>1. CASE CCallbackThrows
      BY <3>1 DEF Conserved, producerVars, CCallbackThrows
    <3>2. CASE \E more \in BOOLEAN : CCallback(more)
      BY <3>2 DEF Conserved, producerVars, CCallback
    <3> QED
      BY <2>2, <3>1, <3>2
  <2>3. CASE CCloseFree \/ CCloseReady
    BY <2>3 DEF Conserved, producerVars, CCloseFree, CCloseReady
  <2>4. CASE CTake \/ CJoin
    BY <2>4 DEF Conserved, producerVars, CTake, CJoin
  <2> QED
    BY <1>7, <2>1, <2>2, <2>3, <2>4
<1>8. CASE UNCHANGED vars
  BY <1>8 DEF Conserved, vars
<1> QED
  BY <1>1, <1>2, <1>3, <1>4, <1>5, <1>6, <1>7, <1>8
  DEF Next, Producer, Consumer, Finished

(* The batches stay numbered: what the callback saw, what it is reading,   *)
(* what is queued and what the producer holds are consecutive.             *)
LEMMA NextNumbered ==
  TypeOK /\ Control /\ NoSharing /\ Numbered /\ [Next]_vars => Numbered'
<1> SUFFICES ASSUME TypeOK, Control, NoSharing, Numbered, [Next]_vars PROVE Numbered'
  OBVIOUS
<1>0. /\ free \in Seq(Buffers) /\ ready \in Seq(Buffers) /\ seen \in Seq(0 .. total)
      /\ content \in [Buffers -> 0 .. total] /\ produced \in Nat
      /\ pbuf \in Buffers /\ cbuf \in Buffers
      /\ Len(ready) \in Nat /\ Len(seen) \in Nat
      /\ DOMAIN ready = 1 .. Len(ready) /\ DOMAIN seen = 1 .. Len(seen)
      /\ \A i \in DOMAIN ready : ready[i] \in Buffers
  BY StepFacts, ElementOfSeq
<1>n. Len(ready) \in Nat /\ Len(seen) \in Nat /\ produced \in Nat
  BY <1>0
<1>t. Taken \in Nat /\ (cpc = "callback" => Taken = Len(seen) + 1)
                   /\ (cpc # "callback" => Taken = Len(seen))
  BY <1>n DEF Taken
<1>p. /\ ppc = "send" => produced = Taken + Len(ready) + 1
      /\ ppc \notin {"send", "done"} => produced = Taken + Len(ready)
  BY <1>n, <1>t DEF Numbered, Bit
<1>r. /\ DOMAIN ready = 1 .. Len(ready)
      /\ \A i \in 1 .. Len(ready) : content[ready[i]] = Taken + i
  BY <1>0 DEF Numbered
<1>1. CASE PRecv
  <2>1. /\ ready' = ready /\ seen' = seen /\ cpc' = cpc /\ cbuf' = cbuf
        /\ produced' = produced /\ ppc = "recv" /\ ppc' = "read"
        /\ content' = [content EXCEPT ![Head(free)] = Dirty] /\ free # <<>>
    BY <1>1 DEF PRecv, consumerVars
  <2>2. Head(free) = free[1] /\ 1 \in DOMAIN free /\ Head(free) \in Buffers
    BY <1>0, <2>1, HeadTailProperties, EmptySeq, LenProperties
  <2>3. \A i \in DOMAIN ready : content'[ready[i]] = content[ready[i]]
    BY <1>0, <2>1, <2>2 DEF NoSharing
  <2>4. cpc = "callback" => content'[cbuf] = content[cbuf]
    BY <1>0, <2>1, <2>2 DEF NoSharing, ConsumerHolds
  <2>5. Taken' = Taken
    BY <2>1 DEF Taken
  <2> QED
    BY <1>0, <1>t, <1>p, <2>1, <2>3, <2>4, <2>5 DEF Numbered, InOrder, Bit
<1>2. CASE PReadOk
  <2>1. /\ ready' = ready /\ seen' = seen /\ cpc' = cpc /\ cbuf' = cbuf /\ pbuf' = pbuf
        /\ produced' = produced + 1 /\ ppc = "read" /\ ppc' = "send"
        /\ content' = [content EXCEPT ![pbuf] = produced + 1]
    BY <1>2 DEF PReadOk, consumerVars
  <2>2. \A i \in DOMAIN ready : content'[ready[i]] = content[ready[i]]
    BY <1>0, <2>1 DEF NoSharing, ProducerHolds
  <2>3. cpc = "callback" => content'[cbuf] = content[cbuf]
    BY <1>0, <2>1 DEF NoSharing, ProducerHolds, ConsumerHolds
  <2>4. content'[pbuf'] = produced'
    BY <1>0, <2>1
  <2>5. Taken' = Taken
    BY <2>1 DEF Taken
  <2> QED
    BY <1>0, <1>t, <1>p, <2>1, <2>2, <2>3, <2>4, <2>5 DEF Numbered, InOrder, Bit
<1>3. CASE PSend
  <2>0. ready' = Append(ready, pbuf)
    BY <1>3 DEF PSend
  <2>1. /\ ppc' = "recv" /\ ppc = "send"
        /\ content' = content /\ seen' = seen /\ cpc' = cpc /\ cbuf' = cbuf
        /\ produced' = produced
    BY <1>3 DEF PSend, consumerVars
  <2>2. /\ DOMAIN ready' = 1 .. Len(ready) + 1 /\ ready'[Len(ready) + 1] = pbuf
        /\ Len(ready') = Len(ready) + 1
        /\ \A i \in 1 .. Len(ready) : ready'[i] = ready[i]
    BY <1>0, <2>0, AppendProperties, LenProperties
  <2>3. Taken' = Taken
    BY <2>1 DEF Taken
  <2>4. content[pbuf] = Taken + Len(ready) + 1
    BY <1>p, <2>1 DEF Numbered
  <2>5. \A i \in 1 .. Len(ready) + 1 : content[ready'[i]] = Taken + i
    <3> SUFFICES ASSUME NEW i \in 1 .. Len(ready) + 1
                 PROVE  content[ready'[i]] = Taken + i
      OBVIOUS
    <3>1. CASE i \in 1 .. Len(ready)
      BY <1>r, <2>2, <3>1
    <3>2. CASE i = Len(ready) + 1
      BY <1>n, <1>t, <2>2, <2>4, <3>2
    <3> QED
      BY <1>0, <3>1, <3>2
  <2>6. produced' = Taken' + Len(ready') + Bit(ppc' = "send")
    BY <1>n, <1>t, <1>p, <2>1, <2>2, <2>3 DEF Bit
  <2> QED
    BY <2>1, <2>2, <2>3, <2>5, <2>6 DEF Numbered, InOrder
<1>4. CASE CRecv
  <2>0. ready # <<>> /\ ready' = Tail(ready) /\ cbuf' = Head(ready)
    BY <1>4 DEF CRecv
  <2>1. /\ cpc = "recv" /\ cpc' = "callback"
        /\ content' = content /\ seen' = seen /\ ppc' = ppc /\ pbuf' = pbuf
        /\ produced' = produced
    BY <1>4 DEF CRecv, producerVars
  <2>2. /\ cbuf' = ready[1] /\ DOMAIN ready' = 1 .. Len(ready) - 1 /\ Len(ready) > 0
        /\ Len(ready') = Len(ready) - 1
        /\ \A i \in 1 .. Len(ready) - 1 : ready'[i] = ready[i + 1]
    BY <1>0, <2>0, HeadTailProperties, EmptySeq, LenProperties
  <2>3. Taken = Len(seen) /\ Taken' = Taken + 1
    BY <1>n, <1>t, <2>1 DEF Taken
  <2>4. content[ready[1]] = Taken + 1
    BY <1>n, <1>r, <2>2
  <2>5. \A i \in 1 .. Len(ready) - 1 : content[ready'[i]] = Taken + 1 + i
    BY <1>n, <1>t, <1>r, <2>2
  <2>6. ppc # "done" => produced = Taken' + Len(ready') + Bit(ppc = "send")
    <3>1. CASE ppc = "send"
      BY <1>n, <1>t, <1>p, <2>2, <2>3, <3>1 DEF Bit
    <3>2. CASE ppc # "send"
      <4>1. Bit(ppc = "send") = 0
        BY <3>2 DEF Bit
      <4>2. ppc # "done" => produced = Taken + Len(ready)
        BY <1>p, <3>2
      <4>3. Taken + Len(ready) = Taken' + Len(ready') + 0
        BY <1>n, <1>t, <2>2, <2>3
      <4> QED
        BY <4>1, <4>2, <4>3
    <3> QED
      BY <3>1, <3>2
  <2> QED
    BY <2>1, <2>2, <2>3, <2>4, <2>5, <2>6 DEF Numbered, InOrder
<1>5. CASE (\E more \in BOOLEAN : CCallback(more)) \/ CCallbackThrows
  <2>1. /\ seen' = Append(seen, content[cbuf]) /\ cpc = "callback"
        /\ cpc' \in {"recycle", "close_free"} /\ cbuf' = cbuf
        /\ ready' = ready /\ content' = content /\ ppc' = ppc /\ pbuf' = pbuf
        /\ produced' = produced
    BY <1>5 DEF CCallback, CCallbackThrows, producerVars
  <2>2. content[cbuf] = Len(seen) + 1 /\ content[cbuf] \in 0 .. total
    BY <1>0, <2>1 DEF Numbered
  <2>3. /\ DOMAIN seen' = 1 .. Len(seen) + 1 /\ Len(seen') = Len(seen) + 1
        /\ seen'[Len(seen) + 1] = Len(seen) + 1
        /\ \A i \in 1 .. Len(seen) : seen'[i] = seen[i]
    BY <1>0, <2>1, <2>2, AppendProperties, LenProperties
  <2>4. Taken' = Taken
    BY <1>0, <1>t, <2>1, <2>3 DEF Taken, Bit
  <2>5. InOrder'
    BY <1>0, <2>3 DEF Numbered, InOrder
  <2> QED
    BY <1>0, <1>t, <2>1, <2>4, <2>5 DEF Numbered
<1>6. CASE PRecvClosed \/ PReadEnd \/ PReadFails \/ PReadThrows \/ PSetError
             \/ PClose \/ PSendClosed
  BY <1>0, <1>6 DEF Bit, Taken, Numbered, InOrder, consumerVars, PRecvClosed, PReadEnd, PReadFails,
     PReadThrows, PSetError, PClose, PSendClosed
<1>7. CASE RejectOptions \/ Start \/ CRecvClosed \/ CRecycle
             \/ CCloseFree \/ CCloseReady \/ CTake \/ CJoin
  BY <1>0, <1>7 DEF Bit, Taken, Numbered, InOrder, Control, producerVars, RejectOptions, Start,
     CRecvClosed, CRecycle, CCloseFree, CCloseReady, CTake, CJoin
<1>8. CASE UNCHANGED vars
  BY <1>8 DEF Taken, Numbered, InOrder, vars
<1> QED
  BY <1>1, <1>2, <1>3, <1>4, <1>5, <1>6, <1>7, <1>8
  DEF Next, Producer, Consumer, Finished

(* The producer cannot run further ahead: a batch it reads needs a buffer. *)
LEMMA NextReadAhead ==
  TypeOK /\ Control /\ Conserved /\ Numbered /\ ReadAheadBounded /\ [Next]_vars
    => ReadAheadBounded'
<1> SUFFICES ASSUME TypeOK, Control, Conserved, Numbered, ReadAheadBounded, [Next]_vars
             PROVE  ReadAheadBounded'
  OBVIOUS
<1>0. /\ options' = options /\ options.prefetch \in Nat /\ produced \in Nat
      /\ seen \in Seq(0 .. total) /\ Len(seen) \in Nat
      /\ content \in [Buffers -> 0 .. total] /\ cbuf \in Buffers
      /\ Len(free) \in Nat /\ Len(ready) \in Nat
  BY StepFacts
<1>1. CASE PReadOk
  <2>1. /\ produced' = produced + 1 /\ seen' = seen /\ ppc = "read"
    BY <1>1 DEF PReadOk, consumerVars
  <2>2. produced = Taken + Len(ready)
    BY <1>0, <2>1 DEF Numbered, Bit, Taken
  <2>3. Taken + Len(ready) + 1 <= Len(seen) + options.prefetch + 1
    BY <1>0, <2>1 DEF Conserved, Taken, Bit, ProducerHolds, ConsumerHolds
  <2> QED
    BY <1>0, <2>1, <2>2, <2>3 DEF ReadAheadBounded, Taken, Bit
<1>2. CASE (\E more \in BOOLEAN : CCallback(more)) \/ CCallbackThrows
  <2>1. seen' = Append(seen, content[cbuf]) /\ produced' = produced
    BY <1>2 DEF CCallback, CCallbackThrows, producerVars
  <2>2. Len(seen') = Len(seen) + 1
    BY <1>0, <2>1, AppendProperties, LenProperties
  <2> QED
    BY <1>0, <2>1, <2>2 DEF ReadAheadBounded
<1>3. CASE produced' = produced /\ seen' = seen
  BY <1>0, <1>3 DEF ReadAheadBounded
<1> QED
  BY <1>1, <1>2, <1>3 DEF Next, Producer, Consumer, Finished, vars, producerVars,
     consumerVars, RejectOptions, Start, PRecv, PRecvClosed, PReadEnd, PReadFails,
     PReadThrows, PSetError, PClose, PSend, PSendClosed, CRecv, CRecvClosed,
     CRecycle, CCloseFree, CCloseReady, CTake, CJoin

(* Why the stream ended stays known until for_each_batch returns.          *)
LEMMA NextEnding ==
  TypeOK /\ Control /\ Numbered /\ Ending /\ [Next]_vars => Ending'
<1> SUFFICES ASSUME TypeOK, Control, Numbered, Ending, [Next]_vars PROVE Ending'
  OBVIOUS
<1>0. /\ options' = options /\ total' = total /\ ValidOptions' = ValidOptions
      /\ Len(ready) \in Nat /\ Len(seen) \in Nat /\ produced \in Nat /\ total \in Nat
  BY StepFacts DEF ValidOptions
<1>1. CASE PClose
  <2>1. /\ ppc = "close" /\ ppc' = "done" /\ readyOpen' = FALSE
        /\ UNCHANGED <<ready, produced, error, cpc, keep_going, result, seen>>
    BY <1>1 DEF PClose, consumerVars
  <2>2. produced = Taken + Len(ready)
    BY <1>0, <2>1 DEF Numbered, Bit, Taken
  <2> QED
    BY <1>0, <2>1, <2>2 DEF Ending, Control, StreamOver, Taken
<1>2. CASE PReadOk \/ PReadEnd \/ PReadFails \/ PSetError \/ PRecv \/ PSend
  <2>1. CASE PReadOk
    BY <1>0, <2>1 DEF Ending, StreamOver, consumerVars, PReadOk, MoreInStream, TypeOK
  <2>2. CASE PReadEnd
    BY <1>0, <2>2 DEF Ending, StreamOver, consumerVars, PReadEnd, MoreInStream, TypeOK
  <2>3. CASE PReadFails \/ PSetError
    BY <1>0, <2>3 DEF Ending, StreamOver, consumerVars, PReadFails, PSetError
  <2>4. CASE PRecv \/ PSend
    BY <1>0, <2>4 DEF Ending, StreamOver, consumerVars, PRecv, PSend
  <2> QED
    BY <1>2, <2>1, <2>2, <2>3, <2>4
<1>3. CASE PRecvClosed \/ PReadThrows \/ PSendClosed
  BY <1>0, <1>3 DEF Ending, StreamOver, Taken, consumerVars, PRecvClosed, PReadThrows,
     PSendClosed
<1>4. CASE CRecv
  <2>1. ready # <<>> /\ Len(ready') = Len(ready) - 1
    BY <1>4, StepFacts, HeadTailProperties, EmptySeq, LenProperties DEF CRecv
  <2> QED
    BY <1>0, <1>4, <2>1 DEF Ending, StreamOver, Taken, producerVars, CRecv
<1>5. CASE CRecvClosed
  <2>1. Len(ready) = 0 /\ ~readyOpen
    BY <1>5 DEF CRecvClosed, RecvThrows
  <2> QED
    BY <1>0, <1>5, <2>1 DEF Ending, StreamOver, Taken, Control, producerVars, CRecvClosed
<1>6. CASE (\E more \in BOOLEAN : CCallback(more)) \/ CCallbackThrows
  <2>1. /\ UNCHANGED <<ready, readyOpen, produced, ppc, error>>
        /\ cpc = "callback" /\ keep_going /\ result = "none"
        /\ \/ cpc' = "recycle" /\ result' = "none"
           \/ cpc' = "close_free" /\ result' = "throw"
    BY <1>6 DEF CCallback, CCallbackThrows, producerVars, Control
  <2>2. Len(seen') = Len(seen) + 1
    <3>1. seen' = Append(seen, content[cbuf])
      BY <1>6 DEF CCallback, CCallbackThrows
    <3> QED
      BY <3>1, StepFacts, AppendProperties, LenProperties
  <2>3. Taken' = Taken
    BY <1>0, <2>1, <2>2 DEF Taken
  <2> QED
    BY <1>0, <2>1, <2>3 DEF Ending, StreamOver
<1>7. CASE RejectOptions \/ Start
  BY <1>0, <1>7 DEF Ending, Control, StreamOver, producerVars, RejectOptions, Start
<1>8. CASE CRecycle
  BY <1>0, <1>8 DEF Ending, Control, StreamOver, Taken, producerVars, CRecycle
<1>9. CASE CCloseFree \/ CCloseReady
  BY <1>0, <1>9 DEF Ending, Control, StreamOver, producerVars, CCloseFree, CCloseReady
<1>10. CASE CTake
  BY <1>0, <1>10 DEF Ending, Control, StreamOver, TypeOK, producerVars, CTake
<1>11. CASE CJoin
  BY <1>0, <1>11 DEF Ending, Control, StreamOver, producerVars, CJoin
<1>12. CASE UNCHANGED vars
  BY <1>0, <1>12 DEF Ending, StreamOver, Taken, vars
<1> QED
  BY <1>1, <1>2, <1>3, <1>4, <1>5, <1>6, <1>7, <1>8, <1>9, <1>10, <1>11, <1>12
  DEF Next, Producer, Consumer, Finished

-----------------------------------------------------------------------------
(* The theorems.                                                            *)

(* The call starts with no buffer anywhere and nothing read.               *)
LEMMA InitIInv == Init => IInv
<1> SUFFICES ASSUME Init PROVE IInv
  OBVIOUS
<1>1. TypeOK /\ options.prefetch \in Nat
  BY InitTypeOK, OptionsFacts DEF Init
<1>2. Control /\ NoSharing /\ Ending
  BY DEF Init, Control, NoSharing, Ending, ProducerHolds, ConsumerHolds
<1>3. Conserved /\ ReadAheadBounded
  BY <1>1 DEF Init, Conserved, ReadAheadBounded, Bit, ProducerHolds, ConsumerHolds
<1>4. Numbered
  BY DEF Init, Numbered, InOrder, Taken, Bit
<1> QED
  BY <1>1, <1>2, <1>3, <1>4 DEF IInv

(* IInv is inductive.                                                      *)
LEMMA NextIInv == IInv /\ [Next]_vars => IInv'
BY NextTypeOK, NextControl, NextNoSharing, NextConserved, NextNumbered,
   NextReadAhead, NextEnding DEF IInv

(* The inductive invariant holds in every reachable state.                 *)
THEOREM Invariance == Spec => []IInv
BY InitIInv, NextIInv, PTL DEF Spec

(* No two threads ever use the same batch buffer, for any prefetch.        *)
THEOREM BuffersNeverShared == Spec => []NoSharing
<1>1. IInv => NoSharing
  BY DEF IInv
<1> QED
  BY <1>1, Invariance, PTL

(* The callback sees the batches of the stream in order, none skipped and  *)
(* none twice, for every stream and every interleaving.                    *)
THEOREM BatchesInOrder == Spec => []InOrder
<1>1. IInv => InOrder
  BY DEF IInv, Numbered
<1> QED
  BY <1>1, Invariance, PTL

(* The producer is never more than prefetch + 1 batches ahead.             *)
THEOREM ReadAheadIsBounded == Spec => []ReadAheadBounded
<1>1. IInv => ReadAheadBounded
  BY DEF IInv
<1> QED
  BY <1>1, Invariance, PTL

(* free.send in the consumer's loop always finds room in an open channel.  *)
THEOREM RecycleIsNonblocking == Spec => []RecycleNeverBlocks
<1>1. IInv => RecycleNeverBlocks
  <2> SUFFICES ASSUME IInv, cpc = "recycle"
               PROVE  freeOpen /\ HasRoom(free, FreeCapacity)
    BY DEF RecycleNeverBlocks
  <2>1. freeOpen
    BY DEF IInv, Control
  <2>2. Len(free) \in Nat /\ Len(ready) \in Nat /\ options.prefetch \in Nat
    BY OptionsFacts, LenProperties DEF IInv, TypeOK
  <2>3. Len(free) < options.prefetch + 1
    BY <2>2 DEF IInv, Conserved, Bit, ConsumerHolds
  <2> QED
    BY <2>1, <2>3 DEF HasRoom, FreeCapacity
<1> QED
  BY <1>1, Invariance, PTL

(* Unless the callback stops the stream, every batch read is delivered and *)
(* ok is returned only for a stream read to its end.                       *)
THEOREM NothingIsDropped == Spec => []NothingDropped
<1>1. IInv => NothingDropped
  BY DEF IInv, TypeOK, Control, Ending, NothingDropped, Returned
<1> QED
  BY <1>1, Invariance, PTL

(* The bytes the callback is reading are never written meanwhile.          *)
THEOREM SpanIsStable == Spec => SpanStable
<1>1. IInv /\ [Next]_vars => (cpc = "callback" => content'[cbuf] = content[cbuf])
  <2> SUFFICES ASSUME IInv, [Next]_vars, cpc = "callback"
               PROVE  content'[cbuf] = content[cbuf]
    OBVIOUS
  <2>0. /\ TypeOK /\ NoSharing
        /\ content \in [Buffers -> 0 .. total] /\ pbuf \in Buffers /\ cbuf \in Buffers
        /\ free \in Seq(Buffers)
    BY DEF IInv, TypeOK
  <2>1. CASE PRecv
    <3>1. Head(free) = free[1] /\ 1 \in DOMAIN free /\ Head(free) \in Buffers
      BY <2>0, <2>1, HeadTailProperties, EmptySeq, LenProperties DEF PRecv
    <3>2. Head(free) # cbuf
      BY <2>0, <3>1 DEF NoSharing, ConsumerHolds
    <3> QED
      BY <2>0, <2>1, <3>1, <3>2 DEF PRecv
  <2>2. CASE PReadOk
    <3>1. pbuf # cbuf
      BY <2>0, <2>2 DEF PReadOk, NoSharing, ConsumerHolds, ProducerHolds
    <3> QED
      BY <2>0, <2>2, <3>1 DEF PReadOk
  <2>3. CASE content' = content
    BY <2>3
  <2> QED
    BY <2>1, <2>2, <2>3 DEF Next, Producer, Consumer, Finished, vars, RejectOptions,
       Start, PRecvClosed, PReadEnd, PReadFails, PReadThrows, PSetError, PClose,
       PSend, PSendClosed, CRecv, CRecvClosed, CCallback, CCallbackThrows,
       CRecycle, CCloseFree, CCloseReady, CTake, CJoin
<1> QED
  BY <1>1, Invariance, PTL DEF Spec, SpanStable
=============================================================================
