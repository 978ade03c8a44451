-------------------------- MODULE TesterAppProofs --------------------------
(***************************************************************************)
(* Two results about the tester of the Sensor ECU.                         *)
(*                                                                         *)
(* The ring implements the bounded FIFO, for every length of the ring and  *)
(* whatever the frames, the sequences and the other side do.  The          *)
(* inductive invariant is short: the indices are slots of the ring, and    *)
(* the main loop processes a frame only while the ring has one.  What      *)
(* makes it enough is that one slot always stays free, so that head does   *)
(* not come round to tail (RING_LEN - 1 frames at most).                   *)
(*                                                                         *)
(* The verdict of a step is right when the ECU answers in time, for every  *)
(* table of steps and answers, every length of a response and any losses.  *)
(* The inductive invariant says what is under way at every moment of an    *)
(* exchange: the request, or the whole response, or its first frame, or    *)
(* its rest with as much of it as the link has received, or nothing, and   *)
(* then the step has its response or will get none.                        *)
(***************************************************************************)
EXTENDS TesterApp, SequenceTheorems, TLAPS

Slots == 0 .. RingLen - 1
Taken == IF pc = "advance" THEN 1 ELSE 0
Used  == IF tail <= head THEN head - tail ELSE head + RingLen - tail

RingInv ==
    /\ head \in Slots /\ tail \in Slots
    /\ DOMAIN ring = Slots
    /\ pc \in {"test", "take", "advance", "key", "poll", "run"}
    /\ pc \in {"take", "advance"} => head /= tail

\* An index of the ring goes round at most once.
LEMMA ModOnce ==
    ASSUME NEW N \in Nat \ {0}, NEW x \in 0 .. 2 * N - 1
    PROVE  x % N = IF x < N THEN x ELSE x - N
OBVIOUS

\* The slot after slot i.
LEMMA NextSlot ==
    ASSUME NEW i \in Slots
    PROVE  /\ (i + 1) % RingLen \in Slots
           /\ (i + 1) % RingLen = IF i = RingLen - 1 THEN 0 ELSE i + 1
<1>1. RingLen \in Nat /\ RingLen >= 2
  BY TesterAssumption
<1> DEFINE x == i + 1
<1>2. x \in 0 .. 2 * RingLen - 1 /\ RingLen \in Nat \ {0}
  BY <1>1 DEF Slots
<1>3. x % RingLen = IF x < RingLen THEN x ELSE x - RingLen
  <2> HIDE DEF x
  <2> QED
    BY <1>2, ModOnce
<1> QED
  BY <1>1, <1>3 DEF Slots

\* The main loop and the interrupt keep the indices in the ring, and a frame
\* is taken only from a ring that has one.
LEMMA RingInvInit == Init => RingInv
BY TesterAssumption DEF Init, RingInv, Slots

LEMMA RingInvStep == RingInv /\ [Next]_vars => RingInv'
<1> SUFFICES ASSUME RingInv, [Next]_vars PROVE RingInv'
  OBVIOUS
<1>1. CASE OnCanFrameIsr
  <2>1. UNCHANGED <<tail, pc>>
    BY <1>1 DEF OnCanFrameIsr
  <2>2. CASE RingFull
    BY <1>1, <2>1, <2>2 DEF OnCanFrameIsr, RingInv
  <2>3. CASE ~RingFull
    <3>1. head' = (head + 1) % RingLen /\ DOMAIN ring' = DOMAIN ring
      BY <1>1, <2>3 DEF OnCanFrameIsr
    <3>2. head' \in Slots /\ head' /= tail
      BY <3>1, <2>3, NextSlot DEF RingInv, RingFull
    <3> QED
      BY <2>1, <3>1, <3>2 DEF RingInv
  <2> QED
    BY <2>2, <2>3
<1>2. CASE Test
  BY <1>2 DEF Test, ringVars, RingInv
<1>3. CASE Take
  BY <1>3 DEF Take, ringVars, RingInv
<1>4. CASE Advance
  BY <1>4, NextSlot DEF Advance, RingInv
<1>5. CASE HandleKey
  BY <1>5 DEF HandleKey, ringVars, RingInv
<1>6. CASE Poll
  BY <1>6 DEF Poll, ringVars, RingInv
<1>7. CASE RunSequence
  BY <1>7 DEF RunSequence, ringVars, RingInv
<1>8. CASE EcuAnswers
  BY <1>8 DEF EcuAnswers, ringVars, RingInv
<1>9. CASE Lose
  BY <1>9 DEF Lose, ringVars, RingInv
<1>10. CASE Tick
  BY <1>10 DEF Tick, ringVars, RingInv
<1>11. CASE UNCHANGED vars
  BY <1>11 DEF vars, ringVars, RingInv
<1> QED
  BY <1>1, <1>2, <1>3, <1>4, <1>5, <1>6, <1>7, <1>8, <1>9, <1>10, <1>11 DEF Next, TesterTask

-----------------------------------------------------------------------------
(* The frames that wait, without the remainders.                           *)

SlotAt(i) == IF i < RingLen THEN i ELSE i - RingLen

\* The modulus leaves only indices of the ring.
LEMMA WaitingShape ==
    ASSUME RingInv
    PROVE  /\ Used - Taken \in 0 .. RingLen - 1
           /\ Waiting = [k \in 1 .. Used - Taken |-> ring[SlotAt(tail + Taken + k - 1)]]
<1>1. RingLen \in Nat /\ RingLen >= 2 /\ head \in Slots /\ tail \in Slots
  BY TesterAssumption DEF RingInv
<1>2. Used \in 0 .. RingLen - 1 /\ (head + RingLen - tail) % RingLen = Used
  <2> DEFINE x == head + RingLen - tail
  <2>1. x \in 0 .. 2 * RingLen - 1 /\ RingLen \in Nat \ {0}
    BY <1>1 DEF Slots
  <2>2. x % RingLen = IF x < RingLen THEN x ELSE x - RingLen
    <3> HIDE DEF x
    <3> QED
      BY <2>1, ModOnce
  <2> QED
    BY <1>1, <2>2 DEF Used, Slots
<1>3. Taken \in {0, 1} /\ Taken <= Used
  BY <1>1, <1>2 DEF Taken, Used, RingInv, Slots
<1>4. ASSUME NEW k \in 1 .. Used - Taken
      PROVE  (tail + Taken + k - 1) % RingLen = SlotAt(tail + Taken + k - 1)
  <2> DEFINE x == tail + Taken + k - 1
  <2>1. x \in 0 .. 2 * RingLen - 1 /\ RingLen \in Nat \ {0}
    BY <1>1, <1>2, <1>3 DEF Slots
  <2> HIDE DEF x
  <2>2. x % RingLen = SlotAt(x)
    BY <2>1, ModOnce DEF SlotAt
  <2> QED
    BY <2>2 DEF x
<1>5. Waiting = [k \in 1 .. Used - Taken |-> ring[(tail + Taken + k - 1) % RingLen]]
  BY <1>2 DEF Waiting, Taken
<1> QED
  BY <1>1, <1>2, <1>3, <1>4, <1>5

\* They are a sequence.
WaitingIsSeq ==
    /\ Used - Taken \in 0 .. RingLen - 1
    /\ Len(Waiting) = Used - Taken
    /\ Waiting \in Seq({ring[i] : i \in Slots})
    /\ \A k \in 1 .. Used - Taken :
          /\ SlotAt(tail + Taken + k - 1) \in Slots
          /\ Waiting[k] = ring[SlotAt(tail + Taken + k - 1)]

LEMMA WaitingSeq == RingInv => WaitingIsSeq
<1> SUFFICES ASSUME RingInv PROVE WaitingIsSeq
  OBVIOUS
<1>1. RingLen \in Nat /\ RingLen >= 2 /\ head \in Slots /\ tail \in Slots
  BY TesterAssumption DEF RingInv
<1>2. /\ Used - Taken \in Nat
      /\ Waiting = [k \in 1 .. Used - Taken |-> ring[SlotAt(tail + Taken + k - 1)]]
  BY <1>1, WaitingShape
<1>3. ASSUME NEW k \in 1 .. Used - Taken PROVE SlotAt(tail + Taken + k - 1) \in Slots
  BY <1>1, <1>2 DEF SlotAt, Slots, Used, Taken
<1> QED
  BY <1>2, <1>3, WaitingShape DEF WaitingIsSeq

\* A step that touches neither the ring nor the slot being processed.
LEMMA RingKept ==
    ASSUME RingInv, UNCHANGED ringVars, (pc = "advance") <=> (pc' = "advance")
    PROVE  UNCHANGED Fifo!vars
BY DEF Fifo!vars, Waiting, ringVars

\* The interrupt appends the frame to those that wait.
LEMMA IsrAppends ==
    ASSUME RingInv, RingInv', OnCanFrameIsr, ~RingFull
    PROVE  /\ tail' = tail /\ pc' = pc /\ Taken' = Taken
           /\ Used - Taken \in Nat /\ Used - Taken < RingLen - 1
           /\ Len(Waiting) = Used - Taken /\ Len(Waiting') = Used - Taken + 1
           /\ \A k \in 1 .. Used - Taken : Waiting'[k] = Waiting[k]
           /\ Waiting'[Used - Taken + 1] = Head(wire)
<1>1. /\ head' = IF head = RingLen - 1 THEN 0 ELSE head + 1
      /\ tail' = tail /\ pc' = pc /\ Taken' = Taken
      /\ \A i \in Slots \ {head} : ring'[i] = ring[i]
      /\ ring'[head] = Head(wire)
  BY NextSlot DEF OnCanFrameIsr, RingInv, Taken
<1>2. RingLen \in Nat /\ RingLen >= 2 /\ head \in Slots /\ tail \in Slots /\ head' /= tail
  BY <1>1, NextSlot, TesterAssumption DEF RingInv, RingFull
<1>3. Used' = Used + 1 /\ Used < RingLen - 1 /\ Used \in Nat
  BY <1>1, <1>2 DEF Used, Slots
<1>4. WaitingIsSeq /\ WaitingIsSeq'
  BY WaitingSeq, PTL
<1>5. /\ Len(Waiting) = Used - Taken /\ Len(Waiting') = Used - Taken + 1
      /\ Used - Taken \in Nat /\ Used - Taken < RingLen - 1
  <2>1. Taken \in {0, 1} /\ Taken' = Taken
    BY <1>1 DEF Taken
  <2>2. Len(Waiting) = Used - Taken /\ Len(Waiting') = Used' - Taken' /\ Used - Taken >= 0
    BY <1>2, <1>4 DEF WaitingIsSeq
  <2> QED
    BY <1>2, <1>3, <2>1, <2>2
<1>6. ASSUME NEW k \in 1 .. Used - Taken PROVE Waiting'[k] = Waiting[k]
  <2> DEFINE i == SlotAt(tail + Taken + k - 1)
  <2>1. i \in Slots /\ i /= head
    BY <1>2, <1>5 DEF Slots, SlotAt, Used, Taken
  <2>2. Waiting[k] = ring[i] /\ Waiting'[k] = ring'[i]
    BY <1>1, <1>2, <1>3, <1>4, <1>5 DEF WaitingIsSeq, SlotAt
  <2> QED
    BY <1>1, <2>1, <2>2
<1>7. Waiting'[Used - Taken + 1] = Head(wire)
  <2> DEFINE k == Used - Taken + 1
  <2>1. k \in 1 .. Used' - Taken' /\ tail + Taken + k - 1 = tail + Used
    BY <1>1, <1>2, <1>3, <1>5 DEF Taken, Slots
  <2>2. Waiting'[k] = ring'[SlotAt(tail + Used)]
    BY <1>1, <1>4, <2>1 DEF WaitingIsSeq, SlotAt
  <2>3. SlotAt(tail + Used) = head
    BY <1>2 DEF SlotAt, Used, Slots
  <2> QED
    BY <1>1, <2>2, <2>3
<1> QED
  BY <1>1, <1>5, <1>6, <1>7

\* The interrupt puts a frame, or the frame is dropped because the FIFO is full.
LEMMA IsrPuts ==
    ASSUME RingInv, RingInv', OnCanFrameIsr
    PROVE  [Fifo!Next]_Fifo!vars
<1>1. CASE RingFull
  <2>1. UNCHANGED <<ring, head, tail, pc>>
    BY <1>1 DEF OnCanFrameIsr
  <2> QED
    BY <2>1 DEF Fifo!vars, Waiting
<1>2. CASE ~RingFull
  <2> DEFINE S == {ring[i] : i \in Slots} \cup {ring'[i] : i \in Slots}
             n == Used - Taken
  <2>1. /\ n \in Nat /\ n < RingLen - 1 /\ Len(Waiting) = n /\ Len(Waiting') = n + 1
        /\ \A k \in 1 .. n : Waiting'[k] = Waiting[k]
        /\ tail' = tail /\ pc' = pc
    BY <1>2, IsrAppends
  <2>2. Waiting \in Seq(S) /\ Waiting' \in Seq(S)
    <3>1. WaitingIsSeq /\ WaitingIsSeq'
      BY WaitingSeq, PTL
    <3> QED
      BY <3>1 DEF WaitingIsSeq
  <2>3. SubSeq(Waiting', 1, Len(Waiting)) = Waiting
    <3> HIDE DEF n, S
    <3>1. /\ SubSeq(Waiting', 1, n) \in Seq(S) /\ Len(SubSeq(Waiting', 1, n)) = n
          /\ \A k \in 1 .. n : SubSeq(Waiting', 1, n)[k] = Waiting'[k]
      BY <2>1, <2>2
    <3> QED
      BY <2>1, <2>2, <3>1, SeqEqual
  <2>4. <<ring[tail]>>' = <<ring[tail]>> \/ pc /= "advance"
    <3>1. head /= tail \/ pc /= "advance"
      BY DEF RingInv
    <3>2. \A i \in Slots \ {head} : ring'[i] = ring[i]
      BY <1>2 DEF OnCanFrameIsr, RingInv
    <3> QED
      BY <2>1, <3>1, <3>2 DEF RingInv
  <2>5. Fifo!Put
    <3>1. Len(Waiting) < RingLen - 1 /\ Len(Waiting') = Len(Waiting) + 1
      BY <2>1
    <3> QED
      BY <2>1, <2>3, <2>4, <3>1 DEF Fifo!Put
  <2> QED
    BY <2>5 DEF Fifo!Next
<1> QED
  BY <1>1, <1>2

\* The main loop takes the head of the FIFO when RxFrame is to read its slot.
LEMMA TakeGets == ASSUME RingInv, RingInv', Take PROVE Fifo!Get
<1>1. UNCHANGED <<ring, head, tail>> /\ pc = "take" /\ pc' = "advance" /\ head /= tail
  BY DEF Take, ringVars, RingInv
<1>2. WaitingIsSeq /\ WaitingIsSeq'
  BY WaitingSeq, PTL
<1>3. RingLen \in Nat /\ RingLen >= 2 /\ head \in Slots /\ tail \in Slots
  BY TesterAssumption DEF RingInv
<1>4. Taken = 0 /\ Taken' = 1 /\ Used' = Used /\ Used > 0
  BY <1>1, <1>3 DEF Taken, Used, Slots
<1> DEFINE S == {ring[i] : i \in Slots}
<1> DEFINE n == Used
<1>5. /\ n \in Nat \ {0} /\ Len(Waiting) = n /\ Len(Waiting') = n - 1
      /\ Waiting \in Seq(S) /\ Waiting' \in Seq(S)
  BY <1>1, <1>2, <1>3, <1>4 DEF WaitingIsSeq, Slots, Used
<1>6. Waiting[1] = ring[tail]
  <2>1. Waiting[1] = ring[SlotAt(tail + 0 + 1 - 1)]
    <3>1. 1 \in 1 .. Used - Taken
      BY <1>4, <1>5
    <3> QED
      BY <1>2, <1>4, <3>1 DEF WaitingIsSeq
  <2> QED
    BY <1>3, <2>1 DEF SlotAt, Slots
<1>7. ASSUME NEW k \in 1 .. n - 1 PROVE Waiting'[k] = Waiting[k + 1]
  <2>1. Waiting[k + 1] = ring[SlotAt(tail + k)]
    <3>1. k + 1 \in 1 .. Used - Taken
      BY <1>4, <1>5
    <3>2. Waiting[k + 1] = ring[SlotAt(tail + 0 + (k + 1) - 1)]
      BY <1>2, <1>4, <3>1 DEF WaitingIsSeq
    <3>3. tail + 0 + (k + 1) - 1 = tail + k
      BY <1>3 DEF Slots
    <3> QED
      BY <3>2, <3>3
  <2>2. Waiting'[k] = ring[SlotAt(tail + k)]
    BY <1>1, <1>2, <1>3, <1>4, <1>5 DEF WaitingIsSeq, SlotAt, Slots
  <2> QED
    BY <2>1, <2>2
<1>8. Waiting' = Tail(Waiting)
  <2> HIDE DEF n, S
  <2>1. /\ Tail(Waiting) \in Seq(S) /\ Len(Tail(Waiting)) = n - 1
        /\ \A k \in 1 .. n - 1 : Tail(Waiting)[k] = Waiting[k + 1]
    BY <1>5
  <2> QED
    BY <1>5, <1>7, <2>1, SeqEqual
<1>9. Waiting /= <<>> /\ Head(Waiting) = ring[tail]
  BY <1>5, <1>6
<1> QED
  BY <1>1, <1>8, <1>9 DEF Fifo!Get

\* The main loop frees the slot, and what waits is what waited.
LEMMA AdvanceDone == ASSUME RingInv, RingInv', Advance PROVE Fifo!Done
<1>1. UNCHANGED <<ring, head>> /\ pc = "advance" /\ pc' = "test" /\ head /= tail
  BY DEF Advance, RingInv
<1>2. tail' = IF tail = RingLen - 1 THEN 0 ELSE tail + 1
  BY NextSlot DEF Advance, RingInv
<1>3. RingLen \in Nat /\ RingLen >= 2 /\ head \in Slots /\ tail \in Slots
  BY TesterAssumption DEF RingInv
<1>4. Taken = 1 /\ Taken' = 0 /\ Used' = Used - 1
  BY <1>1, <1>2, <1>3 DEF Taken, Used, Slots
<1>5. WaitingIsSeq /\ WaitingIsSeq'
  BY WaitingSeq, PTL
<1> DEFINE S == {ring[i] : i \in Slots}
<1> DEFINE n == Used - Taken
<1>6. /\ n \in Nat /\ Used' - Taken' = n
      /\ Len(Waiting) = n /\ Len(Waiting') = n
      /\ Waiting \in Seq(S) /\ Waiting' \in Seq(S)
  <2>1. Used \in Nat
    BY <1>3 DEF Used, Slots
  <2> QED
    BY <1>1, <1>3, <1>4, <1>5, <2>1 DEF WaitingIsSeq
<1>7. ASSUME NEW k \in 1 .. n PROVE Waiting'[k] = Waiting[k]
  <2>1. Waiting[k] = ring[SlotAt(tail + 1 + k - 1)]
    BY <1>4, <1>5 DEF WaitingIsSeq
  <2>2. Waiting'[k] = ring[SlotAt(tail' + 0 + k - 1)]
    <3>1. k \in 1 .. Used' - Taken'
      BY <1>6
    <3> QED
      BY <1>1, <1>4, <1>5, <3>1 DEF WaitingIsSeq, SlotAt
  <2>3. SlotAt(tail' + 0 + k - 1) = SlotAt(tail + 1 + k - 1)
    BY <1>2, <1>3, <1>4, <1>6 DEF SlotAt, Slots, Used
  <2> QED
    BY <2>1, <2>2, <2>3
<1>8. Waiting' = Waiting
  <2> HIDE DEF n, S
  <2> QED
    BY <1>6, <1>7, SeqEqual
<1> QED
  BY <1>1, <1>8 DEF Fifo!Done

-----------------------------------------------------------------------------
\* Init maps to the initial state of the FIFO, which is empty.
LEMMA RingInit == Init => Fifo!Init
<1> SUFFICES ASSUME Init PROVE Fifo!Init
  OBVIOUS
<1>1. RingInv /\ WaitingIsSeq /\ pc = "test" /\ head = 0 /\ tail = 0
  BY RingInvInit, WaitingSeq DEF Init
<1>2. Len(Waiting) = 0 /\ Waiting \in Seq({ring[i] : i \in Slots})
  BY <1>1 DEF WaitingIsSeq, Used, Taken
<1> QED
  BY <1>1, <1>2 DEF Fifo!Init

\* Every step of the tester, of the Control ECU, of the bus and of time is a
\* step of the FIFO or leaves it as it is.
LEMMA RingStep == RingInv /\ [Next]_vars => [Fifo!Next]_Fifo!vars
<1> SUFFICES ASSUME RingInv, [Next]_vars PROVE [Fifo!Next]_Fifo!vars
  OBVIOUS
<1>0. RingInv'
  BY RingInvStep
<1>1. CASE OnCanFrameIsr
  BY <1>0, <1>1, IsrPuts
<1>2. CASE Test
  BY <1>2, RingKept DEF Test
<1>3. CASE Take
  BY <1>0, <1>3, TakeGets DEF Fifo!Next
<1>4. CASE Advance
  BY <1>0, <1>4, AdvanceDone DEF Fifo!Next
<1>5. CASE HandleKey
  BY <1>5, RingKept DEF HandleKey
<1>6. CASE Poll
  BY <1>6, RingKept DEF Poll
<1>7. CASE RunSequence
  BY <1>7, RingKept DEF RunSequence
<1>8. CASE EcuAnswers
  BY <1>8, RingKept DEF EcuAnswers
<1>9. CASE Lose
  BY <1>9, RingKept DEF Lose
<1>10. CASE Tick
  BY <1>10, RingKept DEF Tick
<1>11. CASE UNCHANGED vars
  BY <1>11, RingKept DEF vars
<1> QED
  BY <1>1, <1>2, <1>3, <1>4, <1>5, <1>6, <1>7, <1>8, <1>9, <1>10, <1>11 DEF Next, TesterTask

\* The ring is a bounded FIFO (tester_app.c:409-437), whatever RING_LEN.
THEOREM RingRefines == Spec => RingIsFifo
<1>1. Init => RingInv /\ Fifo!Init
  BY RingInvInit, RingInit
<1>2. RingInv /\ [Next]_vars => RingInv' /\ [Fifo!Next]_Fifo!vars
  BY RingInvStep, RingStep
<1> QED
  BY <1>1, <1>2, PTL DEF Spec, RingIsFifo, Fifo!Spec

-----------------------------------------------------------------------------
(* Sequences.                                                              *)

IsSeq(s) == \E S : s \in Seq(S)

\* The empty sequence.
LEMMA NoElement == IsSeq(<<>>) /\ Len(<<>>) = 0
<1>1. <<>> \in Seq({})
  OBVIOUS
<1> QED
  BY <1>1 DEF IsSeq

\* A sequence of one element.
LEMMA OneElement == ASSUME NEW x PROVE IsSeq(<<x>>) /\ <<x>> /= <<>> /\ Len(<<x>>) = 1 /\ <<x>>[1] = x
<1>1. <<x>> \in Seq({x})
  OBVIOUS
<1> QED
  BY <1>1 DEF IsSeq

\* The indices of a sequence.
LEMMA Indices == ASSUME NEW s, IsSeq(s) PROVE Len(s) \in Nat /\ DOMAIN s = 1 .. Len(s)
<1>1. PICK S : s \in Seq(S)
  BY DEF IsSeq
<1> QED
  BY <1>1

\* What concatenation keeps of its parts.
LEMMA Concatenated ==
    ASSUME NEW s, IsSeq(s), NEW t, IsSeq(t)
    PROVE  /\ IsSeq(s \o t)
           /\ Len(s \o t) = Len(s) + Len(t)
           /\ \A k \in 1 .. Len(s) : (s \o t)[k] = s[k]
           /\ \A k \in 1 .. Len(t) : (s \o t)[Len(s) + k] = t[k]
<1>1. PICK S : s \in Seq(S)
  BY DEF IsSeq
<1>2. PICK T : t \in Seq(T)
  BY DEF IsSeq
<1> DEFINE U == S \cup T
<1>3. s \in Seq(U) /\ t \in Seq(U)
  BY <1>1, <1>2
<1> HIDE DEF U
<1>4. s \o t \in Seq(U)
  BY <1>3
<1> QED
  BY <1>3, <1>4 DEF IsSeq

\* Sequences with the same elements are the same.
LEMMA SameSeq ==
    ASSUME NEW s, IsSeq(s), NEW t, IsSeq(t), Len(s) = Len(t), \A k \in 1 .. Len(s) : s[k] = t[k]
    PROVE  s = t
<1>1. PICK S : s \in Seq(S)
  BY DEF IsSeq
<1>2. PICK T : t \in Seq(T)
  BY DEF IsSeq
<1>3. s = [k \in 1 .. Len(s) |-> s[k]] /\ t = [k \in 1 .. Len(t) |-> t[k]]
  BY <1>1, <1>2
<1> QED
  BY <1>3

\* Concatenation with the empty sequence.
LEMMA WithNothing == ASSUME NEW s, IsSeq(s) PROVE <<>> \o s = s /\ s \o <<>> = s
<1> DEFINE t == <<>> \o s
           u == s \o <<>>
<1>1. Len(s) \in Nat
  BY Indices
<1>2. IsSeq(t) /\ Len(t) = 0 + Len(s) /\ \A k \in 1 .. Len(s) : t[0 + k] = s[k]
  BY NoElement, Concatenated
<1>3. IsSeq(u) /\ Len(u) = Len(s) + 0 /\ \A k \in 1 .. Len(s) : u[k] = s[k]
  BY NoElement, Concatenated
<1> HIDE DEF t, u
<1>4. t = s
  <2>1. Len(t) = Len(s) /\ \A k \in 1 .. Len(t) : t[k] = s[k]
    BY <1>1, <1>2
  <2> QED
    BY <1>2, <2>1, SameSeq
<1>5. u = s
  <2>1. Len(u) = Len(s) /\ \A k \in 1 .. Len(u) : u[k] = s[k]
    BY <1>1, <1>3
  <2> QED
    BY <1>3, <2>1, SameSeq
<1> QED
  BY <1>4, <1>5 DEF t, u

\* Two sequences of one element, concatenated.
LEMMA TwoElements == ASSUME NEW x, NEW y PROVE <<x>> \o <<y>> = <<x, y>>
<1> DEFINE s == <<x>>
           t == <<y>>
           u == s \o t
           v == <<x, y>>
<1>1. IsSeq(s) /\ Len(s) = 1 /\ s[1] = x
  BY OneElement
<1>2. IsSeq(t) /\ Len(t) = 1 /\ t[1] = y
  BY OneElement
<1>3. IsSeq(v) /\ Len(v) = 2 /\ v[1] = x /\ v[2] = y
  <2>1. v \in Seq({x, y})
    OBVIOUS
  <2> QED
    BY <2>1 DEF IsSeq
<1> HIDE DEF s, t, v
<1>4. /\ IsSeq(u) /\ Len(u) = Len(s) + Len(t)
      /\ \A k \in 1 .. Len(s) : u[k] = s[k]
      /\ \A k \in 1 .. Len(t) : u[Len(s) + k] = t[k]
  <2>1. IsSeq(s)
    BY <1>1
  <2>2. IsSeq(t)
    BY <1>2
  <2> QED
    BY <2>1, <2>2, Concatenated
<1> HIDE DEF u
<1>5. Len(u) = 2 /\ u[1] = x /\ u[2] = y
  <2>1. 1 \in 1 .. Len(s) /\ 1 \in 1 .. Len(t)
    BY <1>1, <1>2
  <2>2. u[1] = s[1] /\ u[Len(s) + 1] = t[1]
    BY <1>4, <2>1
  <2> QED
    BY <1>1, <1>2, <1>4, <2>2
<1>6. u = v
  <2>1. Len(u) = Len(v) /\ \A k \in 1 .. Len(u) : k = 1 \/ k = 2
    BY <1>3, <1>5
  <2>2. \A k \in 1 .. Len(u) : u[k] = v[k]
    BY <1>3, <1>5, <2>1
  <2> QED
    BY <1>3, <1>4, <2>1, <2>2, SameSeq
<1> QED
  BY <1>6 DEF s, t, u, v

\* A sequence without its first element.
LEMMA TailOf ==
    ASSUME NEW s, IsSeq(s), s /= <<>>
    PROVE  /\ IsSeq(Tail(s)) /\ Len(s) \in Nat \ {0} /\ Len(Tail(s)) = Len(s) - 1
           /\ Head(s) = s[1]
           /\ \A k \in 1 .. Len(s) - 1 : Tail(s)[k] = s[k + 1]
           /\ Tail(s) = <<>> <=> Len(s) = 1
<1>1. PICK S : s \in Seq(S)
  BY DEF IsSeq
<1>2. Tail(s) \in Seq(S) /\ Len(Tail(s)) = Len(s) - 1
  BY <1>1
<1>3. Tail(s) = <<>> <=> Len(s) = 1
  BY <1>1, <1>2
<1> QED
  BY <1>1, <1>2, <1>3 DEF IsSeq

\* A sequence with one more element.
LEMMA Appended ==
    ASSUME NEW s, IsSeq(s), NEW x
    PROVE  /\ IsSeq(Append(s, x)) /\ Len(Append(s, x)) = Len(s) + 1
           /\ \A k \in 1 .. Len(s) : Append(s, x)[k] = s[k]
           /\ Append(s, x)[Len(s) + 1] = x
<1>1. PICK S : s \in Seq(S)
  BY DEF IsSeq
<1> DEFINE T == S \cup {x}
<1>2. s \in Seq(T) /\ x \in T
  BY <1>1
<1> HIDE DEF T
<1>3. Append(s, x) \in Seq(T)
  BY <1>2
<1> QED
  BY <1>2, <1>3 DEF IsSeq

\* A sequence without elements is the empty one.
LEMMA Emptiness == ASSUME NEW s, IsSeq(s) PROVE s = <<>> <=> Len(s) = 0
<1>1. PICK S : s \in Seq(S)
  BY DEF IsSeq
<1> QED
  BY <1>1

\* A part of a sequence, and its first element.
LEMMA PartOf ==
    ASSUME NEW s, IsSeq(s), NEW n \in Nat, n <= Len(s)
    PROVE  /\ IsSeq(SubSeq(s, 1, n)) /\ Len(SubSeq(s, 1, n)) = n
           /\ n > 0 => SubSeq(s, 1, n)[1] = s[1]
<1>1. PICK S : s \in Seq(S)
  BY DEF IsSeq
<1>2. SubSeq(s, 1, n) \in Seq(S) /\ Len(SubSeq(s, 1, n)) = n
  BY <1>1
<1> QED
  BY <1>1, <1>2 DEF IsSeq

-----------------------------------------------------------------------------
(* What the main loop takes from the outcome of a call of the link.        *)

\* No message was received; the message received last begins with byte b.
Fails(ind) == ind = <<>> \/ \E e : ind = <<e>> /\ e.result /= "OK"
Gives(ind, b) ==
    \E i : /\ i.result = "OK" /\ i.data[1] = b
           /\ ind = <<i>> \/ \E e : e.result /= "OK" /\ ind = <<e, i>>

\* A call that received no message leaves s_resp alone.
LEMMA FailsKeeps == ASSUME NEW ind, Fails(ind) PROVE ResponseAfter(ind) = resp
<1> DEFINE ok == {k \in DOMAIN ind : ind[k].result = "OK"}
<1>1. ok = {}
  BY DEF Fails
<1> QED
  BY <1>1 DEF ResponseAfter

\* A call that received a message leaves its first byte in s_resp.
LEMMA GivesByte == ASSUME NEW ind, NEW b, Gives(ind, b) PROVE ResponseAfter(ind) = b
<1> DEFINE ok == {k \in DOMAIN ind : ind[k].result = "OK"}
<1>1. PICK i : /\ i.result = "OK" /\ i.data[1] = b
               /\ ind = <<i>> \/ \E e : e.result /= "OK" /\ ind = <<e, i>>
  BY DEF Gives
<1>2. \E n \in {1, 2} : ok = {n} /\ ind[n] = i
  <2>1. CASE ind = <<i>>
    <3>1. ok = {1} /\ ind[1] = i
      BY <1>1, <2>1
    <3> QED
      BY <3>1
  <2>2. CASE \E e : e.result /= "OK" /\ ind = <<e, i>>
    <3>1. PICK e : e.result /= "OK" /\ ind = <<e, i>>
      BY <2>2
    <3>2. ok = {2} /\ ind[2] = i
      BY <1>1, <3>1
    <3> QED
      BY <3>2
  <2> QED
    BY <1>1, <2>1, <2>2
<1> HIDE DEF ok
<1>3. PICK n \in {1, 2} : ok = {n} /\ ind[n] = i
  BY <1>2
<1>4. (CHOOSE k \in ok : \A j \in ok : j <= k) = n
  BY <1>3
<1>5. ResponseAfter(ind) = IF ok = {} THEN resp ELSE ind[CHOOSE k \in ok : \A j \in ok : j <= k].data[1]
  BY DEF ResponseAfter, ok
<1> QED
  BY <1>1, <1>3, <1>4, <1>5

\* Nothing is sent, or a Flow Control.
OnlyFc(out) == out = <<>> \/ \E g : out = <<g>> /\ g.pci = "FC"

\* The ECU goes on with its response at a Flow Control, and only then.
LEMMA DeliverFc ==
    ASSUME NEW out, OnlyFc(out), Deliver(out)
    PROVE  /\ ecu' = ecu
           /\ IF out = <<>> THEN wire' = wire /\ ecuRest' = ecuRest
                            ELSE wire' = wire \o ecuRest /\ ecuRest' = <<>>
<1>1. CASE out = <<>>
  BY <1>1 DEF Deliver
<1>2. CASE \E g : out = <<g>> /\ g.pci = "FC"
  <2>1. /\ out /= <<>> /\ {k \in DOMAIN out : out[k].pci = "SF"} = {}
        /\ \E k \in DOMAIN out : out[k].pci = "FC"
    BY <1>2
  <2> QED
    BY <2>1 DEF Deliver
<1> QED
  BY <1>1, <1>2 DEF OnlyFc

\* The Single Frame of a request reaches the ECU as that request.
LEMMA DeliverRequest ==
    ASSUME NEW r, Deliver(<<SingleFrame(<<r>>)>>)
    PROVE  ecu' = Append(ecu, r) /\ wire' = wire /\ ecuRest' = ecuRest
<1> DEFINE f == SingleFrame(<<r>>)
           out == <<f>>
<1>1. f.pci = "SF" /\ f.data[1] = r
  BY SizeAssumption DEF SingleFrame, Padded, SfMax
<1> HIDE DEF f
<1>2. {k \in DOMAIN out : out[k].pci = "SF"} = {1} /\ ~(\E k \in DOMAIN out : out[k].pci = "FC")
  BY <1>1
<1>3. ecu' = Append(ecu, out[1].data[1]) /\ wire' = wire /\ ecuRest' = ecuRest
  BY <1>2 DEF Deliver, f
<1> QED
  BY <1>1, <1>3

-----------------------------------------------------------------------------
(* The calls of the link, which never sends more than a Single Frame.      *)

RxFields == {"state", "length", "offset", "data", "seq", "blockCount", "timer"}

LinkOK(l) ==
    /\ DOMAIN l = {"tx", "rx", "fcPending"}
    /\ l.tx = IdleTx /\ l.fcPending = NoFc
    /\ DOMAIN l.rx = RxFields /\ l.rx.state \in {"IDLE", "RECEIVING"}

\* The frames of a response whose first byte is b.
IsWhole(f, b) ==
    /\ f.pci = "SF" /\ f.dlc = CanDl
    /\ f.length \in 1 .. SfMax /\ f.length <= Config.rxSize
    /\ IsSeq(f.data) /\ Len(f.data) = SfMax /\ f.data[1] = b
IsFirst(f, b) ==
    /\ f.pci = "FF" /\ f.dlc = CanDl
    /\ f.length \in Nat /\ f.length > SfMax /\ f.length <= Config.rxSize
    /\ IsSeq(f.data) /\ Len(f.data) = FfData /\ f.data[1] = b
IsRest(f) == f.pci = "CF" /\ f.dlc = CanDl /\ IsSeq(f.data) /\ Len(f.data) = CfMax

\* A reception of such a response that lacks bytes yet.
Holds(rx, b) ==
    /\ rx.length \in Nat /\ rx.offset \in Nat \ {0} /\ rx.offset < rx.length
    /\ IsSeq(rx.data) /\ Len(rx.data) = rx.offset /\ rx.data[1] = b

\* The payloads of the frames.
LEMMA Sizes == /\ CanDl \in Nat /\ CanDl >= 3
               /\ SfMax \in Nat /\ FfData \in Nat /\ CfMax \in Nat \ {0}
               /\ SfMax = FfData + 1 /\ CfMax = SfMax /\ FfData >= 1 /\ CfMax = CanDl - 1
               /\ SeqMod \in Nat /\ SeqMod >= 2
BY SizeAssumption DEF SfMax, FfData, CfMax

\* The idle receiver.
LEMMA IdleRxOK == DOMAIN IdleRx = RxFields /\ IdleRx.state = "IDLE"
BY DEF IdleRx, RxFields

\* The outcome of two calls.
LEMMA ThenIs ==
    ASSUME NEW i, NEW p
    PROVE  LET o == Then(i, p)
           IN  o.link = p.link /\ o.out = i.out \o p.out /\ o.ind = i.ind \o p.ind
BY DEF Then

\* A new receiver in the link.
LEMMA NewRx ==
    ASSUME NEW l, LinkOK(l), NEW rx, DOMAIN rx = RxFields, rx.state \in {"IDLE", "RECEIVING"},
           NEW m, m = [l EXCEPT !.rx = rx]
    PROVE  LinkOK(m) /\ m.rx = rx
<1>1. DOMAIN m = {"tx", "rx", "fcPending"} /\ m.rx = rx /\ m.tx = l.tx /\ m.fcPending = l.fcPending
  BY DEF LinkOK
<1> QED
  BY <1>1 DEF LinkOK

\* The end of a reception: the indication, and an idle receiver.
LEMMA RxFinishes ==
    ASSUME NEW l, LinkOK(l), NEW result, NEW o, o = RxFinish(l, result)
    PROVE  /\ LinkOK(o.link) /\ o.link.rx = IdleRx
           /\ o.out = <<>>
           /\ o.ind = <<[result |-> result,
                         data |-> SubSeq(l.rx.data, 1,
                                         IF result = "OK" THEN l.rx.length ELSE l.rx.offset)]>>
<1> DEFINE m == [l EXCEPT !.rx = IdleRx]
<1>1. LinkOK(m) /\ m.rx = IdleRx
  BY IdleRxOK, NewRx
<1>2. /\ o.link = m /\ o.out = <<>>
      /\ o.ind = <<[result |-> result,
                    data |-> SubSeq(l.rx.data, 1,
                                    IF result = "OK" THEN l.rx.length ELSE l.rx.offset)]>>
  BY DEF RxFinish, Unchanged
<1> HIDE DEF m
<1> QED
  BY <1>1, <1>2

\* A reception that ends with an error.
LEMMA RxFails ==
    ASSUME NEW l, LinkOK(l), NEW result, result /= "OK", NEW o, o = RxFinish(l, result)
    PROVE  LinkOK(o.link) /\ o.link.rx = IdleRx /\ o.out = <<>> /\ Fails(o.ind)
<1> DEFINE e == [result |-> result, data |-> SubSeq(l.rx.data, 1, l.rx.offset)]
<1>1. LinkOK(o.link) /\ o.link.rx = IdleRx /\ o.out = <<>> /\ o.ind = <<e>>
  BY RxFinishes
<1>2. e.result = result
  OBVIOUS
<1> HIDE DEF e
<1> QED
  BY <1>1, <1>2 DEF Fails

\* The call ended the reception with a message whose first byte is b.
Finished(o, b) ==
    /\ LinkOK(o.link) /\ o.link.rx = IdleRx /\ o.out = <<>>
    /\ \E i : i.result = "OK" /\ i.data[1] = b /\ o.ind = <<i>>

\* The whole message is there.
LEMMA RxSucceeds ==
    ASSUME NEW l, LinkOK(l), NEW b, l.rx.length \in Nat \ {0}, IsSeq(l.rx.data),
           l.rx.length <= Len(l.rx.data), l.rx.data[1] = b, NEW o, o = RxFinish(l, "OK")
    PROVE  Finished(o, b)
<1> DEFINE i == [result |-> "OK", data |-> SubSeq(l.rx.data, 1, l.rx.length)]
<1>1. LinkOK(o.link) /\ o.link.rx = IdleRx /\ o.out = <<>> /\ o.ind = <<i>>
  BY RxFinishes
<1>2. i.result = "OK" /\ i.data[1] = b
  BY PartOf
<1> HIDE DEF i
<1> QED
  BY <1>1, <1>2 DEF Finished

\* A new message interrupts a reception, which then fails.
LEMMA Interrupts ==
    ASSUME NEW l, LinkOK(l), NEW o, o = RxInterrupt(l)
    PROVE  LinkOK(o.link) /\ o.link.rx.state = "IDLE" /\ o.out = <<>> /\ Fails(o.ind)
<1>1. CASE l.rx.state = "RECEIVING"
  <2>1. o = RxFinish(l, "ERR_UNEXP_PDU")
    BY <1>1 DEF RxInterrupt
  <2> QED
    BY <2>1, RxFails, IdleRxOK
<1>2. CASE l.rx.state /= "RECEIVING"
  BY <1>2 DEF RxInterrupt, Unchanged, LinkOK, Fails
<1> QED
  BY <1>1, <1>2

\* The Flow Control goes out at once.
LEMMA FcGoes ==
    ASSUME NEW l, LinkOK(l), NEW o, o = RxSendFlowControl(l, Config, "CTS", TRUE)
    PROVE  LinkOK(o.link) /\ o.link.rx = l.rx /\ o.out /= <<>> /\ OnlyFc(o.out) /\ o.ind = <<>>
<1> DEFINE m == [l EXCEPT !.fcPending = NoFc]
           g == FlowControl("CTS", Config)
<1>1. o.link = m /\ o.out = <<g>> /\ o.ind = <<>>
  BY DEF RxSendFlowControl, Unchanged
<1>2. g.pci = "FC"
  BY DEF FlowControl
<1>3. LinkOK(m) /\ m.rx = l.rx
  BY DEF LinkOK
<1> HIDE DEF m, g
<1>4. o.out /= <<>>
  BY <1>1, OneElement, Zenon
<1>5. OnlyFc(o.out)
  BY <1>1, <1>2, Zenon DEF OnlyFc
<1> QED
  BY <1>1, <1>3, <1>4, <1>5

\* The indications of an interrupted reception and then of the call itself.
LEMMA FailsThen ==
    ASSUME NEW p, NEW q, Fails(p)
    PROVE  /\ q = <<>> => Fails(p \o q)
           /\ \A b : (\E i : i.result = "OK" /\ i.data[1] = b /\ q = <<i>>) => Gives(p \o q, b)
<1>1. CASE p = <<>>
  <2>1. IsSeq(q) => p \o q = q
    BY <1>1, WithNothing
  <2> QED
    BY <2>1, NoElement, OneElement DEF Fails, Gives
<1>2. ASSUME NEW e, e.result /= "OK", p = <<e>> PROVE q = <<>> => Fails(p \o q)
  <2>1. p \o <<>> = p
    BY <1>2, OneElement, WithNothing
  <2> QED
    BY <1>2, <2>1 DEF Fails
<1>3. ASSUME NEW e, e.result /= "OK", p = <<e>>, NEW i, i.result = "OK", q = <<i>>
      PROVE  Gives(p \o q, i.data[1])
  <2>1. p \o q = <<e, i>>
    BY <1>3, TwoElements
  <2> QED
    BY <1>3, <2>1 DEF Gives
<1> QED
  BY <1>1, <1>2, <1>3 DEF Fails

\* A response of one frame is received whatever the link was about.
LEMMA WholeTaken ==
    ASSUME NEW l, LinkOK(l), NEW b, NEW f, IsWhole(f, b), Config.rxSize \in Nat,
           NEW o, o = RxOnSingleFrame(l, Config, f)
    PROVE  LinkOK(o.link) /\ o.out = <<>> /\ Gives(o.ind, b)
<1> DEFINE i == RxInterrupt(l)
           n == f.length
           d == SubSeq(f.data, 1, n)
           rx == [i.link.rx EXCEPT !.data = d, !.length = n]
           m == [i.link EXCEPT !.rx = rx]
           p == RxFinish(m, "OK")
<1>1. LinkOK(i.link) /\ i.link.rx.state = "IDLE" /\ i.out = <<>> /\ Fails(i.ind)
  BY Interrupts
<1>2. n \in Nat \ {0} /\ ~(n > SfMax) /\ ~(n > f.dlc - 1) /\ ~(n > Config.rxSize) /\ n <= Len(f.data)
  BY Sizes DEF IsWhole
<1>3. IsSeq(d) /\ Len(d) = n /\ d[1] = b
  BY <1>2, PartOf DEF IsWhole
<1>4. o = Then(i, p)
  <2> DEFINE k == [i.link EXCEPT !.rx.data = d, !.rx.length = n]
  <2>1. o = Then(i, RxFinish(k, "OK"))
    BY <1>2 DEF RxOnSingleFrame
  <2>2. k = m
    <3>1. DOMAIN i.link = {"tx", "rx", "fcPending"}
      BY <1>1 DEF LinkOK
    <3> HIDE DEF i
    <3> QED
      BY <3>1, ZenonT(30)
  <2> QED
    BY <2>1, <2>2
<1> HIDE DEF i, d, n
<1>5. DOMAIN rx = RxFields /\ rx.state = "IDLE" /\ rx.data = d /\ rx.length = n
  BY <1>1 DEF LinkOK, RxFields
<1> HIDE DEF rx
<1>6. LinkOK(m) /\ m.rx = rx
  BY <1>1, <1>5, NewRx
<1> HIDE DEF m
<1>7. /\ LinkOK(p.link) /\ p.out = <<>>
      /\ \E j : j.result = "OK" /\ j.data[1] = b /\ p.ind = <<j>>
  BY <1>2, <1>3, <1>5, <1>6, RxSucceeds DEF Finished
<1> HIDE DEF p
<1>8. o.link = p.link /\ o.out = i.out \o p.out /\ o.ind = i.ind \o p.ind
  BY <1>4, ThenIs, ZenonT(30)
<1>9. o.out = <<>>
  BY <1>1, <1>7, <1>8, NoElement, WithNothing
<1> QED
  BY <1>1, <1>7, <1>8, <1>9, FailsThen

\* The call began the reception of a message with the First Frame f.
Begun(o, f, b) ==
    /\ LinkOK(o.link) /\ o.out /= <<>> /\ OnlyFc(o.out) /\ Fails(o.ind)
    /\ o.link.rx.state = "RECEIVING" /\ Holds(o.link.rx, b)
    /\ o.link.rx.length = f.length /\ o.link.rx.offset = FfData
    /\ o.link.rx.seq = 1 /\ o.link.rx.timer = 0

\* A First Frame begins a reception, and the Flow Control asks for the rest.
LEMMA FirstTaken ==
    ASSUME NEW l, LinkOK(l), NEW b, NEW f, IsFirst(f, b), Config.rxSize \in Nat,
           NEW o, o = RxOnFirstFrame(l, Config, f, TRUE)
    PROVE  Begun(o, f, b)
<1> DEFINE i == RxInterrupt(l)
           rx == RxBegun(f)
           m == [i.link EXCEPT !.rx = rx]
           p == RxSendFlowControl(m, Config, "CTS", TRUE)
<1>1. LinkOK(i.link) /\ i.out = <<>> /\ Fails(i.ind)
  BY Interrupts
<1>2. o = Then(i, p)
  <2>1. /\ ~(f.dlc < CanDl \/ f.length <= SfMax) /\ f.dlc >= CanDl /\ f.length > SfMax
        /\ ~(f.length > Config.rxSize)
    BY Sizes DEF IsFirst
  <2> QED
    BY <2>1 DEF RxOnFirstFrame
<1>3. /\ DOMAIN rx = RxFields /\ rx.state = "RECEIVING" /\ rx.length = f.length
      /\ rx.offset = FfData /\ rx.data = f.data /\ rx.seq = 1 /\ rx.timer = 0
  BY DEF RxBegun, IdleRx, RxFields
<1> HIDE DEF rx, i
<1>4. LinkOK(m) /\ m.rx = rx
  BY <1>1, <1>3, NewRx
<1> HIDE DEF m
<1>5. LinkOK(p.link) /\ p.link.rx = m.rx /\ p.out /= <<>> /\ OnlyFc(p.out) /\ p.ind = <<>>
  BY <1>4, FcGoes
<1> HIDE DEF p
<1>6. o.link = p.link /\ o.out = i.out \o p.out /\ o.ind = i.ind \o p.ind
  BY <1>2, ThenIs, ZenonT(30)
<1>7. o.out = p.out /\ Fails(o.ind)
  <2>1. IsSeq(p.out)
    BY <1>5, OneElement DEF OnlyFc
  <2>2. o.out = p.out
    BY <1>1, <1>6, <2>1, WithNothing
  <2>3. Fails(i.ind) /\ p.ind = <<>> /\ o.ind = i.ind \o p.ind
    BY <1>1, <1>5, <1>6
  <2>4. Fails(o.ind)
    BY <2>3, FailsThen
  <2> QED
    BY <2>2, <2>4
<1>8. Holds(rx, b)
  BY <1>3, Sizes DEF Holds, IsFirst
<1> QED
  BY <1>3, <1>4, <1>5, <1>6, <1>7, <1>8 DEF Begun

-----------------------------------------------------------------------------
(* The Consecutive Frames of a response.                                   *)

Rest(q) == IsSeq(q) /\ q /= <<>> /\ \A k \in 1 .. Len(q) : IsRest(q[k])

\* Only the last of the frames q completes a reception.
LastCompletes(rx, q, b) ==
    rx.state = "RECEIVING" => Holds(rx, b) /\ rx.offset + (Len(q) - 1) * CfMax < rx.length

\* The frames q are the next ones, and all that lack.
AllThere(rx, q) ==
    /\ rx.state = "RECEIVING" /\ rx.timer = 0
    /\ rx.length <= rx.offset + Len(q) * CfMax
    /\ \E n \in Nat : /\ rx.seq = n % SeqMod
                      /\ \A k \in 1 .. Len(q) : q[k].sn = (n + k - 1) % SeqMod

\* They differ in the count of the block at most.
Alike(x, y) ==
    /\ DOMAIN x = RxFields /\ x.state = y.state /\ x.length = y.length /\ x.offset = y.offset
    /\ x.data = y.data /\ x.seq = y.seq /\ x.timer = y.timer

GoesOn(rx, q, b, clean) == Rest(q) /\ LastCompletes(rx, q, b) /\ (clean => AllThere(rx, q))

\* One frame more.
LEMMA OneMore ==
    ASSUME NEW k \in Nat, NEW c \in Nat
    PROVE  k * c \in Nat /\ (k + 1) * c = k * c + c
OBVIOUS

\* The remainder of a division, and its steps: sequence numbers add up modulo
\* SeqMod.
LEMMA Remainder ==
    ASSUME NEW q \in Nat, NEW m \in Nat \ {0}, NEW r \in 0 .. m - 1, NEW a \in Nat, a = m * q + r
    PROVE  a % m = r
OBVIOUS

LEMMA Divided ==
    ASSUME NEW a \in Nat, NEW m \in Nat \ {0}
    PROVE  \E q \in Nat, r \in 0 .. m - 1 : a = m * q + r
<1>1. a \div m \in Nat /\ a % m \in 0 .. m - 1
  OBVIOUS
<1>2. a = m * (a \div m) + (a % m)
  OBVIOUS
<1> QED
  BY <1>1, <1>2

LEMMA RemainderOfSum ==
    ASSUME NEW a \in Nat, NEW n \in Nat, NEW m \in Nat \ {0}
    PROVE  ((a % m) + n) % m = (a + n) % m
<1>1. PICK q \in Nat, r \in 0 .. m - 1 : a = m * q + r
  BY Divided
<1>2. a % m = r
  BY <1>1, Remainder
<1>3. PICK p \in Nat, s \in 0 .. m - 1 : r + n = m * p + s
  <2>1. r + n \in Nat
    OBVIOUS
  <2> QED
    BY <2>1, Divided
<1>4. a + n = m * (q + p) + s
  <2>1. m * (q + p) = m * q + m * p
    OBVIOUS
  <2>2. m * q \in Nat /\ m * p \in Nat
    OBVIOUS
  <2> QED
    BY <1>1, <1>3, <2>1, <2>2
<1>5. (a + n) % m = s
  <2> DEFINE x == a + n
             y == q + p
  <2>1. x \in Nat /\ y \in Nat /\ x = m * y + s
    BY <1>4
  <2> HIDE DEF x, y
  <2>2. x % m = s
    BY <2>1, Remainder
  <2> QED
    BY <2>2 DEF x
<1>6. (r + n) % m = s
  <2> DEFINE x == r + n
  <2>1. x \in Nat /\ x = m * p + s
    BY <1>3
  <2> HIDE DEF x
  <2>2. x % m = s
    BY <2>1, Remainder
  <2> QED
    BY <2>2 DEF x
<1> QED
  BY <1>2, <1>5, <1>6

\* A Consecutive Frame adds its bytes to the reception.
LEMMA RestAdds ==
    ASSUME NEW rx, DOMAIN rx = RxFields, rx.state = "RECEIVING", NEW b, Holds(rx, b),
           NEW f, IsRest(f), NEW got, got = RxTaken(rx, f),
           NEW c, c = CfChunkExpected(rx)
    PROVE  /\ c \in 1 .. CfMax /\ c = (IF rx.length - rx.offset <= CfMax THEN rx.length - rx.offset ELSE CfMax)
           /\ DOMAIN got = RxFields /\ got.state = "RECEIVING" /\ got.length = rx.length
           /\ got.offset = rx.offset + c /\ got.seq = (rx.seq + 1) % SeqMod /\ got.timer = 0
           /\ IsSeq(got.data) /\ Len(got.data) = got.offset /\ got.data[1] = b
<1>1. c \in 1 .. CfMax /\ c = (IF rx.length - rx.offset <= CfMax THEN rx.length - rx.offset ELSE CfMax)
  BY Sizes DEF CfChunkExpected, Least, Holds
<1> DEFINE d == SubSeq(f.data, 1, c)
           e == rx.data \o d
<1>2. IsSeq(d) /\ Len(d) = c
  BY <1>1, PartOf, Sizes DEF IsRest
<1>3. got = [rx EXCEPT !.data = e, !.offset = @ + c, !.seq = (@ + 1) % SeqMod, !.timer = 0]
  BY DEF RxTaken
<1> HIDE DEF d
<1>4. IsSeq(e) /\ Len(e) = rx.offset + c /\ e[1] = b
  <2>1. IsSeq(rx.data) /\ Len(rx.data) = rx.offset /\ 1 \in 1 .. Len(rx.data) /\ rx.data[1] = b
    BY DEF Holds
  <2> QED
    BY <1>2, <2>1, Concatenated
<1> HIDE DEF e
<1>5. /\ DOMAIN got = RxFields /\ got.state = "RECEIVING" /\ got.length = rx.length
      /\ got.offset = rx.offset + c /\ got.seq = (rx.seq + 1) % SeqMod /\ got.timer = 0
      /\ got.data = e
  BY <1>3 DEF RxFields
<1> QED
  BY <1>1, <1>4, <1>5

\* The call left the reception x under way.
Kept(o, x) == LinkOK(o.link) /\ OnlyFc(o.out) /\ o.ind = <<>> /\ Alike(o.link.rx, x)

\* What the call does with a frame that is the next one.
LEMMA RestKept ==
    ASSUME NEW l, LinkOK(l), NEW got, DOMAIN got = RxFields, got.state = "RECEIVING",
           NEW o, o \in {Unchanged([l EXCEPT !.rx = got]),
                         Unchanged([l EXCEPT !.rx = [got EXCEPT !.blockCount = l.rx.blockCount + 1]]),
                         RxSendFlowControl([l EXCEPT !.rx = [got EXCEPT !.blockCount = 0]],
                                           Config, "CTS", TRUE)}
    PROVE  Kept(o, got)
<1>1. ASSUME NEW x, Alike(x, got), NEW m, m = [l EXCEPT !.rx = x]
      PROVE  LinkOK(m) /\ Alike(m.rx, got)
  BY <1>1, NewRx DEF Alike
<1> DEFINE x1 == [got EXCEPT !.blockCount = l.rx.blockCount + 1]
           x2 == [got EXCEPT !.blockCount = 0]
           m0 == [l EXCEPT !.rx = got]
           m1 == [l EXCEPT !.rx = x1]
           m2 == [l EXCEPT !.rx = x2]
<1>2. o \in {Unchanged(m0), Unchanged(m1), RxSendFlowControl(m2, Config, "CTS", TRUE)}
  OBVIOUS
<1>3. Alike(got, got) /\ Alike(x1, got) /\ Alike(x2, got)
  BY DEF Alike, RxFields
<1> HIDE DEF x1, x2
<1>4. LinkOK(m0) /\ Alike(m0.rx, got)
  BY <1>1, <1>3
<1>5. LinkOK(m1) /\ Alike(m1.rx, got)
  BY <1>1, <1>3
<1>6. LinkOK(m2) /\ Alike(m2.rx, got)
  BY <1>1, <1>3
<1> HIDE DEF m0, m1, m2
<1>7. ASSUME NEW m, LinkOK(m), Alike(m.rx, got), o = Unchanged(m)
      PROVE  Kept(o, got)
  <2>1. o.link = m /\ o.out = <<>> /\ o.ind = <<>>
    BY <1>7 DEF Unchanged
  <2> QED
    BY <1>7, <2>1 DEF OnlyFc, Kept
<1>8. CASE o = RxSendFlowControl(m2, Config, "CTS", TRUE)
  <2>1. LinkOK(o.link) /\ o.link.rx = m2.rx /\ OnlyFc(o.out) /\ o.ind = <<>>
    BY <1>6, <1>8, FcGoes
  <2> QED
    BY <1>6, <2>1 DEF Kept
<1> QED
  BY <1>2, <1>4, <1>5, <1>7, <1>8

\* The frames behind the one that was taken go on with what it left.
LEMMA RestMoves ==
    ASSUME NEW rx, DOMAIN rx = RxFields, rx.state = "RECEIVING", NEW q, NEW b,
           NEW clean \in BOOLEAN, GoesOn(rx, q, b, clean), Len(q) > 1,
           NEW got, got = RxTaken(rx, q[1]), NEW x, Alike(x, got)
    PROVE  got.offset < rx.length /\ GoesOn(x, Tail(q), b, clean)
<1> DEFINE c == CfChunkExpected(rx)
           t == Tail(q)
           n == Len(q)
<1>1. /\ IsSeq(q) /\ n \in Nat /\ n > 1 /\ q /= <<>> /\ IsRest(q[1]) /\ Holds(rx, b)
      /\ rx.offset + (n - 1) * CfMax < rx.length
  <2>1. IsSeq(q) /\ q /= <<>> /\ n \in Nat /\ 1 \in 1 .. n
    BY TailOf DEF GoesOn, Rest
  <2> QED
    BY <2>1 DEF GoesOn, Rest, LastCompletes
<1>2. /\ IsSeq(t) /\ Len(t) = n - 1 /\ \A k \in 1 .. n - 1 : t[k] = q[k + 1]
  BY <1>1, TailOf
<1>3. /\ c \in 1 .. CfMax /\ c = (IF rx.length - rx.offset <= CfMax THEN rx.length - rx.offset ELSE CfMax)
      /\ DOMAIN got = RxFields /\ got.state = "RECEIVING" /\ got.length = rx.length
      /\ got.offset = rx.offset + c /\ got.seq = (rx.seq + 1) % SeqMod /\ got.timer = 0
      /\ IsSeq(got.data) /\ Len(got.data) = got.offset /\ got.data[1] = b
  BY <1>1, RestAdds
<1>4. /\ x.state = "RECEIVING" /\ x.length = got.length /\ x.offset = got.offset /\ x.data = got.data
      /\ x.seq = got.seq /\ x.timer = 0
  BY <1>3 DEF Alike
<1> HIDE DEF c, t, n
<1>5. /\ rx.length \in Nat /\ rx.offset \in Nat \ {0} /\ CfMax \in Nat \ {0}
      /\ (n - 2) * CfMax \in Nat /\ (n - 1) * CfMax = (n - 2) * CfMax + CfMax
      /\ n * CfMax = (n - 1) * CfMax + CfMax
  <2>1. n - 2 \in Nat /\ n - 1 \in Nat /\ (n - 2) + 1 = n - 1 /\ (n - 1) + 1 = n
    BY <1>1
  <2>2. CfMax \in Nat \ {0}
    BY Sizes
  <2>3. (n - 2) * CfMax \in Nat /\ ((n - 2) + 1) * CfMax = (n - 2) * CfMax + CfMax
    BY <2>1, <2>2, OneMore
  <2>4. ((n - 1) + 1) * CfMax = (n - 1) * CfMax + CfMax
    BY <2>1, <2>2, OneMore
  <2> QED
    BY <1>1, <2>1, <2>2, <2>3, <2>4 DEF Holds
<1> DEFINE y == (n - 2) * CfMax
           z == (n - 1) * CfMax
           w == n * CfMax
<1>6. y \in Nat /\ z = y + CfMax /\ w = z + CfMax /\ rx.offset + z < rx.length
  BY <1>1, <1>5
<1>7. (Len(t) - 1) * CfMax = y /\ Len(t) * CfMax = z
  <2>1. Len(t) - 1 = n - 2
    BY <1>1, <1>2
  <2> QED
    BY <1>2, <2>1
<1> HIDE DEF y, z, w
<1>8. c = CfMax /\ got.offset = rx.offset + CfMax /\ got.offset + y < rx.length /\ got.offset < rx.length
  <2>1. rx.length \in Nat /\ rx.offset \in Nat /\ CfMax \in Nat \ {0}
    BY <1>5
  <2>2. rx.length - rx.offset > CfMax /\ rx.offset + CfMax + y < rx.length
    BY <1>6, <2>1
  <2>3. c = CfMax
    BY <1>3, <2>1, <2>2
  <2>4. got.offset = rx.offset + CfMax
    BY <1>3, <2>3
  <2> QED
    BY <1>6, <2>1, <2>2, <2>3, <2>4
<1>9. Rest(t)
  <2>1. t /= <<>>
    BY <1>1, <1>2, NoElement
  <2>2. ASSUME NEW k \in 1 .. Len(t) PROVE IsRest(t[k])
    <3>1. k \in 1 .. n - 1 /\ k + 1 \in 1 .. n
      BY <1>1, <1>2
    <3> QED
      BY <1>2, <3>1 DEF GoesOn, Rest, n
  <2> QED
    BY <1>2, <2>1, <2>2 DEF Rest
<1>10. LastCompletes(x, t, b)
  <2>1. x.offset = got.offset /\ x.length = rx.length /\ x.data = got.data
    BY <1>3, <1>4
  <2>2. x.offset + (Len(t) - 1) * CfMax < x.length
    BY <1>7, <1>8, <2>1
  <2>3. rx.length \in Nat /\ got.offset \in Nat \ {0} /\ got.offset < rx.length
    BY <1>5, <1>8
  <2>4. IsSeq(got.data) /\ Len(got.data) = got.offset /\ got.data[1] = b
    BY <1>3
  <2> QED
    BY <2>1, <2>2, <2>3, <2>4 DEF LastCompletes, Holds
<1>11. ASSUME clean PROVE AllThere(x, t)
  <2>1. rx.length <= rx.offset + w
    BY <1>11 DEF GoesOn, AllThere, w, n
  <2>2. x.length <= x.offset + Len(t) * CfMax
    BY <1>3, <1>4, <1>5, <1>6, <1>7, <1>8, <2>1
  <2>3. PICK i \in Nat : rx.seq = i % SeqMod /\ \A k \in 1 .. n : q[k].sn = (i + k - 1) % SeqMod
    BY <1>11 DEF GoesOn, AllThere, n
  <2>4. x.seq = (i + 1) % SeqMod
    BY <1>3, <1>4, <2>3, RemainderOfSum, Sizes
  <2>5. ASSUME NEW k \in 1 .. Len(t) PROVE t[k].sn = ((i + 1) + k - 1) % SeqMod
    <3>1. k \in 1 .. n - 1 /\ k + 1 \in 1 .. n /\ i + (k + 1) - 1 = (i + 1) + k - 1
      BY <1>1, <1>2
    <3>2. q[k + 1].sn = (i + (k + 1) - 1) % SeqMod
      BY <2>3, <3>1
    <3> QED
      BY <1>2, <3>1, <3>2
  <2> QED
    BY <1>4, <2>2, <2>4, <2>5 DEF AllThere
<1> QED
  BY <1>8, <1>9, <1>10, <1>11 DEF GoesOn, t

\* A Consecutive Frame: the message is complete, or the reception goes on with
\* the other frames, or it has failed.
LEMMA RestTaken ==
    ASSUME NEW l, LinkOK(l), NEW q, NEW b, NEW clean \in BOOLEAN, GoesOn(l.rx, q, b, clean),
           NEW o, o = RxOnConsecutiveFrame(l, Config, q[1], TRUE)
    PROVE  /\ LinkOK(o.link) /\ OnlyFc(o.out)
           /\ \/ Tail(q) = <<>> /\ Gives(o.ind, b)
              \/ Tail(q) = <<>> /\ ~clean /\ Fails(o.ind)
              \/ Fails(o.ind) /\ GoesOn(o.link.rx, Tail(q), b, clean)
<1> DEFINE rx == l.rx
           f == q[1]
           got == RxTaken(rx, f)
           n == Len(q)
           c == CfChunkExpected(rx)
<1>1. /\ IsSeq(q) /\ q /= <<>> /\ n \in Nat \ {0} /\ IsRest(f)
      /\ IsSeq(Tail(q)) /\ Len(Tail(q)) = n - 1
      /\ \A k \in 1 .. n - 1 : Tail(q)[k] = q[k + 1]
      /\ Tail(q) = <<>> <=> n = 1
  <2>1. IsSeq(q) /\ q /= <<>>
    BY DEF GoesOn, Rest
  <2> QED
    BY <2>1, TailOf DEF GoesOn, Rest
<1>2. n = 1 => Tail(q) = <<>>
  BY <1>1
<1>3. DOMAIN rx = RxFields /\ rx.state \in {"IDLE", "RECEIVING"}
  BY DEF LinkOK
<1>4. ASSUME ~clean, OnlyFc(o.out), LinkOK(o.link), Fails(o.ind), o.link.rx.state = "IDLE"
      PROVE  \/ Tail(q) = <<>> /\ ~clean /\ Fails(o.ind)
             \/ Fails(o.ind) /\ GoesOn(o.link.rx, Tail(q), b, clean)
  <2>1. CASE n = 1
    BY <1>2, <1>4, <2>1
  <2>2. CASE n /= 1
    <3>1. Tail(q) /= <<>>
      BY <1>1, <2>2
    <3>2. ASSUME NEW k \in 1 .. Len(Tail(q)) PROVE IsRest(Tail(q)[k])
      <4>1. k \in 1 .. n - 1 /\ k + 1 \in 1 .. n
        BY <1>1
      <4> QED
        BY <1>1, <4>1 DEF GoesOn, Rest
    <3>3. Rest(Tail(q))
      BY <1>1, <3>1, <3>2 DEF Rest
    <3> QED
      BY <1>4, <3>3 DEF GoesOn, LastCompletes
  <2> QED
    BY <2>1, <2>2
<1>5. CASE rx.state /= "RECEIVING"
  <2>1. o.link = l /\ o.out = <<>> /\ o.ind = <<>>
    BY <1>5 DEF RxOnConsecutiveFrame, Unchanged
  <2>2. ~clean
    BY <1>5 DEF GoesOn, AllThere
  <2>3. LinkOK(o.link) /\ OnlyFc(o.out) /\ Fails(o.ind) /\ o.link.rx.state = "IDLE"
    BY <1>3, <1>5, <2>1 DEF OnlyFc, Fails
  <2> QED
    BY <1>4, <2>2, <2>3
<1>6. CASE rx.state = "RECEIVING" /\ ~NextCf(rx, f)
  <2>1. o = RxFinish(l, "ERR_WRONG_SN")
    BY <1>6 DEF RxOnConsecutiveFrame
  <2>2. LinkOK(o.link) /\ o.link.rx = IdleRx /\ o.out = <<>> /\ Fails(o.ind)
    BY <2>1, RxFails
  <2>3. ~clean
    <3> SUFFICES ASSUME clean PROVE FALSE
      OBVIOUS
    <3>1. PICK i \in Nat : rx.seq = i % SeqMod /\ \A k \in 1 .. n : q[k].sn = (i + k - 1) % SeqMod
      BY DEF GoesOn, AllThere
    <3>2. q[1].sn = (i + 1 - 1) % SeqMod /\ i + 1 - 1 = i
      BY <1>1, <3>1
    <3> QED
      BY <1>6, <3>1, <3>2 DEF NextCf
  <2> QED
    BY <1>4, <2>2, <2>3, IdleRxOK DEF OnlyFc
<1>7. CASE rx.state = "RECEIVING" /\ NextCf(rx, f)
  <2>1. Holds(rx, b) /\ rx.offset + (n - 1) * CfMax < rx.length
    BY <1>7 DEF GoesOn, LastCompletes
  <2>2. /\ c \in 1 .. CfMax /\ c = (IF rx.length - rx.offset <= CfMax THEN rx.length - rx.offset ELSE CfMax)
        /\ DOMAIN got = RxFields /\ got.state = "RECEIVING" /\ got.length = rx.length
        /\ got.offset = rx.offset + c /\ got.seq = (rx.seq + 1) % SeqMod /\ got.timer = 0
        /\ IsSeq(got.data) /\ Len(got.data) = got.offset /\ got.data[1] = b
    BY <1>1, <1>3, <1>7, <2>1, RestAdds
  <2>3. ~(c > f.dlc - 1)
    BY <1>1, <2>2, Sizes DEF IsRest
  <2>4. o = IF got.offset >= rx.length THEN RxFinish([l EXCEPT !.rx = got], "OK")
            ELSE IF Config.blockSize = 0 THEN Unchanged([l EXCEPT !.rx = got])
            ELSE IF rx.blockCount + 1 < Config.blockSize
                 THEN Unchanged([l EXCEPT !.rx = [got EXCEPT !.blockCount = rx.blockCount + 1]])
                 ELSE RxSendFlowControl([l EXCEPT !.rx = [got EXCEPT !.blockCount = 0]],
                                        Config, "CTS", TRUE)
    BY <1>7, <2>3 DEF RxOnConsecutiveFrame
  <2>5. CASE got.offset >= rx.length
    <3> DEFINE m == [l EXCEPT !.rx = got]
    <3>1. n = 1
      <4> SUFFICES ASSUME n /= 1 PROVE FALSE
        OBVIOUS
      <4>1. Len(q) > 1 /\ Alike(got, got)
        BY <1>1, <2>2 DEF Alike
      <4>2. got.offset < rx.length
        BY <1>3, <1>7, <4>1, RestMoves
      <4> QED
        BY <2>1, <2>2, <2>5, <4>2 DEF Holds
    <3>2. LinkOK(m) /\ m.rx = got
      BY <2>2, NewRx
    <3>3. o = RxFinish(m, "OK")
      BY <2>4, <2>5, Zenon
    <3> HIDE DEF m, got
    <3>4. /\ m.rx.length \in Nat \ {0} /\ m.rx.length <= Len(m.rx.data)
          /\ IsSeq(m.rx.data) /\ m.rx.data[1] = b
      BY <2>1, <2>2, <2>5, <3>2 DEF Holds
    <3>5. Finished(o, b)
      BY <3>2, <3>3, <3>4, RxSucceeds
    <3> QED
      BY <1>2, <3>1, <3>5 DEF Finished, OnlyFc, Gives
  <2>6. CASE ~(got.offset >= rx.length)
    <3>1. o \in {Unchanged([l EXCEPT !.rx = got]),
                 Unchanged([l EXCEPT !.rx = [got EXCEPT !.blockCount = l.rx.blockCount + 1]]),
                 RxSendFlowControl([l EXCEPT !.rx = [got EXCEPT !.blockCount = 0]],
                                   Config, "CTS", TRUE)}
      BY <2>4, <2>6
    <3>2. Kept(o, got)
      <4>1. DOMAIN got = RxFields /\ got.state = "RECEIVING"
        BY <2>2
      <4> HIDE DEF got
      <4> QED
        BY <3>1, <4>1, RestKept, ZenonT(30)
    <3>3. CASE n > 1
      <4>1. GoesOn(o.link.rx, Tail(q), b, clean)
        BY <1>3, <1>7, <3>2, <3>3, RestMoves DEF Kept
      <4> QED
        BY <3>2, <4>1 DEF Fails, Kept
    <3>4. CASE n = 1
      <4>1. ~clean
        <5> SUFFICES ASSUME clean PROVE FALSE
          OBVIOUS
        <5>1. rx.length <= rx.offset + n * CfMax
          BY DEF GoesOn, AllThere
        <5>2. n * CfMax = CfMax
          BY <3>4, Sizes
        <5> QED
          BY <2>1, <2>2, <2>6, <5>1, <5>2, Sizes DEF Holds
      <4> QED
        BY <1>2, <3>2, <3>4, <4>1 DEF Fails, Kept
    <3>5. n > 1 \/ n = 1
      BY <1>1
    <3> QED
      BY <3>3, <3>4, <3>5
  <2> QED
    BY <2>5, <2>6
<1> QED
  BY <1>3, <1>5, <1>6, <1>7

\* Two calls that receive no message.
LEMMA FailsNothing == Fails(<<>>)
BY DEF Fails

\* A poll ends a reception that waited too long, and sends nothing.
LEMMA Polled ==
    ASSUME NEW l, LinkOK(l), NEW o, o = MainFunction(l, Config, 2, 2)
    PROVE  /\ LinkOK(o.link) /\ o.out = <<>> /\ Fails(o.ind)
           /\ o.link.rx = l.rx \/ (l.rx.timer >= NCr /\ o.link.rx.state = "IDLE")
<1> DEFINE u == Unchanged(l)
           p == RxFinish(l, "ERR_TIMEOUT_CR")
           r == MainReceiver(l, Config, 2)
           v == MainSender(r.link, 2)
<1>1. u.link = l /\ u.out = <<>> /\ u.ind = <<>>
  BY DEF Unchanged
<1>2. LinkOK(p.link) /\ p.link.rx = IdleRx /\ p.out = <<>> /\ Fails(p.ind)
  BY RxFails
<1>3. r = IF l.rx.state = "RECEIVING" /\ l.rx.timer >= NCr THEN Then(u, p) ELSE u
  BY <1>1 DEF MainReceiver, LinkOK
<1> HIDE DEF u, p, r
<1>4. /\ LinkOK(r.link) /\ r.out = <<>> /\ Fails(r.ind)
      /\ r.link.rx = l.rx \/ (l.rx.timer >= NCr /\ r.link.rx.state = "IDLE")
  <2>1. CASE r = u
    BY <1>1, <2>1, FailsNothing
  <2>2. CASE l.rx.timer >= NCr /\ r = Then(u, p)
    <3>1. r.link = p.link /\ r.out = u.out \o p.out /\ r.ind = u.ind \o p.ind
      BY <2>2, ThenIs, Zenon
    <3>2. r.out = <<>> /\ r.ind = p.ind
      <4>1. IsSeq(p.ind)
        BY <1>2, NoElement, OneElement DEF Fails
      <4> QED
        BY <1>1, <1>2, <3>1, <4>1, NoElement, WithNothing
    <3> QED
      BY <1>2, <2>2, <3>1, <3>2, IdleRxOK
  <2> QED
    BY <1>3, <2>1, <2>2
<1>5. v = Unchanged(r.link)
  <2>1. r.link.tx.state = "IDLE"
    BY <1>4 DEF LinkOK, IdleTx
  <2> QED
    BY <2>1 DEF MainSender
<1>6. o = Then(r, v)
  BY DEF MainFunction, r
<1>7. v.link = r.link /\ v.out = <<>> /\ v.ind = <<>>
  BY <1>5 DEF Unchanged
<1> HIDE DEF v
<1>8. o.link = v.link /\ o.out = r.out \o v.out /\ o.ind = r.ind \o v.ind
  BY <1>6, ThenIs, ZenonT(30)
<1>9. o.out = <<>> /\ o.ind = r.ind
  <2>1. IsSeq(r.ind)
    BY <1>4, NoElement, OneElement DEF Fails
  <2> QED
    BY <1>4, <1>7, <1>8, <2>1, NoElement, WithNothing
<1> QED
  BY <1>4, <1>7, <1>8, <1>9

\* Time does not disturb the link.
LEMMA AgedOK == ASSUME NEW l, LinkOK(l) PROVE LinkOK(Aged(l))
<1> DEFINE a == Aged(l)
           t == [l.rx EXCEPT !.timer = IF l.rx.state = "RECEIVING" THEN Least(NCr, @ + 1) ELSE @]
<1>1. l.tx.state = "IDLE"
  BY DEF LinkOK, IdleTx
<1>2. /\ DOMAIN a = {"tx", "rx", "fcPending"} /\ a.fcPending = l.fcPending /\ a.rx = t
      /\ a.tx = [l.tx EXCEPT !.timer = @, !.lastCf = @]
  BY <1>1 DEF Aged, LinkOK
<1>3. a.tx = IdleTx
  BY <1>2 DEF LinkOK, IdleTx
<1>4. DOMAIN t = RxFields /\ t.state = l.rx.state
  BY DEF LinkOK, RxFields
<1> HIDE DEF a, t
<1>5. LinkOK(a)
  BY <1>2, <1>3, <1>4 DEF LinkOK
<1> QED
  BY <1>5 DEF a

\* A request goes out at once, in a Single Frame.
LEMMA Requested ==
    ASSUME NEW l, LinkOK(l), NEW r, NEW o, o = Transmit(l, <<r>>, 2)
    PROVE  LinkOK(o.link) /\ o.out = <<SingleFrame(<<r>>)>>
<1> DEFINE msg == <<r>>
           t == [IdleTx EXCEPT !.msg = msg, !.state = "SEND_FIRST"]
           m == [l EXCEPT !.tx = t]
           p == TxFinish(m, "OK")
           f == SingleFrame(msg)
<1>1. DOMAIN m = {"tx", "rx", "fcPending"} /\ m.tx = t /\ m.rx = l.rx /\ m.fcPending = l.fcPending
  BY DEF LinkOK
<1>2. t.msg = msg /\ Len(msg) <= SfMax
  BY Sizes DEF IdleTx
<1>3. o = TxSendFirst(m, TRUE)
  <2>1. o = TxSendFirst(m, 2 > 0)
    BY Zenon DEF Transmit
  <2>2. (2 > 0) = TRUE
    OBVIOUS
  <2> QED
    BY <2>1, <2>2, Zenon
<1>4. o = [p EXCEPT !.out = <<f>>]
  <2>1. m.tx.msg = msg /\ Len(m.tx.msg) <= SfMax
    BY <1>1, <1>2
  <2> HIDE DEF m
  <2> QED
    BY <1>3, <2>1 DEF TxSendFirst
<1> HIDE DEF m, t, f
<1>5. /\ p.link = [m EXCEPT !.tx = IdleTx]
      /\ DOMAIN p = {"link", "out", "ind", "conf"}
  BY DEF TxFinish, Unchanged
<1> HIDE DEF p
<1>6. o.link = [m EXCEPT !.tx = IdleTx] /\ o.out = <<f>>
  BY <1>4, <1>5
<1>7. LinkOK(o.link)
  <2> DEFINE n == [m EXCEPT !.tx = IdleTx]
  <2>1. DOMAIN n = {"tx", "rx", "fcPending"} /\ n.tx = IdleTx /\ n.rx = l.rx /\ n.fcPending = l.fcPending
    BY <1>1
  <2> HIDE DEF n
  <2>2. LinkOK(n)
    BY <2>1 DEF LinkOK
  <2> QED
    BY <1>6, <2>2 DEF n
<1> QED
  BY <1>6, <1>7 DEF f

-----------------------------------------------------------------------------
(* What is under way to the tester: the ring's frames and those of the bus. *)

Pipe == Waiting \o wire

\* One of the frames q is missing in r.
Dropped(q, r) ==
    /\ IsSeq(r) /\ Len(q) = Len(r) + 1
    /\ \A k \in 1 .. Len(r) : \E j \in 1 .. Len(q) : r[k] = q[j]

\* The ring comes before the bus.
LEMMA PipeIs ==
    ASSUME RingInv, IsSeq(wire)
    PROVE  /\ IsSeq(Waiting) /\ IsSeq(Pipe) /\ Len(Pipe) = Len(Waiting) + Len(wire)
           /\ Len(Waiting) \in Nat /\ Len(wire) \in Nat
           /\ \A k \in 1 .. Len(Waiting) : Pipe[k] = Waiting[k]
           /\ \A k \in 1 .. Len(wire) : Pipe[Len(Waiting) + k] = wire[k]
<1>1. IsSeq(Waiting)
  BY WaitingSeq DEF WaitingIsSeq, IsSeq
<1> QED
  BY <1>1, Indices, Concatenated DEF Pipe

LEMMA PipeEmpty ==
    ASSUME RingInv, IsSeq(wire)
    PROVE  Pipe = <<>> <=> Waiting = <<>> /\ wire = <<>>
<1>1. /\ Pipe = <<>> <=> Len(Pipe) = 0
      /\ Waiting = <<>> <=> Len(Waiting) = 0
      /\ wire = <<>> <=> Len(wire) = 0
  BY PipeIs, Emptiness
<1> QED
  BY <1>1, PipeIs

\* Without its first frame.
LEMMA TailConcat ==
    ASSUME NEW s, IsSeq(s), s /= <<>>, NEW t, IsSeq(t)
    PROVE  s \o t /= <<>> /\ Head(s \o t) = Head(s) /\ Tail(s \o t) = Tail(s) \o t
<1>1. PICK S : s \in Seq(S)
  BY DEF IsSeq
<1>2. PICK T : t \in Seq(T)
  BY DEF IsSeq
<1> DEFINE U == S \cup T
           v == s \o t
           w == Tail(s) \o t
<1>3. s \in Seq(U) /\ t \in Seq(U)
  BY <1>1, <1>2
<1> HIDE DEF U
<1>4. /\ IsSeq(v) /\ Len(v) = Len(s) + Len(t) /\ Len(s) \in Nat \ {0} /\ Len(t) \in Nat
      /\ \A k \in 1 .. Len(s) : v[k] = s[k]
      /\ \A k \in 1 .. Len(t) : v[Len(s) + k] = t[k]
  BY Concatenated, TailOf, Indices
<1>5. /\ IsSeq(Tail(s)) /\ Len(Tail(s)) = Len(s) - 1 /\ Head(s) = s[1]
      /\ \A k \in 1 .. Len(s) - 1 : Tail(s)[k] = s[k + 1]
  BY TailOf
<1>6. /\ IsSeq(w) /\ Len(w) = Len(s) - 1 + Len(t)
      /\ \A k \in 1 .. Len(s) - 1 : w[k] = Tail(s)[k]
      /\ \A k \in 1 .. Len(t) : w[Len(s) - 1 + k] = t[k]
  BY <1>5, Concatenated
<1> HIDE DEF v, w
<1>7. v /= <<>>
  BY <1>4, NoElement
<1>8. /\ IsSeq(Tail(v)) /\ Len(Tail(v)) = Len(v) - 1 /\ Head(v) = v[1]
      /\ \A k \in 1 .. Len(v) - 1 : Tail(v)[k] = v[k + 1]
  BY <1>4, <1>7, TailOf
<1>9. ASSUME NEW k \in 1 .. Len(w) PROVE Tail(v)[k] = w[k]
  <2>1. Tail(v)[k] = v[k + 1]
    BY <1>4, <1>6, <1>8
  <2>2. CASE k <= Len(s) - 1
    <3>1. k \in 1 .. Len(s) - 1 /\ k + 1 \in 1 .. Len(s)
      BY <1>4, <1>6, <2>2
    <3> QED
      BY <1>4, <1>5, <1>6, <2>1, <3>1
  <2>3. CASE k > Len(s) - 1
    <3> DEFINE j == k + 1 - Len(s)
    <3>1. j \in 1 .. Len(t) /\ k + 1 = Len(s) + j /\ k = Len(s) - 1 + j
      BY <1>4, <1>6, <2>3
    <3> HIDE DEF j
    <3>2. v[Len(s) + j] = t[j] /\ w[Len(s) - 1 + j] = t[j]
      BY <1>4, <1>6, <3>1
    <3> QED
      BY <2>1, <3>1, <3>2
  <2> QED
    BY <1>4, <1>6, <2>2, <2>3
<1>10. Tail(v) = w
  <2>1. Len(Tail(v)) = Len(w)
    BY <1>4, <1>6, <1>8
  <2> QED
    BY <1>6, <1>8, <1>9, <2>1, SameSeq
<1>11. Head(v) = Head(s)
  <2>1. 1 \in 1 .. Len(s)
    BY <1>4
  <2> QED
    BY <1>4, <1>5, <1>8, <2>1
<1> QED
  BY <1>7, <1>10, <1>11 DEF v, w

\* The tail of a sequence, put behind another one.
LEMMA DroppedBehind ==
    ASSUME NEW s, IsSeq(s), NEW t, IsSeq(t), t /= <<>>
    PROVE  Dropped(s \o t, s \o Tail(t))
<1> DEFINE q == s \o t
           r == s \o Tail(t)
           m == Len(s)
           n == Len(t)
<1>1. /\ IsSeq(Tail(t)) /\ n \in Nat \ {0} /\ Len(Tail(t)) = n - 1 /\ m \in Nat
      /\ \A k \in 1 .. n - 1 : Tail(t)[k] = t[k + 1]
  BY TailOf, Indices
<1>2. /\ IsSeq(q) /\ Len(q) = m + n
      /\ \A k \in 1 .. m : q[k] = s[k]
      /\ \A k \in 1 .. n : q[m + k] = t[k]
  BY Concatenated
<1>3. /\ IsSeq(r) /\ Len(r) = m + (n - 1)
      /\ \A k \in 1 .. m : r[k] = s[k]
      /\ \A k \in 1 .. n - 1 : r[m + k] = Tail(t)[k]
  BY <1>1, Concatenated
<1> HIDE DEF q, r, m, n
<1>4. ASSUME NEW k \in 1 .. Len(r) PROVE \E j \in 1 .. Len(q) : r[k] = q[j]
  <2>1. CASE k <= m
    BY <1>1, <1>2, <1>3, <2>1
  <2>2. CASE k > m
    <3> DEFINE i == k - m
    <3>1. i \in 1 .. n - 1 /\ i + 1 \in 1 .. n /\ k = m + i /\ m + (i + 1) \in 1 .. Len(q)
      BY <1>1, <1>2, <1>3, <2>2
    <3> HIDE DEF i
    <3>2. r[k] = t[i + 1] /\ q[m + (i + 1)] = t[i + 1]
      BY <1>1, <1>2, <1>3, <3>1
    <3> QED
      BY <3>1, <3>2
  <2> QED
    BY <1>1, <1>3, <2>1, <2>2
<1>5. Len(q) = Len(r) + 1
  BY <1>1, <1>2, <1>3
<1> QED
  BY <1>3, <1>4, <1>5 DEF Dropped, q, r

\* A frame that moves from the head of one sequence to the end of the other.
LEMMA MovedOver ==
    ASSUME NEW s, IsSeq(s), NEW t, IsSeq(t), t /= <<>>
    PROVE  Append(s, Head(t)) \o Tail(t) = s \o t
<1> DEFINE a == Append(s, Head(t))
           q == s \o t
           r == a \o Tail(t)
           m == Len(s)
           n == Len(t)
<1>1. /\ IsSeq(Tail(t)) /\ n \in Nat \ {0} /\ Len(Tail(t)) = n - 1 /\ m \in Nat /\ Head(t) = t[1]
      /\ \A k \in 1 .. n - 1 : Tail(t)[k] = t[k + 1]
  BY TailOf, Indices
<1>2. /\ IsSeq(q) /\ Len(q) = m + n
      /\ \A k \in 1 .. m : q[k] = s[k]
      /\ \A k \in 1 .. n : q[m + k] = t[k]
  BY Concatenated
<1>3. IsSeq(a) /\ Len(a) = m + 1 /\ (\A k \in 1 .. m : a[k] = s[k]) /\ a[m + 1] = Head(t)
  BY Appended
<1> HIDE DEF a
<1>4. /\ IsSeq(r) /\ Len(r) = (m + 1) + (n - 1)
      /\ \A k \in 1 .. m + 1 : r[k] = a[k]
      /\ \A k \in 1 .. n - 1 : r[(m + 1) + k] = Tail(t)[k]
  <2>1. IsSeq(a) /\ IsSeq(Tail(t))
    BY <1>1, <1>3
  <2>2. /\ IsSeq(r) /\ Len(r) = Len(a) + Len(Tail(t))
        /\ \A k \in 1 .. Len(a) : r[k] = a[k]
        /\ \A k \in 1 .. Len(Tail(t)) : r[Len(a) + k] = Tail(t)[k]
    BY <2>1, Concatenated
  <2>3. Len(a) = m + 1 /\ Len(Tail(t)) = n - 1
    BY <1>1, <1>3
  <2> HIDE DEF r, m, n
  <2> QED
    BY <2>2, <2>3
<1> HIDE DEF q, r, m, n
<1>5. ASSUME NEW k \in 1 .. Len(r) PROVE r[k] = q[k]
  <2>1. CASE k <= m
    BY <1>1, <1>2, <1>3, <1>4, <2>1
  <2>2. CASE k = m + 1
    <3>1. 1 \in 1 .. n /\ m + 1 \in 1 .. m + 1
      BY <1>1
    <3> QED
      BY <1>1, <1>2, <1>3, <1>4, <2>2, <3>1
  <2>3. CASE k > m + 1
    <3> DEFINE i == k - (m + 1)
    <3>1. i \in 1 .. n - 1 /\ i + 1 \in 1 .. n /\ k = (m + 1) + i /\ k = m + (i + 1)
      BY <1>1, <1>4, <2>3
    <3> HIDE DEF i
    <3>2. r[(m + 1) + i] = t[i + 1] /\ q[m + (i + 1)] = t[i + 1]
      BY <1>1, <1>2, <1>4, <3>1
    <3> QED
      BY <3>1, <3>2
  <2> QED
    BY <1>1, <1>4, <2>1, <2>2, <2>3
<1>6. Len(r) = Len(q)
  BY <1>1, <1>2, <1>4
<1>7. r = q
  BY <1>2, <1>4, <1>5, <1>6, SameSeq
<1> QED
  BY <1>7 DEF q, r, a

\* The frames of the ring are a sequence.
LEMMA WaitingIs == ASSUME RingInv PROVE IsSeq(Waiting)
BY WaitingSeq DEF WaitingIsSeq, IsSeq

\* The interrupt hands a frame on, or drops it.
LEMMA IsrPipe ==
    ASSUME RingInv, RingInv', IsSeq(wire), OnCanFrameIsr
    PROVE  /\ IsSeq(wire')
           /\ \/ Pipe' = Pipe /\ overflow' = overflow
              \/ overflow' /\ Dropped(Pipe, Pipe')
<1>1. wire /= <<>> /\ wire' = Tail(wire)
  BY DEF OnCanFrameIsr
<1>2. IsSeq(wire')
  BY <1>1, TailOf
<1>3. IsSeq(Waiting) /\ IsSeq(Waiting)'
  BY WaitingIs, PTL
<1>4. CASE RingFull
  <2>1. UNCHANGED <<ring, head, tail, pc>> /\ overflow'
    BY <1>4 DEF OnCanFrameIsr
  <2>2. Waiting' = Waiting
    BY <2>1 DEF Waiting
  <2>3. Pipe' = Waiting \o Tail(wire)
    BY <1>1, <2>2 DEF Pipe
  <2> QED
    BY <1>1, <1>2, <1>3, <2>1, <2>3, DroppedBehind DEF Pipe
<1>5. CASE ~RingFull
  <2>1. overflow' = overflow
    BY <1>5 DEF OnCanFrameIsr
  <2>2. Waiting' = Append(Waiting, Head(wire))
    <3> DEFINE a == Append(Waiting, Head(wire))
               n == Used - Taken
               w == Waiting'
    <3>1. IsSeq(a) /\ Len(a) = Len(Waiting) + 1 /\ (\A k \in 1 .. Len(Waiting) : a[k] = Waiting[k])
          /\ a[Len(Waiting) + 1] = Head(wire)
      BY <1>3, Appended
    <3>2. /\ n \in Nat /\ Len(Waiting) = n /\ Len(w) = n + 1
          /\ \A k \in 1 .. n : w[k] = Waiting[k]
          /\ w[n + 1] = Head(wire)
      BY <1>5, IsrAppends
    <3>3. IsSeq(w)
      BY <1>3 DEF IsSeq
    <3> HIDE DEF a, n, w
    <3>4. \A k \in 1 .. Len(a) : a[k] = w[k]
      <4>1. SUFFICES ASSUME NEW k \in 1 .. Len(a) PROVE a[k] = w[k]
        OBVIOUS
      <4>2. k \in 1 .. n \/ k = n + 1
        BY <3>1, <3>2
      <4> QED
        BY <3>1, <3>2, <4>2
    <3>5. a = w
      BY <3>1, <3>2, <3>3, <3>4, SameSeq
    <3> QED
      BY <3>5 DEF a, w
  <2>3. Pipe' = Append(Waiting, Head(wire)) \o Tail(wire)
    BY <1>1, <2>2 DEF Pipe
  <2>4. Pipe' = Pipe
    BY <1>1, <1>3, <2>3, MovedOver DEF Pipe
  <2> QED
    BY <1>2, <2>1, <2>4
<1> QED
  BY <1>4, <1>5

\* The bus loses a frame.
LEMMA LosePipe ==
    ASSUME RingInv, IsSeq(wire), Lose
    PROVE  IsSeq(wire') /\ Dropped(Pipe, Pipe')
<1>1. wire /= <<>> /\ wire' = Tail(wire) /\ UNCHANGED ringVars /\ UNCHANGED pc
  BY DEF Lose
<1>2. Waiting' = Waiting
  BY <1>1 DEF Waiting, ringVars
<1>3. Pipe' = Waiting \o Tail(wire)
  BY <1>1, <1>2 DEF Pipe
<1>4. IsSeq(Waiting)
  BY WaitingIs
<1> QED
  BY <1>1, <1>3, <1>4, DroppedBehind, TailOf DEF Pipe

\* The main loop takes the first of them.
LEMMA TakePipe ==
    ASSUME RingInv, RingInv', IsSeq(wire), Take
    PROVE  /\ Pipe /= <<>> /\ Pipe[1] = ring[tail]
           /\ IsSeq(Tail(Pipe)) /\ IsSeq(Waiting') /\ Tail(Pipe) = Waiting' \o wire
<1>1. Waiting /= <<>> /\ Head(Waiting) = ring[tail] /\ Waiting' = Tail(Waiting)
  <2>1. Fifo!Get
    BY TakeGets
  <2>2. pc' = "advance" /\ UNCHANGED <<ring, tail>>
    BY DEF Take, ringVars
  <2>3. <<ring[tail]>> = <<Head(Waiting)>>
    BY <2>1, <2>2 DEF Fifo!Get
  <2> QED
    BY <2>1, <2>3 DEF Fifo!Get
<1>2. IsSeq(Waiting)
  BY WaitingIs
<1>3. Pipe /= <<>> /\ Head(Pipe) = Head(Waiting) /\ Tail(Pipe) = Tail(Waiting) \o wire
  BY <1>1, <1>2, TailConcat DEF Pipe
<1>4. IsSeq(Pipe)
  BY PipeIs
<1> QED
  BY <1>1, <1>2, <1>3, <1>4, TailOf

\* No other step touches the frames of the ring.
LEMMA WaitingKept ==
    ASSUME RingInv, UNCHANGED ringVars, (pc = "advance") <=> (pc' = "advance")
    PROVE  Waiting' = Waiting
BY RingKept DEF Fifo!vars

\* The slot that is freed held no waiting frame.
LEMMA AdvancePipe ==
    ASSUME RingInv, RingInv', Advance
    PROVE  Pipe' = Pipe /\ wire' = wire
<1>1. Waiting' = Waiting
  BY AdvanceDone DEF Fifo!Done
<1>2. wire' = wire
  BY DEF Advance, ecuVars
<1> QED
  BY <1>1, <1>2 DEF Pipe

-----------------------------------------------------------------------------
(* The frames of the ECU.                                                  *)

\* The Consecutive Frames of a response of so many bytes, numbered from 1.
Numbered(c, length) ==
    /\ IsSeq(c) /\ Len(c) \in Nat \ {0}
    /\ \A k \in 1 .. Len(c) : IsRest(c[k]) /\ c[k].sn = k % SeqMod
    /\ FfData + (Len(c) - 1) * CfMax < length /\ length <= FfData + Len(c) * CfMax

\* A padded payload has the length of the frame and begins with its first byte.
LEMMA PaddedIs ==
    ASSUME NEW bytes, NEW n \in Nat \ {0}
    PROVE  /\ IsSeq(Padded(bytes, n)) /\ Len(Padded(bytes, n)) = n
           /\ 1 <= Len(bytes) => Padded(bytes, n)[1] = bytes[1]
<1> DEFINE p == Padded(bytes, n)
<1>1. p = [k \in 1 .. n |-> IF k <= Len(bytes) THEN bytes[k] ELSE Pad]
  BY DEF Padded
<1> HIDE DEF p
<1> DEFINE S == {p[k] : k \in 1 .. n}
<1>2. p \in [1 .. n -> S]
  BY <1>1
<1>3. p \in Seq(S) /\ Len(p) = n
  BY <1>2
<1>4. 1 <= Len(bytes) => p[1] = bytes[1]
  BY <1>1
<1> QED
  BY <1>3, <1>4 DEF IsSeq, p

\* A response of the ECU.
LEMMA ResponseIs ==
    ASSUME NEW id, NEW a, a.length \in Nat \ {0}
    PROVE  /\ IsSeq(Response(id, a)) /\ Len(Response(id, a)) = a.length
           /\ Response(id, a)[1] = [id |-> id, kind |-> a.kind]
<1> DEFINE b == [id |-> id, kind |-> a.kind]
           msg == Response(id, a)
           n == a.length
<1>1. msg = [k \in 1 .. n |-> b]
  BY DEF Response
<1> HIDE DEF msg, b, n
<1>2. msg \in [1 .. n -> {b}]
  BY <1>1
<1>3. msg \in Seq({b}) /\ Len(msg) = n /\ msg[1] = b
  BY <1>1, <1>2 DEF n
<1> QED
  BY <1>3 DEF IsSeq, msg, b, n

\* How many frames of m bytes n bytes take.
LEMMA RoundedUp ==
    ASSUME NEW n \in Nat \ {0}, NEW m \in Nat \ {0}, NEW c, c = (n + m - 1) \div m
    PROVE  c \in Nat \ {0} /\ (c - 1) * m < n /\ n <= c * m
<1> DEFINE a == n + m - 1
<1>1. a \in Nat /\ n >= 1 /\ m >= 1 /\ a >= m
  OBVIOUS
<1> HIDE DEF a
<1>2. c \in Nat /\ a % m \in 0 .. m - 1 /\ a = m * c + (a % m)
  BY <1>1 DEF a
<1> DEFINE r == a % m
           x == m * c
<1>3. r \in 0 .. m - 1 /\ a = x + r /\ x = c * m
  BY <1>2
<1>4. x \in Nat
  BY <1>2
<1> HIDE DEF r, x
<1>5. x > 0 /\ n <= x /\ x - m < n
  BY <1>1, <1>3, <1>4 DEF a
<1>6. c /= 0
  BY <1>3, <1>5
<1>7. (c - 1) * m = c * m - m
  BY <1>2, <1>6
<1> QED
  BY <1>2, <1>3, <1>5, <1>6, <1>7

\* The frames of a response are those the tester expects.
LEMMA AnswerFrames ==
    ASSUME NEW id, NEW a, Config.rxSize \in Nat, a.length \in 1 .. Config.rxSize
    PROVE  LET msg == Response(id, a)
               b   == [id |-> id, kind |-> a.kind]
           IN  IF a.length <= SfMax THEN IsWhole(SingleFrame(msg), b)
               ELSE IsFirst(FirstFrame(msg), b) /\ Numbered(Rests(msg), a.length)
<1> DEFINE msg == Response(id, a)
           b == [id |-> id, kind |-> a.kind]
           n == a.length
<1>1. IsSeq(msg) /\ Len(msg) = n /\ msg[1] = b /\ n \in Nat \ {0} /\ n <= Config.rxSize
  BY ResponseIs
<1> HIDE DEF msg, b
<1>2. CASE n <= SfMax
  <2> DEFINE f == SingleFrame(msg)
             p == Padded(msg, SfMax)
  <2>1. IsSeq(p) /\ Len(p) = SfMax /\ p[1] = b
    BY <1>1, PaddedIs, Sizes
  <2>2. f.pci = "SF" /\ f.dlc = CanDl /\ f.length = n /\ f.data = p
    BY <1>1 DEF SingleFrame
  <2> HIDE DEF f, p
  <2>3. IsWhole(f, b)
    BY <1>1, <1>2, <2>1, <2>2, Sizes DEF IsWhole
  <2> QED
    BY <1>2, <2>3 DEF msg, b, f
<1>3. CASE ~(n <= SfMax)
  <2> DEFINE f == FirstFrame(msg)
             d == SubSeq(msg, 1, FfData)
             c == Rests(msg)
             m == (n - FfData + CfMax - 1) \div CfMax
  <2>1. IsSeq(d) /\ Len(d) = FfData /\ d[1] = b
    BY <1>1, <1>3, PartOf, Sizes
  <2>2. f.pci = "FF" /\ f.dlc = CanDl /\ f.length = n /\ f.data = d
    BY <1>1 DEF FirstFrame
  <2> HIDE DEF f, d
  <2>3. IsFirst(f, b)
    BY <1>1, <1>3, <2>1, <2>2, Sizes DEF IsFirst
  <2>4. m \in Nat \ {0} /\ (m - 1) * CfMax < n - FfData /\ n - FfData <= m * CfMax
    <3> DEFINE k == n - FfData
    <3>1. k \in Nat \ {0} /\ m = (k + CfMax - 1) \div CfMax /\ CfMax \in Nat \ {0}
      BY <1>1, <1>3, Sizes
    <3> HIDE DEF k, m
    <3>2. m \in Nat \ {0} /\ (m - 1) * CfMax < k /\ k <= m * CfMax
      BY <3>1, RoundedUp
    <3> QED
      BY <3>2 DEF k
  <2>5. c = [k \in 1 .. m |-> ConsecutiveFrame(k % SeqMod, SubSeq(msg, 1, CfMax))]
    BY <1>1 DEF Rests
  <2> HIDE DEF c, m, n
  <2>6. IsSeq(c) /\ Len(c) = m
    <3> DEFINE S == {c[k] : k \in 1 .. m}
    <3>1. c \in [1 .. m -> S]
      BY <2>5
    <3>2. c \in Seq(S) /\ Len(c) = m
      BY <2>4, <3>1
    <3> QED
      BY <3>2 DEF IsSeq
  <2>7. ASSUME NEW k \in 1 .. m PROVE IsRest(c[k]) /\ c[k].sn = k % SeqMod
    <3> DEFINE e == SubSeq(msg, 1, CfMax)
               g == ConsecutiveFrame(k % SeqMod, e)
               p == Padded(e, CfMax)
    <3>1. c[k] = g
      BY <2>5
    <3>2. IsSeq(p) /\ Len(p) = CfMax
      BY PaddedIs, Sizes
    <3>3. g.pci = "CF" /\ g.dlc = CanDl /\ g.sn = k % SeqMod /\ g.data = p
      BY DEF ConsecutiveFrame
    <3> HIDE DEF g, p
    <3> QED
      BY <3>1, <3>2, <3>3 DEF IsRest
  <2>8. FfData + (m - 1) * CfMax < n /\ n <= FfData + m * CfMax
    <3> DEFINE x == (m - 1) * CfMax
               y == m * CfMax
    <3>1. x \in Int /\ y \in Int /\ x < n - FfData /\ n - FfData <= y
      BY <2>4, Sizes
    <3> HIDE DEF x, y
    <3>2. FfData + x < n /\ n <= FfData + y
      BY <1>1, <3>1, Sizes
    <3> QED
      BY <3>2 DEF x, y
  <2>9. Numbered(c, n)
    BY <2>4, <2>6, <2>7, <2>8 DEF Numbered
  <2> QED
    BY <1>3, <2>3, <2>9 DEF msg, b, f, c, n
<1> QED
  BY <1>2, <1>3

-----------------------------------------------------------------------------
(* The invariant of a run in which the ECU answers in time.                *)

\* Nothing was lost so far.
Clean == losses = 0 /\ ~overflow

\* The request of the step, and a byte of the ECU's answer to it.
Request == [id |-> sent, req |-> seq[step].req, functional |-> seq[step].functional]
OwnByte == [id |-> sent, kind |-> answer]

\* Nothing is under way: the step has its response, or will not get one.
Drained ==
    /\ ecu = <<>> /\ Pipe = <<>>
    /\ state = "WAIT" =>
         /\ resp /= None => resp.id = sent
         /\ Clean => IF resp = None THEN answer = None
                     ELSE resp.kind = answer /\ answer /= None

\* The request is under way, or a part of the answer to it, and no other frame.
Asked == ecu = <<Request>> /\ Pipe = <<>> /\ answer = None
WholeSent == \E f : Pipe = <<f>> /\ IsWhole(f, OwnByte)
FirstSent == \E f : /\ Pipe = <<f>> /\ IsFirst(f, OwnByte)
                    /\ Numbered(ecuRest, f.length)
RestSent == ecuRest = <<>> /\ GoesOn(link.rx, Pipe, OwnByte, Clean)
Answered ==
    /\ ecu = <<>> /\ answer /= None /\ OwnByte /= None
    /\ WholeSent \/ FirstSent \/ RestSent
Busy == state = "WAIT" /\ timer = 0 /\ resp = None /\ (Asked \/ Answered)

TypesOK ==
    /\ setup \in Setups /\ setup.prompt /\ losses \in Nat /\ sent \in Nat
    /\ IsSeq(wire) /\ LinkOK(link)
    /\ state /= "IDLE" => seq \in TestSequences /\ step \in 1 .. Len(seq)

VerdictOK ==
    verdict /= None =>
        /\ verdict.resp /= None => verdict.resp.id = verdict.request
        /\ Clean => (verdict.pass <=> verdict.answer = verdict.expect)

PromptInv == TypesOK /\ VerdictOK /\ (Drained \/ Busy)

\* What the parts of the invariant are about.
busVars == <<ecu, ecuRest, wire, Pipe>>
runVars == <<state, seq, step>>
exchange == <<sent, answer, resp, losses, overflow>>

\* The driver of a prompt run is never busy.
LEMMA PromptRoom == setup.prompt => Rooms = {2}
BY DEF Rooms

\* The invariant depends on no other variable.
LEMMA PromptSame ==
    ASSUME PromptInv, UNCHANGED <<busVars, runVars, exchange, link, timer, verdict, setup>>
    PROVE  PromptInv'
<1>1. TypesOK'
  BY DEF PromptInv, TypesOK, busVars, runVars, exchange
<1>2. VerdictOK'
  BY DEF PromptInv, VerdictOK, Clean, exchange
<1>3. CASE Drained
  <2>1. Drained'
    BY <1>3 DEF Drained, Clean, busVars, runVars, exchange
  <2> QED
    BY <1>1, <1>2, <2>1 DEF PromptInv
<1>4. CASE Busy
  <2>1. Busy'
    BY <1>4 DEF Busy, Asked, Answered, WholeSent, FirstSent, RestSent, Request, OwnByte, Clean,
                busVars, runVars, exchange
  <2> QED
    BY <1>1, <1>2, <2>1 DEF PromptInv
<1> QED
  BY <1>3, <1>4 DEF PromptInv

\* At the start nothing is under way.
LEMMA PromptInit == Init /\ setup.prompt => PromptInv
<1> SUFFICES ASSUME Init, setup.prompt PROVE PromptInv
  OBVIOUS
<1>1. RingInv /\ WaitingIsSeq /\ pc = "test" /\ head = 0 /\ tail = 0
  BY RingInvInit, WaitingSeq DEF Init
<1>2. Waiting = <<>>
  <2>1. IsSeq(Waiting) /\ Len(Waiting) = 0
    BY <1>1, WaitingIs DEF WaitingIsSeq, Used, Taken
  <2> QED
    BY <2>1, Emptiness
<1>3. wire = <<>> /\ IsSeq(wire)
  BY NoElement DEF Init
<1>4. Pipe = <<>>
  BY <1>1, <1>2, <1>3, PipeEmpty
<1>5. LinkOK(link)
  <2>1. link = InitialLink
    BY DEF Init
  <2>2. DOMAIN InitialLink = {"tx", "rx", "fcPending"} /\ InitialLink.tx = IdleTx
        /\ InitialLink.rx = IdleRx /\ InitialLink.fcPending = NoFc
    BY DEF InitialLink
  <2> QED
    BY <2>1, <2>2, IdleRxOK DEF LinkOK
<1> QED
  BY <1>3, <1>4, <1>5 DEF Init, PromptInv, TypesOK, VerdictOK, Drained

\* A frame is lost: the sequel is not complete, and the verdict is not judged.
LEMMA PromptDropped ==
    ASSUME RingInv, PromptInv, Dropped(Pipe, Pipe'), ~Clean', IsSeq(wire'), losses' \in Nat,
           UNCHANGED <<ecu, ecuRest, runVars, sent, answer, resp, link, timer, verdict, setup>>
    PROVE  PromptInv'
<1>1. TypesOK'
  BY DEF PromptInv, TypesOK, runVars
<1>2. VerdictOK'
  BY DEF PromptInv, VerdictOK
<1>3. /\ IsSeq(Pipe) /\ IsSeq(Pipe') /\ Len(Pipe) = Len(Pipe') + 1
      /\ Len(Pipe) \in Nat /\ Len(Pipe') \in Nat
      /\ Pipe' = <<>> <=> Len(Pipe') = 0
      /\ \A k \in 1 .. Len(Pipe') : \E j \in 1 .. Len(Pipe) : Pipe'[k] = Pipe[j]
  BY PipeIs, Indices, Emptiness DEF Dropped, PromptInv, TypesOK
<1>4. Pipe /= <<>>
  BY <1>3, NoElement
<1>5. Busy /\ Answered
  BY <1>4 DEF PromptInv, Drained, Busy, Asked
<1>6. ASSUME Pipe' = <<>> PROVE Drained'
  BY <1>5, <1>6 DEF Drained, Busy, Answered, runVars
<1>7. CASE \E f : Pipe = <<f>>
  <2>1. Pipe' = <<>>
    BY <1>3, <1>7, OneElement
  <2> QED
    BY <1>1, <1>2, <1>6, <2>1 DEF PromptInv
<1>8. CASE RestSent /\ Pipe' /= <<>>
  <2> DEFINE p == Pipe
             q == Pipe'
             x == link.rx
             b == OwnByte
  <2>1. Rest(p) /\ LastCompletes(x, p, b)
    BY <1>8 DEF RestSent, GoesOn
  <2>2. Rest(q)
    BY <1>3, <1>8, <2>1 DEF Rest
  <2>3. x.state = "RECEIVING" => Holds(x, b) /\ x.offset + (Len(q) - 1) * CfMax < x.length
    <3>1. SUFFICES ASSUME x.state = "RECEIVING"
                   PROVE  Holds(x, b) /\ x.offset + (Len(q) - 1) * CfMax < x.length
      OBVIOUS
    <3>2. Holds(x, b) /\ x.offset + (Len(p) - 1) * CfMax < x.length
      BY <2>1, <3>1 DEF LastCompletes
    <3> DEFINE n == Len(q) - 1
               y == n * CfMax
    <3>3. n \in Nat /\ Len(p) - 1 = n + 1
      BY <1>3, <1>8
    <3> HIDE DEF p, q
    <3>4. y \in Nat /\ (n + 1) * CfMax = y + CfMax
      BY <3>3, OneMore, Sizes
    <3> HIDE DEF n
    <3>5. x.offset + y < x.length
      <4>1. x.offset + ((n + 1) * CfMax) < x.length
        BY <3>2, <3>3
      <4>2. x.offset \in Nat /\ x.length \in Nat /\ CfMax \in Nat \ {0}
        BY <3>2, Sizes DEF Holds
      <4> HIDE DEF y
      <4> QED
        BY <3>4, <4>1, <4>2
    <3> QED
      BY <3>2, <3>5 DEF n
  <2>4. RestSent'
    <3>1. LastCompletes(x, q, b)
      BY <2>3 DEF LastCompletes
    <3>2. GoesOn(x, q, b, Clean')
      BY <2>2, <3>1 DEF GoesOn
    <3>3. b = OwnByte' /\ x = link'.rx /\ ecuRest' = <<>>
      BY <1>8 DEF OwnByte, RestSent
    <3> QED
      BY <3>2, <3>3 DEF RestSent
  <2>5. Busy'
    BY <1>5, <2>4 DEF Busy, Answered, OwnByte, runVars
  <2> QED
    BY <1>1, <1>2, <2>5 DEF PromptInv
<1>9. Pipe' = <<>> => PromptInv'
  BY <1>1, <1>2, <1>6 DEF PromptInv
<1> QED
  BY <1>5, <1>7, <1>8, <1>9 DEF Answered, WholeSent, FirstSent

\* The receive interrupt moves a frame from the bus to the ring, or drops it.
LEMMA PromptIsr == ASSUME RingInv, RingInv', PromptInv, OnCanFrameIsr PROVE PromptInv'
<1>1. /\ UNCHANGED <<ecu, ecuRest, runVars, sent, answer, resp, link, timer, verdict, setup, losses>>
  BY DEF OnCanFrameIsr, stepVars, runVars, ghostVars
<1>2. IsSeq(wire') /\ ((Pipe' = Pipe /\ overflow' = overflow) \/ (overflow' /\ Dropped(Pipe, Pipe')))
  <2>1. IsSeq(wire)
    BY DEF PromptInv, TypesOK
  <2> QED
    BY <2>1, IsrPipe
<1>3. losses' \in Nat
  BY <1>1 DEF PromptInv, TypesOK
<1>4. CASE Pipe' = Pipe /\ overflow' = overflow
  <2>1. TypesOK'
    BY <1>1, <1>2 DEF PromptInv, TypesOK, runVars
  <2>2. VerdictOK'
    BY <1>1, <1>4 DEF PromptInv, VerdictOK, Clean
  <2>3. Drained => Drained'
    BY <1>1, <1>4 DEF Drained, Clean, runVars
  <2>4. Busy => Busy'
    BY <1>1, <1>4 DEF Busy, Asked, Answered, WholeSent, FirstSent, RestSent, Request, OwnByte, Clean,
                      runVars
  <2> QED
    BY <2>1, <2>2, <2>3, <2>4 DEF PromptInv
<1>5. CASE overflow' /\ Dropped(Pipe, Pipe')
  <2>1. ~Clean'
    BY <1>5 DEF Clean
  <2> QED
    BY <1>1, <1>2, <1>3, <1>5, <2>1, PromptDropped
<1> QED
  BY <1>2, <1>4, <1>5

\* The bus loses a frame.
LEMMA PromptLose == ASSUME RingInv, PromptInv, Lose PROVE PromptInv'
<1>1. /\ UNCHANGED <<ecu, ecuRest, runVars, sent, answer, resp, link, timer, verdict, setup>>
      /\ losses' = losses + 1
  BY DEF Lose, stepVars, runVars, ghostVars
<1>2. losses \in Nat /\ IsSeq(wire)
  BY DEF PromptInv, TypesOK
<1>3. losses' \in Nat /\ ~Clean'
  BY <1>1, <1>2 DEF Clean
<1>4. IsSeq(wire') /\ Dropped(Pipe, Pipe')
  BY <1>2, LosePipe
<1> QED
  BY <1>1, <1>3, <1>4, PromptDropped

\* Which frames RxFrame hands to which function.
LEMMA RxFrameIs ==
    ASSUME NEW l, NEW f, f.dlc = CanDl
    PROVE  /\ f.pci = "SF" => RxFrame(l, Config, f, 2) = RxOnSingleFrame(l, Config, f)
           /\ f.pci = "FF" => RxFrame(l, Config, f, 2) = RxOnFirstFrame(l, Config, f, TRUE)
           /\ f.pci = "CF" => RxFrame(l, Config, f, 2) = RxOnConsecutiveFrame(l, Config, f, TRUE)
<1>1. f.dlc \in 1 .. CanDl /\ ~(f.dlc = 0 \/ f.dlc > CanDl) /\ (2 > 0) = TRUE
  BY Sizes
<1>2. ASSUME f.pci = "SF" PROVE RxFrame(l, Config, f, 2) = RxOnSingleFrame(l, Config, f)
  BY <1>1, <1>2 DEF RxFrame
<1>3. ASSUME f.pci = "FF" PROVE RxFrame(l, Config, f, 2) = RxOnFirstFrame(l, Config, f, TRUE)
  <2>1. RxFrame(l, Config, f, 2) = RxOnFirstFrame(l, Config, f, 2 > 0)
    BY <1>1, <1>3 DEF RxFrame
  <2> QED
    BY <1>1, <2>1
<1>4. ASSUME f.pci = "CF" PROVE RxFrame(l, Config, f, 2) = RxOnConsecutiveFrame(l, Config, f, TRUE)
  <2>1. RxFrame(l, Config, f, 2) = RxOnConsecutiveFrame(l, Config, f, 2 > 0)
    BY <1>1, <1>4 DEF RxFrame
  <2> QED
    BY <1>1, <2>1
<1> QED
  BY <1>2, <1>3, <1>4

\* The main loop gives the link the oldest frame.
LEMMA PromptTake == ASSUME RingInv, RingInv', PromptInv, Take PROVE PromptInv'
<1>1. TypesOK /\ VerdictOK /\ IsSeq(wire) /\ LinkOK(link) /\ setup.prompt /\ Config.rxSize \in Nat
  BY StepsAssumption DEF PromptInv, TypesOK
<1>2. /\ Pipe /= <<>> /\ Pipe[1] = ring[tail]
      /\ IsSeq(Tail(Pipe)) /\ IsSeq(Waiting') /\ Tail(Pipe) = Waiting' \o wire
  BY <1>1, TakePipe
<1> DEFINE f == ring[tail]
           o == RxFrame(link, Config, f, 2)
           b == OwnByte
<1>3. link' = o.link /\ resp' = ResponseAfter(o.ind) /\ Deliver(o.out)
  BY <1>1, PromptRoom, Zenon DEF Take
<1>4. UNCHANGED <<runVars, timer, sent, answer, verdict, losses, overflow, setup>>
  BY DEF Take, stepVars, runVars, ghostVars, ringVars
<1>5. /\ state = "WAIT" /\ timer = 0 /\ resp = None /\ Answered
      /\ b = [id |-> sent, kind |-> answer] /\ b /= None
  BY <1>2 DEF PromptInv, Drained, Busy, Asked, Answered, OwnByte
<1>6. VerdictOK' /\ Clean' = Clean /\ OwnByte' = b
  BY <1>1, <1>4 DEF VerdictOK, Clean, OwnByte
<1> HIDE DEF o, b, f
<1>7. ASSUME LinkOK(o.link), IsSeq(wire') PROVE TypesOK'
  BY <1>1, <1>3, <1>4, <1>7 DEF TypesOK, runVars
<1>8. ASSUME ecu' = ecu, Pipe' = <<>>, Gives(o.ind, b)
      PROVE  Drained'
  <2>1. resp' = b
    BY <1>3, <1>8, GivesByte
  <2>2. resp'.id = sent' /\ resp'.kind = answer' /\ answer' /= None /\ resp' /= None
    BY <1>4, <1>5, <2>1 DEF Answered
  <2> QED
    BY <1>5, <1>8, <2>2 DEF Drained, Answered
<1>9. ASSUME ecu' = ecu, Pipe' = <<>>, Fails(o.ind), ~Clean
      PROVE  Drained'
  <2>1. resp' = None
    BY <1>3, <1>5, <1>9, FailsKeeps
  <2> QED
    BY <1>5, <1>6, <1>9, <2>1 DEF Drained, Answered
<1>10. ASSUME ecu' = ecu, ecuRest' = <<>>, Fails(o.ind), GoesOn(o.link.rx, Pipe', b, Clean)
       PROVE  Busy'
  <2>1. resp' = None
    BY <1>3, <1>5, <1>10, FailsKeeps
  <2>2. RestSent'
    BY <1>3, <1>6, <1>10 DEF RestSent
  <2> QED
    BY <1>4, <1>5, <1>6, <1>10, <2>1, <2>2 DEF Busy, Answered, runVars
<1>11. ASSUME wire' = wire PROVE Pipe' = Tail(Pipe) /\ IsSeq(wire')
  BY <1>1, <1>2, <1>11 DEF Pipe
<1>12. CASE WholeSent
  <2>1. Pipe = <<f>> /\ IsWhole(f, b)
    <3>1. PICK g : Pipe = <<g>> /\ IsWhole(g, b)
      BY <1>12 DEF WholeSent, b
    <3>2. g = f
      BY <1>2, <3>1, OneElement DEF f
    <3> QED
      BY <3>1, <3>2
  <2>2. LinkOK(o.link) /\ o.out = <<>> /\ Gives(o.ind, b)
    <3>1. o = RxOnSingleFrame(link, Config, f)
      BY <2>1, RxFrameIs DEF IsWhole, o
    <3> QED
      BY <1>1, <2>1, <3>1, WholeTaken
  <2>3. ecu' = ecu /\ wire' = wire
    BY <1>3, <2>2, DeliverFc DEF OnlyFc
  <2>4. Tail(Pipe) = <<>>
    BY <2>1, OneElement, TailOf
  <2> QED
    BY <1>6, <1>7, <1>8, <1>11, <2>2, <2>3, <2>4 DEF PromptInv
<1>13. CASE FirstSent
  <2>1. Pipe = <<f>> /\ IsFirst(f, b) /\ Numbered(ecuRest, f.length)
    <3>1. PICK g : Pipe = <<g>> /\ IsFirst(g, b) /\ Numbered(ecuRest, g.length)
      BY <1>13 DEF FirstSent, b
    <3>2. g = f
      BY <1>2, <3>1, OneElement DEF f
    <3> QED
      BY <3>1, <3>2
  <2>2. /\ LinkOK(o.link) /\ o.out /= <<>> /\ OnlyFc(o.out) /\ Fails(o.ind)
        /\ o.link.rx.state = "RECEIVING" /\ Holds(o.link.rx, b)
        /\ o.link.rx.length = f.length /\ o.link.rx.offset = FfData
        /\ o.link.rx.seq = 1 /\ o.link.rx.timer = 0
    <3>1. o = RxOnFirstFrame(link, Config, f, TRUE)
      BY <2>1, RxFrameIs DEF IsFirst, o
    <3>2. LinkOK(link) /\ Config.rxSize \in Nat /\ IsFirst(f, b)
      BY <1>1, <2>1
    <3>3. Begun(o, f, b)
      BY <3>1, <3>2, FirstTaken
    <3> QED
      BY <3>3 DEF Begun
  <2>3. ecu' = ecu /\ wire' = wire \o ecuRest /\ ecuRest' = <<>>
    BY <1>3, <2>2, DeliverFc
  <2>4. Waiting' = <<>> /\ wire = <<>>
    <3>1. Tail(Pipe) = <<>>
      BY <2>1, OneElement, TailOf
    <3>2. Len(Waiting' \o wire) = Len(Waiting') + Len(wire) /\ Waiting' \o wire = <<>>
      BY <1>1, <1>2, <3>1, Concatenated
    <3>3. Len(Waiting') \in Nat /\ Len(wire) \in Nat /\ Len(Waiting' \o wire) = 0
      BY <1>1, <1>2, <3>2, Indices, NoElement
    <3> QED
      BY <1>1, <1>2, <3>2, <3>3, Emptiness
  <2>5. Pipe' = ecuRest /\ IsSeq(wire')
    <3>1. IsSeq(ecuRest)
      BY <2>1 DEF Numbered
    <3> QED
      BY <2>3, <2>4, <3>1, WithNothing DEF Pipe
  <2>6. GoesOn(o.link.rx, ecuRest, b, Clean)
    <3> DEFINE x == o.link.rx
               c == ecuRest
    <3>1. /\ IsSeq(c) /\ Len(c) \in Nat \ {0}
          /\ \A k \in 1 .. Len(c) : IsRest(c[k]) /\ c[k].sn = k % SeqMod
          /\ FfData + (Len(c) - 1) * CfMax < x.length /\ x.length <= FfData + Len(c) * CfMax
      BY <2>1, <2>2 DEF Numbered
    <3>2. Rest(c)
      BY <3>1, NoElement DEF Rest
    <3>3. LastCompletes(x, c, b)
      BY <2>2, <3>1 DEF LastCompletes
    <3>4. AllThere(x, c)
      <4>1. x.seq = 1 % SeqMod
        BY <2>2, Sizes
      <4>2. \A k \in 1 .. Len(c) : c[k].sn = (1 + k - 1) % SeqMod
        BY <3>1
      <4>3. 1 \in Nat
        OBVIOUS
      <4> HIDE DEF x, c
      <4>4. x.state = "RECEIVING" /\ x.timer = 0 /\ x.length <= x.offset + Len(c) * CfMax
        BY <2>2, <3>1 DEF x
      <4> QED
        BY <4>1, <4>2, <4>3, <4>4 DEF AllThere
    <3> QED
      BY <3>2, <3>3, <3>4 DEF GoesOn
  <2>7. Busy'
    BY <1>10, <2>2, <2>3, <2>5, <2>6
  <2> QED
    BY <1>6, <1>7, <2>2, <2>5, <2>7 DEF PromptInv
<1>14. CASE RestSent
  <2>1. ecuRest = <<>> /\ GoesOn(link.rx, Pipe, b, Clean)
    BY <1>14 DEF RestSent, b
  <2>2. /\ LinkOK(o.link) /\ OnlyFc(o.out)
        /\ \/ Tail(Pipe) = <<>> /\ Gives(o.ind, b)
           \/ Tail(Pipe) = <<>> /\ ~Clean /\ Fails(o.ind)
           \/ Fails(o.ind) /\ GoesOn(o.link.rx, Tail(Pipe), b, Clean)
    <3>1. Pipe[1] = f /\ IsRest(f)
      <4>1. Len(Pipe) \in Nat \ {0}
        BY <2>1, TailOf DEF GoesOn, Rest
      <4>2. 1 \in 1 .. Len(Pipe)
        BY <4>1
      <4> QED
        BY <1>2, <2>1, <4>2 DEF GoesOn, Rest, f
    <3>2. o = RxOnConsecutiveFrame(link, Config, Pipe[1], TRUE)
      BY <3>1, RxFrameIs DEF IsRest, o
    <3>3. Clean \in BOOLEAN
      BY DEF Clean
    <3> QED
      BY <1>1, <2>1, <3>2, <3>3, RestTaken
  <2>3. ecu' = ecu /\ wire' = wire /\ ecuRest' = <<>>
    <3>1. wire \o ecuRest = wire
      BY <1>1, <2>1, WithNothing
    <3> QED
      BY <1>3, <2>1, <2>2, <3>1, DeliverFc
  <2>4. Pipe' = Tail(Pipe) /\ TypesOK'
    BY <1>7, <1>11, <2>2, <2>3
  <2>5. CASE Tail(Pipe) = <<>> /\ Gives(o.ind, b)
    BY <1>6, <1>8, <2>3, <2>4, <2>5 DEF PromptInv
  <2>6. CASE Tail(Pipe) = <<>> /\ ~Clean /\ Fails(o.ind)
    BY <1>6, <1>9, <2>3, <2>4, <2>6 DEF PromptInv
  <2>7. CASE Fails(o.ind) /\ GoesOn(o.link.rx, Tail(Pipe), b, Clean)
    BY <1>6, <1>10, <2>3, <2>4, <2>7 DEF PromptInv
  <2> QED
    BY <2>2, <2>5, <2>6, <2>7
<1> QED
  BY <1>5, <1>12, <1>13, <1>14 DEF Answered

\* The main loop polls the link.
LEMMA PromptPoll == ASSUME RingInv, PromptInv, Poll PROVE PromptInv'
<1>1. TypesOK /\ VerdictOK /\ LinkOK(link) /\ setup.prompt
  BY DEF PromptInv, TypesOK
<1> DEFINE o == MainFunction(link, Config, 2, 2)
<1>2. link' = o.link /\ resp' = ResponseAfter(o.ind) /\ Deliver(o.out)
  BY <1>1, PromptRoom, Zenon DEF Poll
<1>3. UNCHANGED <<ringVars, runVars, timer, sent, answer, verdict, losses, overflow, setup>>
  BY DEF Poll, stepVars, runVars, ghostVars, ringVars
<1>4. /\ LinkOK(o.link) /\ o.out = <<>> /\ Fails(o.ind)
      /\ o.link.rx = link.rx \/ (link.rx.timer >= NCr /\ o.link.rx.state = "IDLE")
  BY <1>1, Polled
<1> HIDE DEF o
<1>5. resp' = resp /\ UNCHANGED <<ecu, ecuRest, wire>>
  BY <1>2, <1>4, FailsKeeps, DeliverFc DEF OnlyFc
<1>6. Pipe' = Pipe
  <2>1. Waiting' = Waiting
    BY <1>3, WaitingKept DEF Poll
  <2> QED
    BY <1>5, <2>1 DEF Pipe
<1>7. TypesOK'
  BY <1>1, <1>2, <1>3, <1>4, <1>5 DEF TypesOK, runVars
<1>8. VerdictOK'
  BY <1>1, <1>3 DEF VerdictOK, Clean
<1>9. Drained => Drained'
  BY <1>3, <1>5, <1>6 DEF Drained, Clean, runVars
<1>10. RestSent => RestSent'
  <2>1. SUFFICES ASSUME RestSent PROVE RestSent'
    OBVIOUS
  <2>2. ecuRest' = <<>> /\ GoesOn(link.rx, Pipe, OwnByte, Clean)
    BY <1>5, <2>1 DEF RestSent
  <2>3. Clean' = Clean /\ OwnByte' = OwnByte
    BY <1>3 DEF Clean, OwnByte
  <2>4. CASE o.link.rx = link.rx
    BY <1>2, <1>6, <2>2, <2>3, <2>4 DEF RestSent
  <2>5. CASE link.rx.timer >= NCr /\ o.link.rx.state = "IDLE"
    <3>1. ~Clean
      BY <2>2, <2>5, TimeoutAssumption DEF GoesOn, AllThere
    <3>2. GoesOn(o.link.rx, Pipe, OwnByte, Clean)
      BY <2>2, <2>5, <3>1 DEF GoesOn, LastCompletes
    <3> QED
      BY <1>2, <1>6, <2>2, <2>3, <3>2 DEF RestSent
  <2> QED
    BY <1>4, <2>4, <2>5
<1>11. Busy => Busy'
  BY <1>3, <1>5, <1>6, <1>10 DEF Busy, Asked, Answered, WholeSent, FirstSent, Request, OwnByte, runVars
<1> QED
  BY <1>7, <1>8, <1>9, <1>11 DEF PromptInv

\* Time passes only when nothing is under way.
LEMMA PromptTick == ASSUME RingInv, PromptInv, Tick PROVE PromptInv'
<1>1. TypesOK /\ VerdictOK /\ LinkOK(link) /\ setup.prompt /\ IsSeq(wire)
  BY DEF PromptInv, TypesOK
<1>2. wire = <<>> /\ ecu = <<>> /\ head = tail
  BY <1>1 DEF Tick, Quiet
<1>3. Pipe = <<>>
  <2>1. WaitingIsSeq /\ Used = 0 /\ Taken = 0
    BY <1>2, WaitingSeq, TesterAssumption DEF RingInv, Used, Taken, Slots
  <2>2. IsSeq(Waiting) /\ Len(Waiting) = 0
    BY <2>1, WaitingIs DEF WaitingIsSeq
  <2>3. Waiting = <<>>
    BY <2>2, Emptiness
  <2> QED
    BY <1>1, <1>2, <2>3, PipeEmpty
<1>4. Drained
  <2>1. ~Asked
    BY <1>2 DEF Asked
  <2>2. ~WholeSent /\ ~FirstSent
    BY <1>3, OneElement DEF WholeSent, FirstSent
  <2>3. ~RestSent
    BY <1>3 DEF RestSent, GoesOn, Rest
  <2> QED
    BY <2>1, <2>2, <2>3 DEF PromptInv, Busy, Answered
<1>5. /\ link' = Aged(link)
      /\ UNCHANGED <<ringVars, pc, ecu, ecuRest, wire, runVars, resp, sent, answer, verdict,
                     losses, overflow, setup>>
  BY DEF Tick, ecuVars, runVars, ghostVars, ringVars
<1>6. Pipe' = Pipe
  <2>1. Waiting' = Waiting
    BY <1>5, WaitingKept
  <2> QED
    BY <1>5, <2>1 DEF Pipe
<1>7. LinkOK(link')
  BY <1>1, <1>5, AgedOK
<1>8. TypesOK'
  BY <1>1, <1>5, <1>7 DEF TypesOK, runVars
<1>9. VerdictOK'
  BY <1>1, <1>5 DEF VerdictOK, Clean
<1>10. Drained'
  BY <1>4, <1>5, <1>6 DEF Drained, Clean, runVars
<1> QED
  BY <1>8, <1>9, <1>10 DEF PromptInv

\* A key starts a sequence, if none runs.
LEMMA PromptKey == ASSUME RingInv, PromptInv, HandleKey PROVE PromptInv'
<1>1. /\ UNCHANGED <<ringVars, ecu, ecuRest, wire, resp, sent, answer, verdict, losses, overflow,
                     setup, link>>
      /\ pc = "key" /\ pc' = "poll"
  BY DEF HandleKey, ecuVars, ghostVars, ringVars
<1>2. Pipe' = Pipe
  <2>1. Waiting' = Waiting
    BY <1>1, WaitingKept
  <2> QED
    BY <1>1, <2>1 DEF Pipe
<1>3. CASE UNCHANGED stepVars
  BY <1>1, <1>2, <1>3, PromptSame DEF busVars, runVars, exchange, stepVars
<1>4. CASE state = "IDLE" /\ Started
  <2>1. seq' \in TestSequences /\ step' = 1 /\ state' = "DELAY"
    BY <1>4 DEF Started
  <2>2. step' \in 1 .. Len(seq')
    BY <2>1, StepsAssumption
  <2>3. TypesOK'
    BY <1>1, <2>1, <2>2 DEF PromptInv, TypesOK
  <2>4. VerdictOK'
    BY <1>1 DEF PromptInv, VerdictOK, Clean
  <2>5. Drained
    BY <1>4 DEF PromptInv, Busy
  <2>6. Drained'
    BY <1>1, <1>2, <2>1, <2>5 DEF Drained
  <2> QED
    BY <2>3, <2>4, <2>6 DEF PromptInv
<1>5. UNCHANGED stepVars \/ (state = "IDLE" /\ Started)
  BY DEF HandleKey
<1> QED
  BY <1>3, <1>4, <1>5

\* The ECU answers the request, or stays silent.
LEMMA PromptEcu == ASSUME RingInv, PromptInv, EcuAnswers PROVE PromptInv'
<1>1. TypesOK /\ VerdictOK /\ setup.prompt /\ IsSeq(wire) /\ Config.rxSize \in Nat /\ sent \in Nat
  BY StepsAssumption DEF PromptInv, TypesOK
<1>2. ecu /= <<>>
  BY DEF EcuAnswers
<1>3. /\ state = "WAIT" /\ timer = 0 /\ resp = None
      /\ ecu = <<Request>> /\ Pipe = <<>> /\ answer = None
  BY <1>2 DEF PromptInv, Drained, Busy, Asked, Answered
<1>4. /\ UNCHANGED <<ringVars, pc, runVars, timer, resp, sent, link, verdict, losses, overflow, setup>>
      /\ ecu' = Tail(ecu)
  BY DEF EcuAnswers, stepVars, runVars, ringVars
<1>5. ecu' = <<>> /\ Head(ecu) = Request
  BY <1>3, <1>4, OneElement, TailOf
<1>6. Waiting = <<>> /\ wire = <<>> /\ Waiting' = <<>>
  <2>1. Waiting' = Waiting
    BY <1>4, WaitingKept
  <2> QED
    BY <1>1, <1>3, <2>1, PipeEmpty
<1> DEFINE q == <<Request.req, Request.functional>>
<1>7. PICK a \in Answers[q] :
        IF a = Silent THEN UNCHANGED <<wire, ecuRest, answer>>
        ELSE LET msg == Response(Request.id, a)
             IN  /\ answer' = IF Request.id = sent THEN a.kind ELSE answer
                 /\ IF a.length <= SfMax
                    THEN wire' = Append(wire, SingleFrame(msg)) /\ UNCHANGED ecuRest
                    ELSE wire' = Append(wire, FirstFrame(msg)) /\ ecuRest' = Rests(msg)
  BY <1>5 DEF EcuAnswers
<1>8. q \in DOMAIN Answers
  BY <1>1, <1>3, StepsAssumption DEF TypesOK, Request
<1>9. VerdictOK' /\ Clean' = Clean
  BY <1>1, <1>4 DEF VerdictOK, Clean
<1>10. ASSUME IsSeq(wire') PROVE TypesOK'
  BY <1>1, <1>4, <1>10 DEF TypesOK, runVars
<1>11. CASE a = Silent
  <2>1. UNCHANGED <<wire, ecuRest, answer>>
    BY <1>7, <1>11
  <2>2. Pipe' = Pipe
    BY <1>6, <2>1 DEF Pipe
  <2>3. Drained'
    BY <1>3, <1>4, <1>5, <2>1, <2>2 DEF Drained
  <2> QED
    BY <1>1, <1>9, <1>10, <2>1, <2>3 DEF PromptInv
<1>12. CASE a /= Silent
  <2> DEFINE msg == Response(sent, a)
             b == [id |-> sent, kind |-> a.kind]
  <2>1. a.length \in 1 .. Config.rxSize /\ a.kind /= None /\ None \notin [id : Nat, kind : {a.kind}]
    BY <1>8, <1>12, StepsAssumption
  <2>2. b /= None
    BY <1>1, <2>1
  <2>3. Request.id = sent
    BY DEF Request
  <2>4. answer' = a.kind
    BY <1>7, <1>12, <2>3
  <2>5. OwnByte' = b
    BY <1>4, <2>4 DEF OwnByte
  <2> HIDE DEF b
  <2>6. ASSUME NEW f, wire' = Append(wire, f)
        PROVE  Pipe' = <<f>> /\ TypesOK'
    <3>1. wire' = <<f>>
      BY <1>6, <2>6
    <3>2. IsSeq(wire')
      BY <3>1, OneElement
    <3>3. Pipe' = <<>> \o <<f>>
      BY <1>6, <3>1 DEF Pipe
    <3> QED
      BY <1>10, <3>1, <3>2, <3>3, WithNothing
  <2>7. ASSUME Answered' PROVE Busy'
    BY <1>3, <1>4, <2>7 DEF Busy, runVars
  <2>8. CASE a.length <= SfMax
    <3> DEFINE f == SingleFrame(msg)
    <3>1. IsWhole(f, b)
      BY <1>1, <2>1, <2>8, AnswerFrames DEF b
    <3>2. wire' = Append(wire, f)
      BY <1>7, <1>12, <2>3, <2>8
    <3> HIDE DEF f
    <3>3. WholeSent'
      BY <2>5, <2>6, <3>1, <3>2 DEF WholeSent
    <3>4. Answered'
      BY <1>5, <2>1, <2>2, <2>4, <2>5, <3>3 DEF Answered
    <3> QED
      BY <1>9, <2>6, <2>7, <3>2, <3>4 DEF PromptInv
  <2>9. CASE ~(a.length <= SfMax)
    <3> DEFINE f == FirstFrame(msg)
    <3>1. IsFirst(f, b) /\ Numbered(Rests(msg), a.length)
      BY <1>1, <2>1, <2>9, AnswerFrames DEF b
    <3>2. wire' = Append(wire, f) /\ ecuRest' = Rests(msg)
      BY <1>7, <1>12, <2>3, <2>9
    <3>3. f.length = a.length
      <4>1. a.length \in Nat \ {0}
        BY <1>1, <2>1
      <4>2. Len(msg) = a.length
        BY <4>1, ResponseIs
      <4> HIDE DEF msg
      <4> QED
        BY <4>2 DEF FirstFrame
    <3> HIDE DEF f
    <3>4. FirstSent'
      BY <2>5, <2>6, <3>1, <3>2, <3>3 DEF FirstSent
    <3>5. Answered'
      BY <1>5, <2>1, <2>2, <2>4, <2>5, <3>4 DEF Answered
    <3> QED
      BY <1>9, <2>6, <2>7, <3>2, <3>5 DEF PromptInv
  <2> QED
    BY <2>8, <2>9
<1> QED
  BY <1>11, <1>12

\* A step of the sequence begins: its request goes out, and nothing else is
\* under way.
LEMMA PromptSend ==
    ASSUME RingInv, PromptInv, SendStep, UNCHANGED <<ringVars, losses, setup>>,
           pc = "run", pc' = "test"
    PROVE  PromptInv'
<1>1. TypesOK /\ VerdictOK /\ LinkOK(link) /\ setup.prompt /\ IsSeq(wire) /\ sent \in Nat
  BY DEF PromptInv, TypesOK
<1>2. state = "SEND" /\ ~(link.tx.state /= "IDLE")
  BY <1>1 DEF SendStep, LinkOK, IdleTx
<1>3. Drained
  BY <1>2 DEF PromptInv, Busy
<1> DEFINE r == [id |-> sent + 1, req |-> seq[step].req, functional |-> seq[step].functional]
           o == Transmit(link, <<r>>, 2)
<1>4. /\ state' = "WAIT" /\ timer' = 0 /\ resp' = None /\ sent' = sent + 1 /\ answer' = None
      /\ UNCHANGED <<seq, step, verdict>>
  BY <1>2 DEF SendStep, Cleared
<1>5. IF seq[step].functional
      THEN link' = link /\ Deliver(<<SingleFrame(<<r>>)>>)
      ELSE link' = o.link /\ Deliver(o.out)
  <2>1. \E room \in {2} :
          IF seq[step].functional
          THEN link' = link /\ Deliver(IF room > 0 THEN <<SingleFrame(<<r>>)>> ELSE <<>>)
          ELSE \E p \in {Transmit(link, <<r>>, room)} : link' = p.link /\ Deliver(p.out)
    BY <1>1, <1>2, PromptRoom, Zenon DEF SendStep
  <2>2. 2 > 0
    OBVIOUS
  <2> QED
    BY <2>1, <2>2, Zenon
<1>6. LinkOK(link') /\ Deliver(<<SingleFrame(<<r>>)>>)
  <2>1. LinkOK(o.link) /\ o.out = <<SingleFrame(<<r>>)>>
    BY <1>1, Requested
  <2> HIDE DEF o, r
  <2> QED
    BY <1>1, <1>5, <2>1
<1>7. ecu' = Append(ecu, r) /\ wire' = wire /\ ecuRest' = ecuRest
  BY <1>6, DeliverRequest
<1> HIDE DEF o, r
<1>8. ecu' = <<r>>
  BY <1>3, <1>7 DEF Drained
<1>9. r = Request'
  BY <1>4 DEF r, Request
<1>10. Pipe' = Pipe
  <2>1. Waiting' = Waiting
    BY WaitingKept
  <2> QED
    BY <1>7, <2>1 DEF Pipe
<1>11. Asked'
  BY <1>3, <1>4, <1>8, <1>9, <1>10 DEF Asked, Drained
<1>12. TypesOK'
  BY <1>1, <1>2, <1>4, <1>6, <1>7 DEF TypesOK
<1>13. VerdictOK'
  <2>1. Clean' = Clean
    BY DEF Clean, ringVars
  <2> QED
    BY <1>1, <1>4, <2>1 DEF VerdictOK
<1> QED
  BY <1>4, <1>11, <1>12, <1>13 DEF PromptInv, Busy

\* The verdict: the main loop has the response of the step, or none will come.
LEMMA PromptFinish ==
    ASSUME RingInv, PromptInv, NEW pass, Finish(pass), state = "WAIT", Drained,
           Clean => (pass <=> answer = seq[step].expect),
           UNCHANGED <<ringVars, losses, setup>>, pc = "run", pc' = "test"
    PROVE  PromptInv'
<1>1. TypesOK
  BY DEF PromptInv
<1>2. /\ verdict' = [request |-> sent, expect |-> seq[step].expect, answer |-> answer,
                     resp |-> resp, pass |-> pass]
      /\ step' = step + 1
      /\ (step < Len(seq) /\ state' = "DELAY") \/ (~(step < Len(seq)) /\ state' = "IDLE")
      /\ UNCHANGED <<seq, link, resp, ecu, ecuRest, wire, sent, answer>>
  BY DEF Finish, ecuVars
<1>3. Pipe' = Pipe
  <2>1. Waiting' = Waiting
    BY WaitingKept
  <2> QED
    BY <1>2, <2>1 DEF Pipe
<1>4. TypesOK'
  <2>1. state' /= "IDLE" => seq' \in TestSequences /\ step' \in 1 .. Len(seq')
    <3>1. seq \in TestSequences /\ step \in 1 .. Len(seq) /\ Len(seq) \in Nat
      BY <1>1, StepsAssumption DEF TypesOK
    <3> QED
      BY <1>2, <3>1
  <2> QED
    BY <1>1, <1>2, <2>1 DEF TypesOK
<1>5. VerdictOK'
  <2>1. Clean' = Clean
    BY DEF Clean, ringVars
  <2>2. resp /= None => resp.id = sent
    BY DEF Drained
  <2>3. /\ verdict'.request = sent /\ verdict'.expect = seq[step].expect
        /\ verdict'.answer = answer /\ verdict'.resp = resp /\ verdict'.pass = pass
    BY <1>2
  <2> QED
    BY <2>1, <2>2, <2>3 DEF VerdictOK
<1>6. Drained'
  BY <1>2, <1>3 DEF Drained
<1> QED
  BY <1>4, <1>5, <1>6 DEF PromptInv

\* One pass of the step sequencer.
LEMMA PromptRun == ASSUME RingInv, PromptInv, RunSequence PROVE PromptInv'
<1>1. pc = "run" /\ pc' = "test" /\ UNCHANGED <<ringVars, losses, setup>> /\ TypesOK /\ VerdictOK
  BY DEF RunSequence, PromptInv
<1>2. Waiting' = Waiting
  BY <1>1, WaitingKept
<1>3. ASSUME Stay PROVE PromptInv'
  <2>1. UNCHANGED <<state, seq, step, timer, link, resp, ecu, ecuRest, wire, sent, answer, verdict>>
    BY <1>3 DEF Stay, stepVars, ecuVars, ghostVars
  <2>2. Pipe' = Pipe
    BY <1>2, <2>1 DEF Pipe
  <2> QED
    BY <1>1, <2>1, <2>2, PromptSame DEF busVars, runVars, exchange, ringVars
<1>4. CASE DelayStep
  <2>1. CASE Stay
    BY <1>3, <2>1
  <2>2. CASE ~Stay
    <3>1. /\ state = "DELAY" /\ state' = "SEND"
          /\ UNCHANGED <<seq, step, timer, link, resp, ecu, ecuRest, wire, sent, answer, verdict>>
      BY <1>4, <2>2 DEF DelayStep, ecuVars, ghostVars
    <3>2. Pipe' = Pipe
      BY <1>2, <3>1 DEF Pipe
    <3>3. Drained
      BY <3>1 DEF PromptInv, Busy
    <3>4. TypesOK'
      BY <1>1, <3>1 DEF TypesOK
    <3>5. VerdictOK'
      BY <1>1, <3>1 DEF VerdictOK, Clean, ringVars
    <3>6. Drained'
      BY <3>1, <3>2, <3>3 DEF Drained
    <3> QED
      BY <3>4, <3>5, <3>6 DEF PromptInv
  <2> QED
    BY <2>1, <2>2
<1>5. CASE SendStep
  BY <1>1, <1>5, PromptSend
<1>6. ASSUME NEW pass, Finish(pass), state = "WAIT", Drained,
             Clean => (pass <=> answer = seq[step].expect)
      PROVE  PromptInv'
  BY <1>1, <1>6, PromptFinish
<1>7. Busy => timer = 0 /\ resp = None
  BY DEF Busy
<1>8. Drained \/ Busy
  BY DEF PromptInv
<1>9. CASE WaitForSilence
  <2>1. state = "WAIT" /\ seq[step].expect = None
    BY <1>9 DEF WaitForSilence
  <2>2. CASE resp /= None
    <3>1. Finish(FALSE) /\ Drained
      BY <1>7, <1>8, <1>9, <2>2 DEF WaitForSilence
    <3>2. Clean => (FALSE <=> answer = seq[step].expect)
      BY <2>1, <2>2, <3>1 DEF Drained
    <3> QED
      BY <1>6, <2>1, <3>1, <3>2
  <2>3. CASE resp = None /\ timer >= NoResponseWait
    <3>1. Finish(TRUE) /\ ~(timer = 0)
      <4>1. Finish(TRUE)
        BY <1>9, <2>3, Zenon DEF WaitForSilence
      <4>2. ~(timer = 0)
        BY <2>3, TesterAssumption
      <4> QED
        BY <4>1, <4>2
    <3>2. Drained
      BY <1>7, <1>8, <3>1
    <3>3. Clean => (TRUE <=> answer = seq[step].expect)
      BY <2>1, <2>3, <3>2 DEF Drained
    <3> QED
      BY <1>6, <2>1, <3>1, <3>2, <3>3
  <2>4. CASE resp = None /\ ~(timer >= NoResponseWait)
    BY <1>3, <1>9, <2>4 DEF WaitForSilence
  <2> QED
    BY <2>2, <2>3, <2>4
<1>10. CASE WaitForResponse
  <2>1. state = "WAIT" /\ seq[step].expect /= None
    BY <1>10 DEF WaitForResponse
  <2>2. CASE resp /= None
    <3>1. Finish(resp.kind = seq[step].expect) /\ Drained
      BY <1>7, <1>8, <1>10, <2>2 DEF WaitForResponse
    <3>2. Clean => ((resp.kind = seq[step].expect) <=> answer = seq[step].expect)
      BY <2>1, <2>2, <3>1 DEF Drained
    <3> QED
      BY <1>6, <2>1, <3>1, <3>2
  <2>3. CASE resp = None /\ timer >= ResponseTimeout
    <3>1. Finish(FALSE) /\ ~(timer = 0)
      <4>1. Finish(FALSE)
        BY <1>10, <2>3, Zenon DEF WaitForResponse
      <4>2. ~(timer = 0)
        BY <2>3, TesterAssumption
      <4> QED
        BY <4>1, <4>2
    <3>2. Drained
      BY <1>7, <1>8, <3>1
    <3>3. Clean => (FALSE <=> answer = seq[step].expect)
      BY <2>1, <2>3, <3>2 DEF Drained
    <3> QED
      BY <1>6, <2>1, <3>1, <3>2, <3>3
  <2>4. CASE resp = None /\ ~(timer >= ResponseTimeout)
    BY <1>3, <1>10, <2>4 DEF WaitForResponse
  <2> QED
    BY <2>2, <2>3, <2>4
<1> QED
  BY <1>3, <1>4, <1>5, <1>9, <1>10 DEF RunSequence

\* Every step keeps the invariant.
LEMMA PromptStep == RingInv /\ RingInv' /\ PromptInv /\ [Next]_vars => PromptInv'
<1> SUFFICES ASSUME RingInv, RingInv', PromptInv, [Next]_vars PROVE PromptInv'
  OBVIOUS
<1>1. CASE Test
  <2>1. Waiting' = Waiting
    BY <1>1, WaitingKept DEF Test
  <2>2. UNCHANGED <<stepVars, link, resp, ecuVars, ghostVars, losses, overflow, setup>>
    BY <1>1 DEF Test, ringVars
  <2>3. Pipe' = Pipe
    BY <2>1, <2>2 DEF Pipe, ecuVars
  <2> QED
    BY <2>2, <2>3, PromptSame DEF stepVars, ecuVars, ghostVars, busVars, runVars, exchange
<1>2. CASE Advance
  <2>1. Pipe' = Pipe
    BY <1>2, AdvancePipe
  <2>2. UNCHANGED <<stepVars, link, resp, ecuVars, ghostVars, losses, overflow, setup>>
    BY <1>2 DEF Advance
  <2> QED
    BY <2>1, <2>2, PromptSame DEF stepVars, ecuVars, ghostVars, busVars, runVars, exchange
<1>3. CASE UNCHANGED vars
  <2>1. UNCHANGED <<ringVars, pc, stepVars, link, resp, ecuVars, ghostVars, losses, overflow, setup>>
    BY <1>3 DEF vars, ringVars
  <2>2. Waiting' = Waiting
    BY <2>1, WaitingKept
  <2>3. Pipe' = Pipe
    BY <2>1, <2>2 DEF Pipe, ecuVars
  <2> QED
    BY <2>1, <2>3, PromptSame DEF stepVars, ecuVars, ghostVars, busVars, runVars, exchange
<1> QED
  BY <1>1, <1>2, <1>3, PromptIsr, PromptTake, PromptKey, PromptPoll, PromptRun, PromptEcu,
     PromptLose, PromptTick DEF Next, TesterTask

\* The circumstances stay.
LEMMA SetupKept == [Next]_vars => setup' = setup
BY DEF Next, vars, TesterTask, OnCanFrameIsr, Test, Take, Advance, HandleKey, Poll, RunSequence,
       EcuAnswers, Lose, Tick

\* When the ECU answers in time, a step is judged by the response to its own
\* request or by none, and when no frame is lost its verdict is right (SendStep
\* clears s_gotResp, tester_app.c:283; RunSequence judges, tester_app.c:322-353):
\* whatever the tables of steps and answers, the length of the ring and the losses.
THEOREM VerdictCorrect == Spec => []VerdictTrue
<1> DEFINE Inv == RingInv /\ (setup.prompt => PromptInv)
<1>1. Init => Inv
  BY RingInvInit, PromptInit
<1>2. Inv /\ [Next]_vars => Inv'
  <2> SUFFICES ASSUME Inv, [Next]_vars PROVE Inv'
    OBVIOUS
  <2>1. RingInv' /\ setup' = setup
    BY RingInvStep, SetupKept
  <2> QED
    BY <2>1, PromptStep
<1>3. Inv => VerdictTrue
  BY DEF PromptInv, VerdictOK, VerdictTrue, Clean
<1> QED
  BY <1>1, <1>2, <1>3, PTL DEF Spec
=============================================================================
