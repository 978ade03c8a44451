------------------------------ MODULE DtcProofs ------------------------------
(***************************************************************************)
(* The DTC manager, for every table, threshold, counter width and number of *)
(* tasks.                                                                  *)
(*                                                                         *)
(* First the atomic manager: what its status bits mean.  The inductive     *)
(* invariant is DtcManager!IInv: the meaning of each bit, plus what        *)
(* failCount counts (needed for CDTC) and that no report is dated after    *)
(* the current cycle (needed when a new cycle starts).                     *)
(*                                                                         *)
(* Then the table under its mutex, which implements it.  The mapping       *)
(* completes what the holder has left to do (DtcLocking!Completed), so a   *)
(* step inside the critical section leaves the mapped state as it is, and  *)
(* the operation takes effect when the mutex is taken.  And a query, which *)
(* changes nothing, sees one state of the table.                           *)
(***************************************************************************)
EXTENDS DtcLocking, TLAPS

USE DEF Index

\* The initial state has the types.
LEMMA TypeOKInit == Init => TypeOK
<1> SUFFICES ASSUME Init PROVE TypeOK
  OBVIOUS
<1>1. status \in [Index -> SUBSET Bits]
  BY DEF Init, StatusInitial, Bits
<1>2. failCount \in [Index -> 0 .. FailMax]
  BY FailMaxAssumption DEF Init
<1>3. log \in [Index -> Seq(Result)] /\ cycle \in Nat
  BY DEF Init
<1> QED
  BY <1>1, <1>2, <1>3 DEF TypeOK

\* failCount saturates: it stays a byte.
LEMMA CountType ==
    ASSUME NEW n \in 0 .. FailMax, NEW failed \in BOOLEAN
    PROVE  FailCountAfter(n, failed) \in 0 .. FailMax
BY FailMaxAssumption DEF FailCountAfter

\* Every operation keeps the types.
LEMMA TypeOKStep == TypeOK /\ [Next]_vars => TypeOK'
<1> SUFFICES ASSUME TypeOK, [Next]_vars PROVE TypeOK'
  OBVIOUS
<1>1. ASSUME NEW i \in Index, NEW failed \in BOOLEAN, ReportResult(i, failed)
      PROVE  TypeOK'
  <2>1. StatusAfterResult(i, status[i], failCount[i], failed) \in SUBSET Bits
    <3>1. status[i] \in SUBSET Bits
      BY DEF TypeOK
    <3> QED
      BY <3>1 DEF StatusAfterResult, MarkCompleted, Bits
  <2>2. status' \in [Index -> SUBSET Bits]
    BY <1>1, <2>1 DEF TypeOK, ReportResult
  <2>3. failCount' \in [Index -> 0 .. FailMax]
    <3>1. failCount \in [Index -> 0 .. FailMax]
          /\ failCount' = [failCount EXCEPT ![i] = FailCountAfter(failCount[i], failed)]
      BY <1>1 DEF TypeOK, ReportResult
    <3>2. FailCountAfter(failCount[i], failed) \in 0 .. FailMax
      BY <3>1, CountType
    <3> QED
      BY <3>1, <3>2
  <2>4. [failed |-> failed, cycle |-> cycle] \in Result
    BY DEF TypeOK, Result
  <2>5. log' \in [Index -> Seq(Result)] /\ cycle' \in Nat
    BY <1>1, <2>4 DEF TypeOK, ReportResult
  <2> QED
    BY <2>2, <2>3, <2>5 DEF TypeOK
<1>2. CASE StartOperationCycle
  <2>1. \A i \in Index : StatusNextCycle(status[i]) \in SUBSET Bits
    BY DEF TypeOK, StatusNextCycle, Bits
  <2> QED
    BY <1>2, <2>1 DEF TypeOK, StartOperationCycle
<1>3. CASE ClearAll
  <2>1. StatusInitial \in SUBSET Bits /\ 0 \in 0 .. FailMax
    BY FailMaxAssumption DEF StatusInitial, Bits
  <2> QED
    BY <1>3, <2>1 DEF TypeOK, ClearAll
<1>4. CASE UNCHANGED vars
  BY <1>4 DEF TypeOK, vars
<1> QED
  BY <1>1, <1>2, <1>3, <1>4 DEF Next

\* Type correctness of the DTC manager for every table.
THEOREM TypeCorrect == Spec => []TypeOK
BY TypeOKInit, TypeOKStep, PTL DEF Spec

-----------------------------------------------------------------------------
(* Logs: what one more report does to what a log says.                     *)

LEMMA AppendResult ==
    ASSUME NEW lg \in Seq(Result), NEW r \in Result
    PROVE  /\ Len(lg) \in Nat
           /\ Append(lg, r) \in Seq(Result)
           /\ Append(lg, r) /= <<>>
           /\ Len(Append(lg, r)) = Len(lg) + 1
           /\ \A k \in 1 .. Len(lg) : Append(lg, r)[k] = lg[k]
           /\ Append(lg, r)[Len(lg) + 1] = r
           /\ \A k \in 1 .. Len(lg) : lg[k].cycle \in Nat /\ lg[k].failed \in BOOLEAN
<1>1. \A k \in 1 .. Len(lg) : lg[k] \in Result
  OBVIOUS
<1>2. \A k \in 1 .. Len(lg) : lg[k].cycle \in Nat /\ lg[k].failed \in BOOLEAN
  BY <1>1 DEF Result
<1>3. /\ Len(lg) \in Nat
      /\ Append(lg, r) \in Seq(Result)
      /\ Len(Append(lg, r)) = Len(lg) + 1
      /\ Append(lg, r)[Len(lg) + 1] = r
  OBVIOUS
<1>4. \A k \in 1 .. Len(lg) : Append(lg, r)[k] = lg[k]
  OBVIOUS
<1>5. Append(lg, r) /= <<>>
  BY <1>3
<1> QED
  BY <1>2, <1>3, <1>4, <1>5

\* failCount follows the failures that end the log.
LEMMA FailRunAppend ==
    ASSUME NEW lg \in Seq(Result), NEW r \in Result, NEW n \in 0 .. FailMax,
           FailRun(lg, n)
    PROVE  FailRun(Append(lg, r), FailCountAfter(n, r.failed))
<1> DEFINE new == Append(lg, r)
<1>1. /\ Len(lg) \in Nat /\ Len(new) = Len(lg) + 1
      /\ \A k \in 1 .. Len(lg) : new[k] = lg[k]
      /\ new[Len(lg) + 1] = r
  BY AppendResult
<1> HIDE DEF new
<1>2. ASSUME ~r.failed PROVE FailRun(new, FailCountAfter(n, r.failed))
  BY <1>1, <1>2 DEF FailRun, FailCountAfter
<1>3. ASSUME r.failed, n = FailMax PROVE FailRun(new, FailCountAfter(n, r.failed))
  <2>1. FailCountAfter(n, r.failed) = n
    BY <1>3, FailMaxAssumption DEF FailCountAfter
  <2>2. ASSUME NEW k \in Len(new) - n + 1 .. Len(new) PROVE new[k].failed
    <3>1. n \in Nat /\ n <= Len(lg)
      BY FailMaxAssumption DEF FailRun
    <3>2. k = Len(lg) + 1 \/ k \in Len(lg) - n + 1 .. Len(lg)
      BY <3>1, <1>1
    <3>3. CASE k = Len(lg) + 1
      BY <3>3, <1>1, <1>3
    <3>4. CASE k \in Len(lg) - n + 1 .. Len(lg)
      <4>1. k \in 1 .. Len(lg) /\ lg[k].failed
        BY <3>1, <3>4, <1>1 DEF FailRun
      <4> QED
        BY <4>1, <1>1
    <3> QED
      BY <3>2, <3>3, <3>4
  <2> QED
    BY <2>1, <2>2, <1>1, <1>3, FailMaxAssumption DEF FailRun
<1>4. ASSUME r.failed, n < FailMax PROVE FailRun(new, FailCountAfter(n, r.failed))
  <2>1. FailCountAfter(n, r.failed) = n + 1
    BY <1>4 DEF FailCountAfter
  <2>2. \A k \in Len(new) - (n + 1) + 1 .. Len(new) : new[k].failed
    BY <1>1, <1>4 DEF FailRun
  <2>3. n + 1 = Len(new) \/ ~new[Len(new) - (n + 1)].failed
    <3>1. CASE n = Len(lg)
      BY <3>1, <1>1
    <3>2. CASE n /= Len(lg)
      <4>1. Len(lg) - n \in 1 .. Len(lg) /\ ~lg[Len(lg) - n].failed
        BY <3>2, <1>1, <1>4, FailMaxAssumption DEF FailRun
      <4>2. Len(new) - (n + 1) = Len(lg) - n
        BY <1>1
      <4> QED
        BY <4>1, <4>2, <1>1
    <3> QED
      BY <3>1, <3>2
  <2>4. n + 1 <= Len(new)
    BY <1>1 DEF FailRun
  <2>5. FailRun(new, n + 1)
    BY <2>2, <2>3, <2>4 DEF FailRun
  <2> QED
    BY <2>1, <2>5
<1>5. r.failed \in BOOLEAN /\ (n = FailMax \/ n < FailMax)
  BY FailMaxAssumption DEF Result
<1>6. FailRun(new, FailCountAfter(n, r.failed))
  BY <1>2, <1>3, <1>4, <1>5
<1> QED
  BY <1>6 DEF new

\* A window of t failures ends at the new report exactly when failCount has
\* reached t: saturation loses nothing, as thresholds fit in a byte as well.
LEMMA WindowAtEnd ==
    ASSUME NEW lg \in Seq(Result), NEW n \in 0 .. FailMax, NEW t \in 1 .. FailMax,
           lg /= <<>>, FailRun(lg, n)
    PROVE  FailedWindow(lg, t, Len(lg)) <=> n >= t
<1>1. Len(lg) \in Nat
  OBVIOUS
<1>2. CASE n >= t
  BY <1>1, <1>2, FailMaxAssumption DEF FailRun, FailedWindow
<1>3. CASE n < t /\ n = Len(lg)
  BY <1>1, <1>3 DEF FailedWindow
<1>4. CASE n < t /\ n /= Len(lg)
  <2>1. ~lg[Len(lg) - n].failed
    BY <1>1, <1>4, FailMaxAssumption DEF FailRun
  <2>2. t <= Len(lg) => Len(lg) - n \in Len(lg) - t + 1 .. Len(lg)
    BY <1>1, <1>4, FailMaxAssumption
  <2> QED
    BY <1>4, <2>1, <2>2 DEF FailedWindow
<1> QED
  BY <1>2, <1>3, <1>4, FailMaxAssumption

LEMMA ThresholdType == \A i \in Index : EffectiveThreshold(i) \in 1 .. FailMax
BY TableAssumption, FailMaxAssumption DEF EffectiveThreshold

-----------------------------------------------------------------------------
(* Each group of bits keeps its meaning when a result r is reported.       *)

LEMMA SinceClearReport ==
    ASSUME NEW lg \in Seq(Result), NEW r \in Result, NEW i \in Index, NEW n,
           NEW s, SinceClearBits(s, lg)
    PROVE  SinceClearBits(StatusAfterResult(i, s, n, r.failed), Append(lg, r))
<1> DEFINE new == Append(lg, r)
           t == StatusAfterResult(i, s, n, r.failed)
<1>1. /\ Len(lg) \in Nat /\ Len(new) = Len(lg) + 1 /\ new /= <<>>
      /\ \A k \in 1 .. Len(lg) : new[k] = lg[k]
      /\ new[Len(lg) + 1] = r
  BY AppendResult
<1>2. /\ "TF" \in t <=> r.failed
      /\ "TNCSLC" \notin t
      /\ "TFSLC" \in t <=> r.failed \/ "TFSLC" \in s
  BY DEF StatusAfterResult, MarkCompleted
<1> HIDE DEF new, t
<1>3. (\E k \in 1 .. Len(new) : new[k].failed)
         <=> r.failed \/ \E k \in 1 .. Len(lg) : lg[k].failed
  BY <1>1
<1>4. SinceClearBits(t, new)
  BY <1>1, <1>2, <1>3 DEF SinceClearBits
<1> QED
  BY <1>4 DEF new, t

LEMMA CycleReport ==
    ASSUME NEW lg \in Seq(Result), NEW r \in Result, NEW i \in Index, NEW n,
           NEW s, CycleBits(s, lg, r.cycle)
    PROVE  CycleBits(StatusAfterResult(i, s, n, r.failed), Append(lg, r), r.cycle)
<1> DEFINE new == Append(lg, r)
           t == StatusAfterResult(i, s, n, r.failed)
<1>1. /\ Len(lg) \in Nat /\ Len(new) = Len(lg) + 1
      /\ \A k \in 1 .. Len(lg) : new[k] = lg[k]
      /\ new[Len(lg) + 1] = r
  BY AppendResult
<1>2. /\ "TNCTOC" \notin t
      /\ "TFTOC" \in t <=> r.failed \/ "TFTOC" \in s
      /\ "PDTC" \in t <=> r.failed \/ "PDTC" \in s
  BY DEF StatusAfterResult, MarkCompleted
<1>3. r.cycle \in Nat /\ r.cycle <= r.cycle + 1
  BY DEF Result
<1> HIDE DEF new, t
<1>4. InCycle(new, r.cycle) = InCycle(lg, r.cycle) \union {Len(lg) + 1}
  BY <1>1 DEF InCycle
<1>5. (\E k \in InCycle(new, r.cycle) : new[k].failed)
         <=> r.failed \/ \E k \in InCycle(lg, r.cycle) : lg[k].failed
  BY <1>1, <1>4 DEF InCycle
<1>6. (\E k \in 1 .. Len(new) : new[k].failed /\ r.cycle <= new[k].cycle + 1)
         <=> r.failed \/ \E k \in 1 .. Len(lg) : lg[k].failed /\ r.cycle <= lg[k].cycle + 1
  <2>1. 1 .. Len(new) = 1 .. Len(lg) \union {Len(lg) + 1}
    BY <1>1
  <2>2. \A k \in 1 .. Len(lg) : new[k] = lg[k]
    BY <1>1
  <2>3. new[Len(lg) + 1].failed = r.failed /\ r.cycle <= new[Len(lg) + 1].cycle + 1
    BY <1>1, <1>3
  <2> QED
    BY <2>1, <2>2, <2>3, Zenon
<1>7. CycleBits(t, new, r.cycle)
  BY <1>2, <1>4, <1>5, <1>6 DEF CycleBits
<1> QED
  BY <1>7 DEF new, t

LEMMA ConfirmedReport ==
    ASSUME NEW lg \in Seq(Result), NEW r \in Result, NEW i \in Index,
           NEW n \in 0 .. FailMax, FailRun(lg, n),
           NEW s, ConfirmedBit(s, lg, EffectiveThreshold(i))
    PROVE  ConfirmedBit(StatusAfterResult(i, s, n, r.failed), Append(lg, r),
                        EffectiveThreshold(i))
<1> DEFINE new == Append(lg, r)
           t == StatusAfterResult(i, s, n, r.failed)
           m == FailCountAfter(n, r.failed)
           thr == EffectiveThreshold(i)
<1>1. /\ Len(lg) \in Nat /\ Len(new) = Len(lg) + 1
      /\ new \in Seq(Result) /\ new /= <<>>
      /\ \A k \in 1 .. Len(lg) : new[k] = lg[k]
  BY AppendResult
<1>2. m \in 0 .. FailMax /\ thr \in 1 .. FailMax
  <2>1. r.failed \in BOOLEAN
    BY DEF Result
  <2> QED
    BY <2>1, ThresholdType, CountType
<1>3. FailRun(new, m)
  BY FailRunAppend
<1>4. "CDTC" \in t <=> "CDTC" \in s \/ m >= thr
  BY <1>2 DEF StatusAfterResult, MarkCompleted, FailCountAfter
<1> HIDE DEF new, t, m, thr
<1>5. FailedWindow(new, thr, Len(new)) <=> m >= thr
  BY <1>1, <1>2, <1>3, WindowAtEnd
<1>6. ASSUME NEW k \in 1 .. Len(lg)
      PROVE  FailedWindow(new, thr, k) <=> FailedWindow(lg, thr, k)
  <2>1. CASE thr <= k
    <3>1. ASSUME NEW j \in k - thr + 1 .. k PROVE j \in 1 .. Len(lg) /\ new[j] = lg[j]
      BY <3>1, <2>1, <1>1, <1>2
    <3> QED
      BY <3>1, Zenon DEF FailedWindow
  <2>2. CASE ~(thr <= k)
    BY <2>2 DEF FailedWindow
  <2> QED
    BY <2>1, <2>2
<1>7. (\E k \in 1 .. Len(new) : FailedWindow(new, thr, k))
         <=> m >= thr \/ \E k \in 1 .. Len(lg) : FailedWindow(lg, thr, k)
  BY <1>1, <1>5, <1>6
<1>8. ConfirmedBit(s, lg, thr)
  BY DEF thr
<1>9. ConfirmedBit(t, new, thr)
  BY <1>4, <1>7, <1>8 DEF ConfirmedBit
<1> QED
  BY <1>9 DEF new, t, thr

-----------------------------------------------------------------------------
(* The three operations on one entry.                                      *)

\* Status and failCount of the entry i tell what the invariant says of its log.
Told(i, s, n, c, lg) ==
    /\ \A k \in 1 .. Len(lg) : lg[k].cycle <= c
    /\ FailRun(lg, n)
    /\ SinceClearBits(s, lg)
    /\ CycleBits(s, lg, c)
    /\ ConfirmedBit(s, lg, EffectiveThreshold(i))

LEMMA ToldReport ==
    ASSUME NEW i \in Index, NEW s, NEW n \in 0 .. FailMax, NEW c \in Nat, NEW lg \in Seq(Result),
           Told(i, s, n, c, lg), NEW failed \in BOOLEAN
    PROVE  Told(i, StatusAfterResult(i, s, n, failed), FailCountAfter(n, failed), c,
                Append(lg, [failed |-> failed, cycle |-> c]))
<1>1. PICK r \in Result : r = [failed |-> failed, cycle |-> c]
  BY DEF Result
<1>2. r.failed = failed /\ r.cycle = c
  BY <1>1
<1> DEFINE new == Append(lg, r)
           t == StatusAfterResult(i, s, n, r.failed)
           m == FailCountAfter(n, r.failed)
<1>3. \A k \in 1 .. Len(new) : new[k].cycle <= c
  BY <1>2, AppendResult DEF Told
<1>4. FailRun(new, m)
  BY FailRunAppend DEF Told
<1>5. SinceClearBits(t, new)
  BY SinceClearReport DEF Told
<1>6. CycleBits(t, new, c)
  <2>1. CycleBits(s, lg, r.cycle)
    BY <1>2 DEF Told
  <2>2. CycleBits(t, new, r.cycle)
    BY <2>1, CycleReport
  <2> QED
    BY <1>2, <2>2
<1>7. ConfirmedBit(t, new, EffectiveThreshold(i))
  BY ConfirmedReport DEF Told
<1> HIDE DEF new, t, m
<1>8. Told(i, t, m, c, new)
  BY <1>3, <1>4, <1>5, <1>6, <1>7 DEF Told
<1> QED
  BY <1>1, <1>2, <1>8 DEF new, t, m

LEMMA ToldNextCycle ==
    ASSUME NEW i \in Index, NEW s, NEW n \in 0 .. FailMax, NEW c \in Nat, NEW lg \in Seq(Result),
           Told(i, s, n, c, lg)
    PROVE  Told(i, StatusNextCycle(s), n, c + 1, lg)
<1>1. \A k \in 1 .. Len(lg) : lg[k] \in Result
  OBVIOUS
<1>2. \A k \in 1 .. Len(lg) : lg[k].cycle \in Nat /\ lg[k].cycle <= c
  BY <1>1 DEF Told, Result
<1>3. \A k \in 1 .. Len(lg) : lg[k].cycle <= c + 1
  BY <1>2
<1>4. SinceClearBits(StatusNextCycle(s), lg) /\ ConfirmedBit(StatusNextCycle(s), lg, EffectiveThreshold(i))
  BY DEF Told, SinceClearBits, ConfirmedBit, StatusNextCycle
<1>5. CycleBits(StatusNextCycle(s), lg, c + 1)
  <2>1. CycleBits(s, lg, c)
    BY DEF Told
  <2>2. InCycle(lg, c + 1) = {}
    BY <1>2 DEF InCycle
  <2>3. /\ "TNCTOC" \in StatusNextCycle(s)
        /\ "TFTOC" \notin StatusNextCycle(s)
        /\ "PDTC" \in StatusNextCycle(s) <=> "TFTOC" \in s /\ "PDTC" \in s
    BY DEF StatusNextCycle
  <2>4. ASSUME NEW k \in 1 .. Len(lg) PROVE c + 1 <= lg[k].cycle + 1 <=> lg[k].cycle = c
    BY <1>2
  <2>5. (\E k \in 1 .. Len(lg) : lg[k].failed /\ c + 1 <= lg[k].cycle + 1)
           <=> \E k \in InCycle(lg, c) : lg[k].failed
    BY <2>4 DEF InCycle
  <2>6. "TFTOC" \in s => "PDTC" \in s
    BY <1>2, <2>1 DEF CycleBits, InCycle
  <2> QED
    BY <2>1, <2>2, <2>3, <2>5, <2>6 DEF CycleBits
<1> QED
  BY <1>3, <1>4, <1>5 DEF Told

LEMMA ToldInitially == ASSUME NEW i, NEW c PROVE Told(i, StatusInitial, 0, c, <<>>)
BY DEF Told, FailRun, SinceClearBits, CycleBits, InCycle, ConfirmedBit, StatusInitial

\* The invariant, entry by entry.
LEMMA IInvTold ==
    IInv <=> TypeOK /\ \A i \in Index : Told(i, status[i], failCount[i], cycle, log[i])
<1>1. ASSUME TypeOK
      PROVE  (\A i \in Index : Told(i, status[i], failCount[i], cycle, log[i]))
                <=> /\ LogDated /\ FailRunMeaning
                    /\ SinceClearMeaning /\ CycleMeaning /\ ConfirmedMeaning
  BY Zenon DEF Told, LogDated, FailRunMeaning, SinceClearMeaning, CycleMeaning, ConfirmedMeaning
<1> QED
  BY <1>1 DEF IInv

-----------------------------------------------------------------------------
(* The three operations on the table.                                      *)

LEMMA InitIInv == Init => IInv
<1> SUFFICES ASSUME Init PROVE IInv
  OBVIOUS
<1>1. \A i \in Index : log[i] = <<>> /\ failCount[i] = 0 /\ status[i] = StatusInitial
  BY DEF Init
<1>2. \A i \in Index : Told(i, status[i], failCount[i], cycle, log[i])
  BY <1>1, ToldInitially
<1> QED
  BY <1>2, TypeOKInit, IInvTold

LEMMA IInvStep == IInv /\ [Next]_vars => IInv'
<1> SUFFICES ASSUME IInv, [Next]_vars PROVE IInv'
  OBVIOUS
<1>1. TypeOK /\ TypeOK' /\ \A i \in Index : Told(i, status[i], failCount[i], cycle, log[i])
  BY TypeOKStep, IInvTold
<1>2. \A i \in Index : failCount[i] \in 0 .. FailMax /\ cycle \in Nat /\ log[i] \in Seq(Result)
  BY <1>1 DEF TypeOK
<1> SUFFICES ASSUME NEW i \in Index PROVE Told(i, status[i], failCount[i], cycle, log[i])'
  <2>1. (\A i \in Index : Told(i, status[i], failCount[i], cycle, log[i]))' => IInv'
    BY <1>1, IInvTold, PTL
  <2> QED
    BY <2>1
<1>3. ASSUME NEW j \in Index, NEW failed \in BOOLEAN, ReportResult(j, failed)
      PROVE  Told(i, status[i], failCount[i], cycle, log[i])'
  <2>1. CASE i = j
    <3>1. /\ status'[i] = StatusAfterResult(i, status[i], failCount[i], failed)
          /\ failCount'[i] = FailCountAfter(failCount[i], failed)
          /\ log'[i] = Append(log[i], [failed |-> failed, cycle |-> cycle]) /\ cycle' = cycle
      BY <1>1, <1>3, <2>1 DEF ReportResult, TypeOK
    <3> QED
      BY <1>1, <1>2, <3>1, ToldReport
  <2>2. CASE i /= j
    <3>1. status'[i] = status[i] /\ failCount'[i] = failCount[i] /\ log'[i] = log[i] /\ cycle' = cycle
      BY <1>1, <1>3, <2>2 DEF ReportResult, TypeOK
    <3> QED
      BY <1>1, <3>1
  <2> QED
    BY <2>1, <2>2
<1>4. CASE StartOperationCycle
  <2>1. status'[i] = StatusNextCycle(status[i]) /\ failCount'[i] = failCount[i]
        /\ log'[i] = log[i] /\ cycle' = cycle + 1
    BY <1>4 DEF StartOperationCycle
  <2> QED
    BY <1>1, <1>2, <2>1, ToldNextCycle
<1>5. CASE ClearAll
  <2>1. status'[i] = StatusInitial /\ failCount'[i] = 0 /\ log'[i] = <<>> /\ cycle' = cycle
    BY <1>5 DEF ClearAll
  <2> QED
    BY <2>1, ToldInitially
<1>6. CASE UNCHANGED vars
  BY <1>1, <1>6 DEF vars
<1> QED
  BY <1>3, <1>4, <1>5, <1>6 DEF Next

-----------------------------------------------------------------------------
(* Theorems.                                                               *)

\* The inductive invariant, failCount's meaning included, for every table.
THEOREM Invariance == Spec => []IInv
BY InitIInv, IInvStep, PTL DEF Spec

\* Bits 0, 4 and 5 of every status byte tell the results since the last clear.
THEOREM SinceClearCorrect == Spec => []SinceClearMeaning
<1>1. IInv => SinceClearMeaning
  BY DEF IInv
<1> QED
  BY <1>1, Invariance, PTL

\* Bits 1, 2 and 6 tell the results of this and of the last operation cycle.
THEOREM CycleCorrect == Spec => []CycleMeaning
<1>1. IInv => CycleMeaning
  BY DEF IInv
<1> QED
  BY <1>1, Invariance, PTL

\* confirmedDTC is set exactly by confirmThreshold failures in a row, for
\* every threshold of a byte: the saturating failCount never hides one.
THEOREM ConfirmedCorrect == Spec => []ConfirmedMeaning
<1>1. IInv => ConfirmedMeaning
  BY DEF IInv
<1> QED
  BY <1>1, Invariance, PTL

HIDE DEF Index

-----------------------------------------------------------------------------
(* The table under its mutex: who runs.                                    *)

CallOf(pc, op, i, out) == [pc |-> pc, op |-> op, i |-> i, out |-> out]

\* A task runs exactly while it holds the mutex, with a call it may make and at
\* a statement of that call.
TaskInv(t) ==
    /\ task[t] = CallOf(task[t].pc, task[t].op, task[t].i, task[t].out)
    /\ task[t].pc \in {"idle", "lock", "run"}
    /\ task[t].pc = "run" <=> holder = t
    /\ task[t].pc /= "idle" => task[t].op \in Calls[t]
    /\ task[t].i \in Nat
    /\ task[t].pc = "lock" => task[t].i = 0

\* The bounds still leave room for the call of a task that waits: nobody else
\* makes the same.
RoomInv(t) ==
    task[t].pc = "lock" =>
        /\ task[t].op.name = "ReportResult" => Len(log[task[t].op.index]) < MaxResults
        /\ task[t].op.name = "StartOperationCycle" => cycle < MaxCycle

LockInv ==
    /\ DOMAIN status = Index /\ DOMAIN failCount = Index
    /\ cycle \in Nat /\ log \in [Index -> Seq(Result)]
    /\ holder \in Tasks \cup {NoTask}
    /\ DOMAIN task = Tasks
    /\ \A t \in Tasks : TaskInv(t) /\ RoomInv(t)

\* The operations by name.
LEMMA Names ==
    ASSUME NEW op \in Operations
    PROVE  /\ op.name \in {"ReportResult", "GetByStatusMask", "StartOperationCycle", "ClearAll"}
           /\ op.name = "ReportResult" => op.index \in Index /\ op.failed \in BOOLEAN
<1>1. CASE op \in Reports
  <2>1. PICK i \in Index, f \in BOOLEAN : op = [name |-> "ReportResult", index |-> i, failed |-> f]
    BY <1>1 DEF Reports
  <2>2. op.name = "ReportResult" /\ op.index = i /\ op.failed = f
    BY <2>1
  <2> QED
    BY <2>2, Zenon
<1>2. CASE op \in Queries
  BY <1>2 DEF Queries
<1>3. CASE op \in {[name |-> "StartOperationCycle"], [name |-> "ClearAll"]}
  BY <1>3
<1> QED
  BY <1>1, <1>2, <1>3 DEF Operations

LEMMA LockInvInit == LockedInit => LockInv
<1> SUFFICES ASSUME LockedInit PROVE LockInv
  OBVIOUS
<1>1. \A t \in Tasks : task[t] = Idle
  BY DEF LockedInit
<1>2. \A t \in Tasks : TaskInv(t) /\ RoomInv(t)
  BY <1>1, CallsAssumption DEF TaskInv, RoomInv, Idle, LockedInit, CallOf
<1> QED
  BY <1>2 DEF LockedInit, LockInv

-----------------------------------------------------------------------------
(* What each step does to the call of the task that takes it.              *)

LEMMA CallMoves ==
    ASSUME LockInv, NEW t \in Tasks, Call(t)
    PROVE  \E op \in Calls[t] :
              /\ op.name = "ReportResult" => Len(log[op.index]) < MaxResults
              /\ op.name = "StartOperationCycle" => cycle < MaxCycle
              /\ task' = [task EXCEPT ![t] = CallOf("lock", op, 0, <<>>)]
<1>1. PICK op \in Calls[t] :
         /\ op.name = "ReportResult" => Len(log[op.index]) < MaxResults
         /\ op.name = "StartOperationCycle" => cycle < MaxCycle
         /\ task' = [task EXCEPT ![t] = [Idle EXCEPT !.pc = "lock", !.op = op]]
  BY DEF Call
<1>2. [Idle EXCEPT !.pc = "lock", !.op = op] = CallOf("lock", op, 0, <<>>)
  <2> DEFINE waiting == [Idle EXCEPT !.pc = "lock"]
  <2>1. waiting = CallOf("lock", NoOp, 0, <<>>)
    BY DEF Idle, CallOf
  <2>2. [Idle EXCEPT !.pc = "lock", !.op = op] = [waiting EXCEPT !.op = op]
    OBVIOUS
  <2> HIDE DEF waiting
  <2> QED
    BY <2>1, <2>2 DEF CallOf
<1> QED
  BY <1>1, <1>2

LEMMA LockMoves ==
    ASSUME LockInv, NEW t \in Tasks, Lock(t)
    PROVE  task' = [task EXCEPT ![t] = CallOf("run", task[t].op, 0, task[t].out)]
<1>1. task[t] = CallOf(task[t].pc, task[t].op, task[t].i, task[t].out) /\ task[t].i = 0
  BY DEF Lock, LockInv, TaskInv
<1>2. [task[t] EXCEPT !.pc = "run"] = CallOf("run", task[t].op, 0, task[t].out)
  BY <1>1 DEF CallOf
<1>3. task' = [task EXCEPT ![t] = [task[t] EXCEPT !.pc = "run"]]
  BY DEF Lock
<1> QED
  BY <1>2, <1>3

\* A statement inside the critical section.
Statement(t) == ReportStep(t) \/ CycleStep(t) \/ ClearStep(t) \/ QueryStep(t)

LEMMA StatementMoves ==
    ASSUME LockInv, NEW t \in Tasks, Statement(t)
    PROVE  /\ task[t].pc = "run" /\ task[t].i < StepsOf(task[t].op)
           /\ UNCHANGED <<cycle, log, holder>>
           /\ \E out : task' = [task EXCEPT ![t] = CallOf("run", task[t].op, task[t].i + 1, out)]
<1>1. task[t] = CallOf(task[t].pc, task[t].op, task[t].i, task[t].out)
  BY DEF LockInv, TaskInv
<1>2. task[t].pc = "run" /\ task[t].i < StepsOf(task[t].op) /\ UNCHANGED <<cycle, log, holder>>
  BY DEF Statement, ReportStep, CycleStep, ClearStep, QueryStep, Running
<1>3. CASE task' = [task EXCEPT ![t].i = @ + 1]
  <2>1. [task[t] EXCEPT !.i = task[t].i + 1] = CallOf("run", task[t].op, task[t].i + 1, task[t].out)
    BY <1>1, <1>2 DEF CallOf
  <2> QED
    BY <1>2, <1>3, <2>1
<1>4. ASSUME NEW o, task' = [task EXCEPT ![t].i = @ + 1, ![t].out = o]
      PROVE  \E out : task' = [task EXCEPT ![t] = CallOf("run", task[t].op, task[t].i + 1, out)]
  <2> DEFINE counted == [task[t] EXCEPT !.i = task[t].i + 1]
  <2>1. [task[t] EXCEPT !.i = task[t].i + 1, !.out = o] = CallOf("run", task[t].op, task[t].i + 1, o)
    <3>1. counted = CallOf("run", task[t].op, task[t].i + 1, task[t].out)
      BY <1>1, <1>2 DEF CallOf
    <3>2. [task[t] EXCEPT !.i = task[t].i + 1, !.out = o] = [counted EXCEPT !.out = o]
      OBVIOUS
    <3> HIDE DEF counted
    <3> QED
      BY <3>1, <3>2 DEF CallOf
  <2>2. task' = [task EXCEPT ![t] = [task[t] EXCEPT !.i = task[t].i + 1, !.out = o]]
    BY <1>4 DEF LockInv
  <2> QED
    BY <1>2, <2>1, <2>2
<1> QED
  BY <1>2, <1>3, <1>4 DEF Statement, ReportStep, CycleStep, ClearStep, QueryStep, Write

-----------------------------------------------------------------------------
(* The invariant.                                                          *)

\* A statement keeps the table's entries.
LEMMA TableKept ==
    ASSUME LockInv, NEW t \in Tasks, Statement(t)
    PROVE  DOMAIN status' = Index /\ DOMAIN failCount' = Index
BY DEF LockInv, Statement, ReportStep, CycleStep, ClearStep, QueryStep, Write

\* The ghosts keep their types, and another task's call its room.
LEMMA RecordKeeps ==
    ASSUME LockInv, NEW t \in Tasks, task[t].pc = "lock", Record(t)
    PROVE  /\ cycle' \in Nat /\ log' \in [Index -> Seq(Result)]
           /\ \A u \in Tasks \ {t} : task'[u] = task[u] => RoomInv(u)'
<1> DEFINE op == task[t].op
<1>1. op \in Calls[t] /\ op \in Operations
  BY CallsAssumption DEF LockInv, TaskInv
<1>2. ASSUME NEW u \in Tasks \ {t}, task[u].pc = "lock",
             task[u].op.name \in {"ReportResult", "StartOperationCycle"}
      PROVE  task[u].op.name /= op.name
  <2>1. task[u].op \in Calls[u]
    BY <1>2 DEF LockInv, TaskInv
  <2> QED
    BY <1>1, <1>2, <2>1, CallsAssumption
<1>3. ASSUME NEW u \in Tasks, task[u].pc = "lock", task[u].op.name = "ReportResult"
      PROVE  task[u].op.index \in Index
  BY <1>3, CallsAssumption, Names DEF LockInv, TaskInv
<1>4. CASE op.name = "ReportResult"
  <2>1. /\ cycle' = cycle /\ op.index \in Index /\ op.failed \in BOOLEAN
        /\ log' = [log EXCEPT ![op.index] = Append(@, [failed |-> op.failed, cycle |-> cycle])]
    BY <1>1, <1>4, Names DEF Record
  <2>2. [failed |-> op.failed, cycle |-> cycle] \in Result
    BY <2>1, Zenon DEF LockInv, Result
  <2> HIDE DEF op
  <2>3. log' \in [Index -> Seq(Result)]
    BY <2>1, <2>2 DEF LockInv
  <2> QED
    BY <1>2, <1>4, <2>1, <2>3 DEF LockInv, RoomInv
<1>5. CASE op.name = "StartOperationCycle"
  <2>1. cycle' = cycle + 1 /\ log' = log
    BY <1>5 DEF Record
  <2> QED
    BY <1>2, <1>5, <2>1 DEF LockInv, RoomInv
<1>6. CASE op.name = "ClearAll"
  <2>1. cycle' = cycle /\ log' = [i \in Index |-> <<>>]
    BY <1>6 DEF Record
  <2>2. ASSUME NEW u \in Tasks \ {t}, task'[u] = task[u], task[u].pc = "lock",
               task[u].op.name = "ReportResult"
        PROVE  Len(log'[task[u].op.index]) < MaxResults
    <3>1. Len(log[task[u].op.index]) < MaxResults /\ Len(log[task[u].op.index]) \in Nat
      BY <1>3, <2>2 DEF LockInv, RoomInv
    <3> QED
      BY <1>3, <2>1, <2>2, <3>1, BoundAssumption
  <2> QED
    BY <2>1, <2>2 DEF LockInv, RoomInv
<1>7. CASE op.name = "GetByStatusMask"
  BY <1>7 DEF LockInv, RoomInv, Record
<1> QED
  BY <1>1, <1>4, <1>5, <1>6, <1>7, Names

LEMMA LockInvStep == LockInv /\ [LockedNext]_lockedVars => LockInv'
<1> SUFFICES ASSUME LockInv, [LockedNext]_lockedVars PROVE LockInv'
  OBVIOUS
<1>1. ASSUME NEW t \in Tasks, Call(t) PROVE LockInv'
  <2>1. PICK op \in Calls[t] :
           /\ op.name = "ReportResult" => Len(log[op.index]) < MaxResults
           /\ op.name = "StartOperationCycle" => cycle < MaxCycle
           /\ task' = [task EXCEPT ![t] = CallOf("lock", op, 0, <<>>)]
    BY <1>1, CallMoves
  <2>2. UNCHANGED <<status, failCount, cycle, log, holder>> /\ task[t].pc = "idle"
    BY <1>1 DEF Call
  <2>3. TaskInv(t)' /\ RoomInv(t)'
    BY <2>1, <2>2 DEF LockInv, TaskInv, RoomInv, CallOf
  <2>4. ASSUME NEW u \in Tasks \ {t} PROVE TaskInv(u)' /\ RoomInv(u)'
    <3>1. task'[u] = task[u]
      BY <2>1
    <3> QED
      BY <2>2, <3>1 DEF LockInv, TaskInv, RoomInv
  <2> QED
    BY <2>1, <2>2, <2>3, <2>4 DEF LockInv
<1>2. ASSUME NEW t \in Tasks, Lock(t) PROVE LockInv'
  <2>1. task' = [task EXCEPT ![t] = CallOf("run", task[t].op, 0, task[t].out)]
    BY <1>2, LockMoves
  <2>2. /\ UNCHANGED <<status, failCount>> /\ holder = NoTask /\ holder' = t
        /\ task[t].pc = "lock" /\ Record(t)
    BY <1>2 DEF Lock
  <2>3. TaskInv(t)' /\ RoomInv(t)'
    BY <2>1, <2>2 DEF LockInv, TaskInv, RoomInv, CallOf
  <2>4. /\ cycle' \in Nat /\ log' \in [Index -> Seq(Result)]
        /\ \A u \in Tasks \ {t} : RoomInv(u)'
    BY <2>1, <2>2, RecordKeeps DEF LockInv
  <2>5. ASSUME NEW u \in Tasks \ {t} PROVE TaskInv(u)'
    <3>1. task'[u] = task[u]
      BY <2>1
    <3> QED
      BY <2>2, <3>1, CallsAssumption DEF LockInv, TaskInv
  <2> QED
    BY <2>1, <2>2, <2>3, <2>4, <2>5 DEF LockInv
<1>3. ASSUME NEW t \in Tasks, Statement(t) PROVE LockInv'
  <2>1. PICK out : task' = [task EXCEPT ![t] = CallOf("run", task[t].op, task[t].i + 1, out)]
    BY <1>3, StatementMoves
  <2>2. UNCHANGED <<cycle, log, holder>> /\ task[t].pc = "run"
    BY <1>3, StatementMoves
  <2>3. TaskInv(t)' /\ RoomInv(t)'
    BY <2>1, <2>2 DEF LockInv, TaskInv, RoomInv, CallOf
  <2>4. ASSUME NEW u \in Tasks \ {t} PROVE TaskInv(u)' /\ RoomInv(u)'
    <3>1. task'[u] = task[u]
      BY <2>1
    <3> QED
      BY <2>2, <3>1 DEF LockInv, TaskInv, RoomInv
  <2> QED
    BY <1>3, <2>1, <2>2, <2>3, <2>4, TableKept DEF LockInv
<1>4. ASSUME NEW t \in Tasks, Unlock(t) PROVE LockInv'
  <2>1. /\ task' = [task EXCEPT ![t] = Idle] /\ task[t].pc = "run" /\ holder' = NoTask
        /\ UNCHANGED <<status, failCount, cycle, log>>
    BY <1>4 DEF Unlock
  <2>2. holder = t
    BY <2>1 DEF LockInv, TaskInv
  <2>3. TaskInv(t)' /\ RoomInv(t)'
    BY <2>1, CallsAssumption DEF LockInv, TaskInv, RoomInv, Idle, CallOf
  <2>4. ASSUME NEW u \in Tasks \ {t} PROVE TaskInv(u)' /\ RoomInv(u)'
    <3>1. task'[u] = task[u]
      BY <2>1
    <3> QED
      BY <2>1, <2>2, <3>1, CallsAssumption DEF LockInv, TaskInv, RoomInv
  <2> QED
    BY <2>1, <2>3, <2>4 DEF LockInv
<1>5. CASE UNCHANGED lockedVars
  BY <1>5 DEF lockedVars, vars, LockInv, TaskInv, RoomInv
<1> QED
  BY <1>1, <1>2, <1>3, <1>4, <1>5 DEF LockedNext, Step, Statement

-----------------------------------------------------------------------------
(* What is left of a call op at its statement i, applied to the entry e of  *)
(* index d: Completed without the state.                                    *)

Left(op, i, d, e) ==
    CASE op.name = "ReportResult" /\ op.index = d -> RestOfReport(d, e, op.failed, i)
      [] op.name = "StartOperationCycle" /\ d >= i -> CycleStatement(e)
      [] op.name = "ClearAll" /\ d >= i -> ResetEntry
      [] OTHER -> e

LEMMA CompletedLeft ==
    ASSUME NEW d \in Index
    PROVE  Completed(d) = IF holder = NoTask THEN Entry(d)
                          ELSE Left(task[holder].op, task[holder].i, d, Entry(d))
BY DEF Completed, Left

\* Entries are records of two fields.
IsEntry(e) == e = [status |-> e.status, failCount |-> e.failCount]

LEMMA Entries ==
    ASSUME NEW d, NEW e, IsEntry(e), NEW failed, NEW k
    PROVE  IsEntry(ReportStatement(d, e, failed, k)) /\ IsEntry(CycleStatement(e)) /\ IsEntry(ResetEntry)
<1>1. \A x : IsEntry([e EXCEPT !.status = x]) /\ IsEntry([e EXCEPT !.failCount = x])
  BY DEF IsEntry
<1>2. IsEntry(ReportStatement(d, e, failed, k))
  BY <1>1, Zenon DEF ReportStatement
<1>3. IsEntry(CycleStatement(e)) /\ IsEntry(ResetEntry)
  BY <1>1 DEF CycleStatement, ResetEntry, IsEntry
<1> QED
  BY <1>2, <1>3

\* The statements of a report, one after the other, are the report.
LEMMA ReportRest ==
    ASSUME NEW d, NEW e, NEW failed
    PROVE  /\ \A k \in 0 .. 3 : RestOfReport(d, e, failed, k)
                  = RestOfReport(d, ReportStatement(d, e, failed, k), failed, k + 1)
           /\ RestOfReport(d, e, failed, 4) = e
BY DEF RestOfReport

LEMMA ReportWhole ==
    ASSUME NEW d \in Index, NEW e, IsEntry(e), NEW failed \in BOOLEAN
    PROVE  /\ RestOfReport(d, e, failed, 0).status = DM!StatusAfterResult(d, e.status, e.failCount, failed)
           /\ RestOfReport(d, e, failed, 0).failCount = DM!FailCountAfter(e.failCount, failed)
<1> DEFINE e0 == ReportStatement(d, e, failed, 0)
           e1 == ReportStatement(d, e0, failed, 1)
           e2 == ReportStatement(d, e1, failed, 2)
           e3 == ReportStatement(d, e2, failed, 3)
<1>1. RestOfReport(d, e, failed, 0) = e3
  BY DEF RestOfReport
<1>2. PICK s, c : e = [status |-> s, failCount |-> c]
  BY Zenon DEF IsEntry
<1> DEFINE s0 == s \ {"TNCTOC", "TNCSLC"}
           s1 == IF failed THEN s0 \union {"TF", "TFTOC", "TFSLC", "PDTC"} ELSE s0 \ {"TF"}
           c2 == DM!FailCountAfter(c, failed)
           s3 == IF failed /\ c2 >= DM!EffectiveThreshold(d) THEN s1 \union {"CDTC"} ELSE s1
<1>3. e0 = [status |-> s0, failCount |-> c]
  BY <1>2 DEF ReportStatement
<1> HIDE DEF e0
<1>4. e1 = [status |-> s1, failCount |-> c]
  <2>1. CASE failed
    BY <1>3, <2>1, SMTT(30) DEF ReportStatement
  <2>2. CASE ~failed
    BY <1>3, <2>2, SMTT(30) DEF ReportStatement
  <2> QED
    BY <2>1, <2>2, SMTT(30)
<1> HIDE DEF e1, s1
<1>5. e2 = [status |-> s1, failCount |-> c2]
  BY <1>4, SMTT(30) DEF ReportStatement, DM!FailCountAfter
<1> HIDE DEF e2, c2
<1>6. e3 = [status |-> s3, failCount |-> c2]
  BY <1>5 DEF ReportStatement, DM!EffectiveThreshold
<1> HIDE DEF e3
<1>7. s3 = DM!StatusAfterResult(d, s, c, failed)
  BY DEF s1, c2, DM!StatusAfterResult, DM!MarkCompleted
<1> QED
  BY <1>1, <1>2, <1>6, <1>7, SMTT(30) DEF c2
-----------------------------------------------------------------------------
(* The refinement.                                                         *)

\* A function that differs from another at one place.
LEMMA OnePlace ==
    ASSUME NEW S, NEW f, f = [d \in S |-> f[d]], NEW g, g = [d \in S |-> g[d]], NEW i \in S, NEW x,
           \A d \in S : g[d] = IF d = i THEN x ELSE f[d]
    PROVE  g = [f EXCEPT ![i] = x]
<1> DEFINE h == [f EXCEPT ![i] = x]
<1>1. h = [d \in S |-> IF d = i THEN x ELSE f[d]]
  OBVIOUS
<1>2. g = [d \in S |-> IF d = i THEN x ELSE f[d]]
  OBVIOUS
<1> QED
  BY <1>1, <1>2

\* A step that leaves every completed entry as it is.
LEMMA Stutters ==
    ASSUME UNCHANGED <<cycle, log>>, \A d \in Index : Completed(d)' = Completed(d)
    PROVE  UNCHANGED DM!vars
BY DEF DM!vars

\* Nothing is left of a call at its last statement, nor ever of a query.
LEMMA LeftNothing ==
    ASSUME NEW op \in Operations, NEW k, k = StepsOf(op) \/ op.name = "GetByStatusMask",
           NEW d \in Index, NEW e
    PROVE  Left(op, k, d, e) = e
<1>1. CASE op.name = "ReportResult"
  BY <1>1, ReportRest DEF Left, StepsOf
<1>2. CASE op.name \in {"StartOperationCycle", "ClearAll"}
  <2>1. k = Count /\ ~(d >= Count)
    BY <1>2, TableAssumption DEF StepsOf, Index
  <2> QED
    BY <1>2, <2>1 DEF Left
<1>3. CASE op.name = "GetByStatusMask"
  BY <1>3 DEF Left
<1> QED
  BY <1>1, <1>2, <1>3, Names

\* Acquiring the mutex is the whole operation.
LEMMA LockImplements ==
    ASSUME LockInv, LockInv', NEW t \in Tasks, Lock(t)
    PROVE  [DM!Next]_DM!vars
<1> DEFINE op == task[t].op
<1>1. /\ task' = [task EXCEPT ![t] = CallOf("run", op, 0, task[t].out)]
      /\ UNCHANGED <<status, failCount>> /\ holder = NoTask /\ holder' = t
      /\ task[t].pc = "lock" /\ Record(t)
  BY LockMoves DEF Lock
<1>2. op \in Operations /\ RoomInv(t)
  BY <1>1, CallsAssumption, ZenonT(30) DEF LockInv, TaskInv
<1>3. ASSUME NEW d \in Index
      PROVE  Completed(d) = Entry(d) /\ Completed(d)' = Left(op, 0, d, Entry(d)) /\ IsEntry(Entry(d))
  <2>1. task'[t].op = op /\ task'[t].i = 0 /\ t /= NoTask
    BY <1>1, CallsAssumption DEF LockInv, CallOf
  <2>2. Entry(d)' = Entry(d) /\ IsEntry(Entry(d))
    BY <1>1 DEF Entry, IsEntry
  <2> QED
    BY <1>1, <2>1, <2>2 DEF Completed, Left
<1> HIDE DEF op
<1>4. CASE op.name = "ReportResult"
  <2>1. op.index \in Index /\ op.failed \in BOOLEAN
    BY <1>2, <1>4, Names
  <2>2. ASSUME NEW d \in Index
        PROVE  /\ Completed(d).status = status[d] /\ Completed(d).failCount = failCount[d]
               /\ Completed(d)'.status = IF d = op.index THEN DM!StatusAfterResult(d, status[d], failCount[d], op.failed)
                                         ELSE status[d]
               /\ Completed(d)'.failCount = IF d = op.index THEN DM!FailCountAfter(failCount[d], op.failed)
                                            ELSE failCount[d]
    <3>1. Left(op, 0, d, Entry(d)) = IF d = op.index THEN RestOfReport(d, Entry(d), op.failed, 0)
                                     ELSE Entry(d)
      BY <1>4 DEF Left
    <3>2. Entry(d).status = status[d] /\ Entry(d).failCount = failCount[d]
      BY DEF Entry
    <3> QED
      BY <1>3, <2>1, <3>1, <3>2, ReportWhole
  <2>3. Len(log[op.index]) < MaxResults /\ cycle' = cycle
        /\ log' = [log EXCEPT ![op.index] = Append(@, [failed |-> op.failed, cycle |-> cycle])]
    BY <1>1, <1>2, <1>4 DEF Record, RoomInv, op
  <2>4. /\ [d \in Index |-> Completed(d).status]'
             = [[d \in Index |-> Completed(d).status] EXCEPT ![op.index] =
                   DM!StatusAfterResult(op.index, @, [d \in Index |-> Completed(d).failCount][op.index], op.failed)]
        /\ [d \in Index |-> Completed(d).failCount]'
             = [[d \in Index |-> Completed(d).failCount] EXCEPT ![op.index] = DM!FailCountAfter(@, op.failed)]
    <3> DEFINE s == [d \in Index |-> Completed(d).status]
               n == [d \in Index |-> Completed(d).failCount]
               x == DM!StatusAfterResult(op.index, status[op.index], failCount[op.index], op.failed)
               y == DM!FailCountAfter(failCount[op.index], op.failed)
    <3>1. /\ \A d \in Index : s[d] = status[d] /\ n[d] = failCount[d]
          /\ \A d \in Index : s'[d] = (IF d = op.index THEN x ELSE s[d])
          /\ \A d \in Index : n'[d] = (IF d = op.index THEN y ELSE n[d])
      BY <2>2, Zenon
    <3>2. /\ s = [d \in Index |-> s[d]] /\ s' = [d \in Index |-> s'[d]]
          /\ n = [d \in Index |-> n[d]] /\ n' = [d \in Index |-> n'[d]]
      BY Zenon
    <3> HIDE DEF s, n, x, y
    <3>3. s' = [s EXCEPT ![op.index] = x]
      BY <2>1, <3>1, <3>2, OnePlace, Zenon
    <3>4. n' = [n EXCEPT ![op.index] = y]
      BY <2>1, <3>1, <3>2, OnePlace, Zenon
    <3>5. s[op.index] = status[op.index] /\ n[op.index] = failCount[op.index]
      BY <2>1, <3>1, Zenon
    <3> QED
      BY <3>3, <3>4, <3>5, Zenon DEF s, n, x, y
  <2>5. DM!ReportResult(op.index, op.failed)
    BY <2>3, <2>4 DEF DM!ReportResult
  <2> QED
    BY <2>1, <2>5 DEF DM!Next, DM!Index, Index
<1>5. CASE op.name = "StartOperationCycle"
  <2>1. ASSUME NEW d \in Index
        PROVE  /\ Completed(d)'.status = DM!StatusNextCycle(Completed(d).status)
               /\ Completed(d)'.failCount = Completed(d).failCount
    <3>1. Completed(d)' = CycleStatement(Entry(d)) /\ IsEntry(Entry(d)) /\ Completed(d) = Entry(d)
      BY <1>3, <1>5 DEF Left, Index
    <3> QED
      BY <3>1 DEF CycleStatement, IsEntry, DM!StatusNextCycle
  <2>2. cycle < MaxCycle /\ cycle' = cycle + 1 /\ log' = log
    BY <1>1, <1>2, <1>5 DEF Record, RoomInv, op
  <2>3. DM!StartOperationCycle
    BY <2>1, <2>2 DEF DM!StartOperationCycle, DM!Index, Index
  <2> QED
    BY <2>3 DEF DM!Next
<1>6. CASE op.name = "ClearAll"
  <2>1. ASSUME NEW d \in Index PROVE Completed(d)' = ResetEntry
    BY <1>3, <1>6 DEF Left, Index
  <2>2. cycle' = cycle /\ log' = [i \in Index |-> <<>>]
    BY <1>1, <1>6 DEF Record, op
  <2>3. DM!ClearAll
    BY <2>1, <2>2 DEF DM!ClearAll, DM!Index, Index, DM!StatusInitial, ResetEntry
  <2> QED
    BY <2>3 DEF DM!Next
<1>7. CASE op.name = "GetByStatusMask"
  <2>1. UNCHANGED <<cycle, log>>
    BY <1>1, <1>7 DEF Record, op
  <2>2. \A d \in Index : Completed(d)' = Completed(d)
    BY <1>3, <1>7 DEF Left
  <2> QED
    BY <2>1, <2>2, Stutters
<1> QED
  BY <1>2, <1>4, <1>5, <1>6, <1>7, Names

\* Inside the critical section nothing changes for an observer.
LEMMA StatementImplements ==
    ASSUME LockInv, NEW t \in Tasks, Statement(t)
    PROVE  UNCHANGED DM!vars
<1> DEFINE op == task[t].op
           k  == task[t].i
<1>1. /\ task[t].pc = "run" /\ k < StepsOf(op) /\ k \in Nat
      /\ UNCHANGED <<cycle, log, holder>> /\ holder = t /\ t /= NoTask
      /\ op \in Operations
  BY StatementMoves, CallsAssumption DEF LockInv, TaskInv
<1>2. task'[t].op = op /\ task'[t].i = k + 1
  <2>1. PICK out : task' = [task EXCEPT ![t] = CallOf("run", op, k + 1, out)]
    BY StatementMoves
  <2> QED
    BY <2>1 DEF LockInv, CallOf
<1>3. ASSUME NEW d \in Index, Left(op, k + 1, d, Entry(d)') = Left(op, k, d, Entry(d))
      PROVE  Completed(d)' = Completed(d)
  BY <1>1, <1>2, <1>3 DEF Completed, Left
<1>4. ASSUME NEW d \in Index PROVE Left(op, k + 1, d, Entry(d)') = Left(op, k, d, Entry(d))
  <2>1. IsEntry(Entry(d))
    BY DEF Entry, IsEntry
  <2>2. ASSUME NEW i \in Index, NEW e, IsEntry(e),
               status' = [status EXCEPT ![i] = e.status], failCount' = [failCount EXCEPT ![i] = e.failCount]
        PROVE  Entry(d)' = IF d = i THEN e ELSE Entry(d)
    BY <2>2 DEF LockInv, Entry, IsEntry
  <2>3. CASE ReportStep(t)
    <3> DEFINE e == ReportStatement(op.index, Entry(op.index), op.failed, k)
    <3>1. op.name = "ReportResult" /\ op.index \in Index /\ k \in 0 .. 3
      BY <1>1, <2>3, Names DEF ReportStep, Running, StepsOf
    <3>2. IsEntry(e)
      BY Entries DEF Entry, IsEntry
    <3>3. Entry(d)' = IF d = op.index THEN e ELSE Entry(d)
      <4>1. status' = [status EXCEPT ![op.index] = e.status]
            /\ failCount' = [failCount EXCEPT ![op.index] = e.failCount]
        BY <2>3 DEF ReportStep, Write
      <4> QED
        BY <2>2, <3>1, <3>2, <4>1
    <3> QED
      BY <3>1, <3>3, ReportRest DEF Left
  <2>4. CASE CycleStep(t)
    <3>1. op.name = "StartOperationCycle" /\ k \in Index
      BY <1>1, <2>4, TableAssumption DEF CycleStep, Running, StepsOf, Index
    <3>2. Entry(d)' = IF d = k THEN CycleStatement(Entry(k)) ELSE Entry(d)
      <4>1. IsEntry(CycleStatement(Entry(k)))
        BY Entries DEF Entry, IsEntry
      <4> QED
        BY <2>2, <2>4, <3>1, <4>1 DEF CycleStep, Write
    <3> QED
      BY <3>1, <3>2 DEF Left, Index
  <2>5. CASE ClearStep(t)
    <3>1. op.name = "ClearAll" /\ k \in Index
      BY <1>1, <2>5, TableAssumption DEF ClearStep, Running, StepsOf, Index
    <3>2. Entry(d)' = IF d = k THEN ResetEntry ELSE Entry(d)
      <4>1. IsEntry(ResetEntry)
        BY DEF ResetEntry, IsEntry
      <4> QED
        BY <2>2, <2>5, <3>1, <4>1 DEF ClearStep, Write
    <3> QED
      BY <3>1, <3>2 DEF Left, Index
  <2>6. CASE QueryStep(t)
    BY <2>6 DEF QueryStep, Running, Left, Entry
  <2> QED
    BY <2>3, <2>4, <2>5, <2>6 DEF Statement
<1> HIDE DEF op, k
<1> QED
  BY <1>1, <1>3, <1>4, Stutters

\* Nor when the mutex is released.
LEMMA UnlockImplements ==
    ASSUME LockInv, NEW t \in Tasks, Unlock(t)
    PROVE  UNCHANGED DM!vars
<1>1. /\ task[t].i = StepsOf(task[t].op) \/ task[t].op.name = "GetByStatusMask"
      /\ holder = t /\ t /= NoTask /\ holder' = NoTask
      /\ UNCHANGED <<status, failCount, cycle, log>> /\ task[t].op \in Operations
  BY CallsAssumption DEF Unlock, Finished, LockInv, TaskInv
<1>2. ASSUME NEW d \in Index PROVE Completed(d)' = Completed(d)
  <2>1. Completed(d) = Entry(d)
    BY <1>1, LeftNothing, CompletedLeft
  <2>2. Completed(d)' = Entry(d)
    BY <1>1 DEF Completed, Entry
  <2> QED
    BY <2>1, <2>2
<1> QED
  BY <1>1, <1>2, Stutters

LEMMA InitImplements == LockedInit => DM!Init
<1> SUFFICES ASSUME LockedInit PROVE DM!Init
  OBVIOUS
<1>1. \A d \in Index : Completed(d) = ResetEntry
  BY DEF LockedInit, Completed, Entry, ResetEntry
<1> QED
  BY <1>1 DEF LockedInit, DM!Init, DM!Index, Index, DM!StatusInitial, ResetEntry

LEMMA StepImplements == LockInv /\ [LockedNext]_lockedVars => [DM!Next]_DM!vars
<1> SUFFICES ASSUME LockInv, [LockedNext]_lockedVars PROVE [DM!Next]_DM!vars
  OBVIOUS
<1>0. LockInv'
  BY LockInvStep
<1>1. ASSUME NEW t \in Tasks, Call(t) PROVE UNCHANGED DM!vars
  <2>1. UNCHANGED <<status, failCount, cycle, log, holder>> /\ task[t].pc = "idle"
    BY <1>1 DEF Call
  <2>2. holder /= NoTask => task'[holder] = task[holder]
    BY <1>1, <2>1, CallMoves DEF LockInv, TaskInv
  <2>3. \A d \in Index : Completed(d)' = Completed(d)
    BY <2>1, <2>2 DEF Completed, Entry
  <2> QED
    BY <2>1, <2>3, Stutters
<1>2. CASE UNCHANGED lockedVars
  BY <1>2, Stutters DEF lockedVars, vars, Completed, Entry
<1> QED
  BY <1>0, <1>1, <1>2, LockImplements, StatementImplements, UnlockImplements DEF LockedNext, Step, Statement

\* Calls of any number of tasks under the mutex are atomic calls of the DTC
\* manager (dtc_manager.h:19), whatever the table.
THEOREM AtomicCorrect == LockedSpec => Atomic
<1>1. LockedInit => LockInv /\ DM!Init
  BY LockInvInit, InitImplements
<1>2. LockInv /\ [LockedNext]_lockedVars => LockInv' /\ [DM!Next]_DM!vars
  BY LockInvStep, StepImplements
<1> QED
  BY <1>1, <1>2, PTL DEF LockedSpec, Atomic, DM!Spec

-----------------------------------------------------------------------------
(* The queries.  While one runs its task holds the mutex, so that no entry *)
(* changes, and an iteration adds the record of one more entry.            *)

\* The entries hold the bits of a status byte.
StatusBits == \A d \in Index : status[d] \subseteq DM!Bits

Row == [code : Nat, status : SUBSET DM!Bits]

\* The records of a query; they are collected from nothing.
Collected(t) ==
    /\ task[t].out \in Seq(Row)
    /\ task[t].pc /= "run" => task[t].out = <<>>

SnapshotInv == StatusBits /\ SnapshotReads /\ \A t \in Tasks : Collected(t)

LEMMA StatementBits ==
    ASSUME NEW d, NEW e, e.status \subseteq DM!Bits, IsEntry(e), NEW failed, NEW k
    PROVE  /\ ReportStatement(d, e, failed, k).status \subseteq DM!Bits
           /\ CycleStatement(e).status \subseteq DM!Bits
           /\ ResetEntry.status \subseteq DM!Bits
<1>1. PICK s, c : e = [status |-> s, failCount |-> c]
  BY Zenon DEF IsEntry
<1>2. ReportStatement(d, e, failed, k).status \subseteq DM!Bits
  <2>1. CASE k = 0
    BY <1>1, <2>1, SMTT(30) DEF ReportStatement
  <2>2. CASE k = 1
    BY <1>1, <2>2, SMTT(30) DEF ReportStatement, DM!Bits
  <2>3. CASE k = 2
    BY <1>1, <2>3, SMTT(30) DEF ReportStatement
  <2>4. CASE k = 3
    BY <1>1, <2>4, SMTT(30) DEF ReportStatement, DM!Bits
  <2>5. CASE k \notin 0 .. 3
    BY <1>1, <2>5 DEF ReportStatement
  <2> QED
    BY <2>1, <2>2, <2>3, <2>4, <2>5, SMTT(30)
<1>3. CycleStatement(e).status \subseteq DM!Bits
  BY <1>1 DEF CycleStatement, DM!Bits
<1>4. ResetEntry.status \subseteq DM!Bits
  BY DEF ResetEntry, DM!Bits
<1> QED
  BY <1>2, <1>3, <1>4

\* A statement that writes keeps the bits.
LEMMA StatusBitsKept ==
    ASSUME LockInv, StatusBits, NEW t \in Tasks, Statement(t)
    PROVE  StatusBits'
<1> DEFINE op == task[t].op
           k  == task[t].i
<1>1. op \in Operations /\ k \in Nat /\ k < StepsOf(op)
  BY StatementMoves, CallsAssumption DEF LockInv, TaskInv
<1>2. ASSUME NEW i \in Index, NEW x, x \subseteq DM!Bits, status' = [status EXCEPT ![i] = x]
      PROVE  StatusBits'
  BY <1>2 DEF LockInv, StatusBits
<1>3. \A d \in Index : IsEntry(Entry(d)) /\ Entry(d).status \subseteq DM!Bits
  BY DEF Entry, IsEntry, StatusBits
<1> HIDE DEF op, k
<1>4. CASE ReportStep(t)
  <2>1. op.index \in Index
    BY <1>1, <1>4, Names DEF ReportStep, Running, op
  <2>2. ReportStatement(op.index, Entry(op.index), op.failed, k).status \subseteq DM!Bits
    BY <1>3, <2>1, StatementBits
  <2> QED
    BY <1>2, <1>4, <2>1, <2>2 DEF ReportStep, Write, op, k
<1>5. CASE CycleStep(t)
  <2>1. k \in Index
    BY <1>1, <1>5, TableAssumption DEF CycleStep, Running, StepsOf, Index, op
  <2>2. CycleStatement(Entry(k)).status \subseteq DM!Bits
    BY <1>3, <2>1, StatementBits
  <2> QED
    BY <1>2, <1>5, <2>1, <2>2 DEF CycleStep, Write, k
<1>6. CASE ClearStep(t)
  <2>1. k \in Index
    BY <1>1, <1>6, TableAssumption DEF ClearStep, Running, StepsOf, Index, op
  <2>2. ResetEntry.status \subseteq DM!Bits
    BY DEF ResetEntry, DM!Bits
  <2> QED
    BY <1>2, <1>6, <2>1, <2>2 DEF ClearStep, Write, k
<1>7. CASE QueryStep(t)
  BY <1>7 DEF QueryStep, StatusBits
<1> QED
  BY <1>4, <1>5, <1>6, <1>7 DEF Statement

\* The record of the entry n, if it matches, ends what a query has collected.
AfterEntry(st, out, mask, n) ==
    IF (st[n] \intersect mask) \ {"WIR"} /= {}
    THEN Append(out, [code |-> n, status |-> st[n] \ {"WIR"}]) ELSE out

LEMMA ListsNext ==
    ASSUME NEW st, NEW out \in Seq(Row), NEW mask, NEW n \in Nat, st[n] \subseteq DM!Bits,
           DM!Lists(st, out, mask, n)
    PROVE  /\ AfterEntry(st, out, mask, n) \in Seq(Row)
           /\ Len(AfterEntry(st, out, mask, n)) <= Len(out) + 1
           /\ DM!Lists(st, AfterEntry(st, out, mask, n), mask, n + 1)
<1> DEFINE rec == [code |-> n, status |-> st[n] \ {"WIR"}]
           new == AfterEntry(st, out, mask, n)
<1>1. /\ st[n] \ {"WIR"} = st[n] \intersect DM!AvailabilityMask
      /\ (st[n] \intersect mask) \ {"WIR"} = st[n] \intersect mask \intersect DM!AvailabilityMask
  BY DEF DM!AvailabilityMask
<1>2. DM!Matches(st[n], mask) <=> (st[n] \intersect mask) \ {"WIR"} /= {}
  BY <1>1 DEF DM!Matches
<1>3. rec \in Row /\ rec.code = n /\ rec.status = st[n] \intersect DM!AvailabilityMask
  BY <1>1 DEF Row
<1>4. \A k \in 1 .. Len(out) : out[k].code \in 0 .. n - 1
  BY Zenon DEF DM!Lists
<1>5. \A d \in 0 .. n : d \in 0 .. n - 1 \/ d = n
  OBVIOUS
<1>6. CASE DM!Matches(st[n], mask)
  <2>1. new = Append(out, rec)
    BY <1>2, <1>6 DEF AfterEntry
  <2> HIDE DEF rec, new
  <2>2. /\ new \in Seq(Row) /\ Len(new) = Len(out) + 1 /\ new[Len(out) + 1] = rec
        /\ \A k \in 1 .. Len(out) : new[k] = out[k]
    BY <1>3, <2>1
  <2>3. ASSUME NEW k \in 1 .. Len(new)
        PROVE  /\ new[k].code \in 0 .. n /\ DM!Matches(st[new[k].code], mask)
               /\ new[k].status = st[new[k].code] \intersect DM!AvailabilityMask
               /\ k > 1 => new[k - 1].code < new[k].code
    <3>1. CASE k \in 1 .. Len(out)
      <4>1. new[k] = out[k] /\ (k > 1 => new[k - 1] = out[k - 1])
        BY <2>2, <3>1
      <4>2. /\ out[k].code \in 0 .. n - 1 /\ DM!Matches(st[out[k].code], mask)
            /\ out[k].status = st[out[k].code] \intersect DM!AvailabilityMask
            /\ k > 1 => out[k - 1].code < out[k].code
        BY <3>1, Zenon DEF DM!Lists
      <4> QED
        BY <4>1, <4>2
    <3>2. CASE k = Len(out) + 1
      <4>1. k > 1 => new[k - 1].code \in 0 .. n - 1
        BY <1>4, <2>2, <3>2
      <4> QED
        BY <1>3, <1>6, <2>2, <3>2, <4>1
    <3> QED
      BY <2>2, <3>1, <3>2
  <2>4. ASSUME NEW d \in 0 .. n, DM!Matches(st[d], mask)
        PROVE  \E k \in 1 .. Len(new) : new[k].code = d
    <3>1. CASE d = n
      BY <1>3, <2>2, <3>1
    <3>2. CASE d \in 0 .. n - 1
      <4>1. PICK k \in 1 .. Len(out) : out[k].code = d
        BY <2>4, <3>2, Zenon DEF DM!Lists
      <4> QED
        BY <2>2, <4>1
    <3> QED
      BY <1>5, <3>1, <3>2
  <2>5. (n + 1) - 1 = n
    OBVIOUS
  <2> QED
    BY <2>2, <2>3, <2>4, <2>5 DEF DM!Lists, new
<1>7. CASE ~DM!Matches(st[n], mask)
  <2>1. new = out
    BY <1>2, <1>7 DEF AfterEntry
  <2>2. (n + 1) - 1 = n /\ 0 .. n - 1 \subseteq 0 .. n
    OBVIOUS
  <2>3. DM!Lists(st, new, mask, n + 1)
    BY <1>5, <1>7, <2>1, <2>2 DEF DM!Lists
  <2>4. new \in Seq(Row) /\ Len(new) <= Len(out) + 1
    BY <2>1
  <2> QED
    BY <2>3, <2>4
<1> QED
  BY <1>6, <1>7

LEMMA QueryMoves ==
    ASSUME LockInv, NEW t \in Tasks, QueryStep(t)
    PROVE  task' = [task EXCEPT ![t] = CallOf("run", task[t].op, task[t].i + 1,
                                   AfterEntry(status, task[t].out, task[t].op.mask, task[t].i))]
<1> DEFINE out == AfterEntry(status, task[t].out, task[t].op.mask, task[t].i)
           i   == task[t].i + 1
<1>1. task[t] = CallOf(task[t].pc, task[t].op, task[t].i, task[t].out) /\ task[t].pc = "run"
  BY DEF LockInv, TaskInv, QueryStep, Running
<1>2. task' = [task EXCEPT ![t] = [task[t] EXCEPT !.i = i, !.out = out]]
  BY DEF QueryStep, AfterEntry, LockInv
<1> HIDE DEF out, i
<1> DEFINE counted == [task[t] EXCEPT !.i = i]
<1>3. counted = CallOf("run", task[t].op, i, task[t].out)
  BY <1>1 DEF CallOf
<1>4. [task[t] EXCEPT !.i = i, !.out = out] = CallOf("run", task[t].op, i, out)
  <2>1. [task[t] EXCEPT !.i = i, !.out = out] = [counted EXCEPT !.out = out]
    OBVIOUS
  <2> HIDE DEF counted
  <2> QED
    BY <1>3, <2>1 DEF CallOf
<1> QED
  BY <1>2, <1>4 DEF out, i

\* A query under way has a buffer for some number of records.
LEMMA QueryRoom ==
    ASSUME LockInv, NEW t \in Tasks, task[t].pc \in {"lock", "run"},
           task[t].op.name = "GetByStatusMask"
    PROVE  task[t].op.maxRecords \in Nat
<1>1. task[t].op \in Operations
  BY CallsAssumption DEF LockInv, TaskInv
<1>2. task[t].op \in Queries
  BY <1>1 DEF Operations, Reports
<1> QED
  BY <1>2, RoomsAssumption DEF Queries

\* Another statement collects nothing.
LEMMA WriteMoves ==
    ASSUME LockInv, NEW t \in Tasks, ReportStep(t) \/ CycleStep(t) \/ ClearStep(t)
    PROVE  task'[t].out = task[t].out /\ task[t].op.name /= "GetByStatusMask"
           /\ task'[t].op = task[t].op /\ task'[t].pc = "run"
<1>1. task' = [task EXCEPT ![t] = [task[t] EXCEPT !.i = @ + 1]] /\ task[t].pc = "run"
  BY DEF ReportStep, CycleStep, ClearStep, Write, Running
<1>2. task[t] = CallOf(task[t].pc, task[t].op, task[t].i, task[t].out)
  BY DEF LockInv, TaskInv
<1>3. task[t].op.name /= "GetByStatusMask"
  BY DEF ReportStep, CycleStep, ClearStep, Running
<1> QED
  BY <1>1, <1>2, <1>3 DEF LockInv, CallOf

LEMMA SnapshotInit == LockedInit => SnapshotInv
<1> SUFFICES ASSUME LockedInit PROVE SnapshotInv
  OBVIOUS
<1>1. \A t \in Tasks : task[t] = Idle
  BY DEF LockedInit
<1>2. \A t \in Tasks : Collected(t) /\ task[t].pc = "idle"
  <2>1. \A t \in Tasks : task[t].out = <<>> /\ task[t].pc = "idle"
    BY <1>1 DEF Idle
  <2>2. <<>> \in Seq(Row)
    OBVIOUS
  <2> QED
    BY <2>1, <2>2, Zenon DEF Collected
<1>3. StatusBits
  BY DEF LockedInit, StatusBits, ResetEntry, DM!Bits
<1> QED
  BY <1>2, <1>3 DEF SnapshotInv, SnapshotReads

LEMMA SnapshotStep == LockInv /\ SnapshotInv /\ [LockedNext]_lockedVars => SnapshotInv'
<1> SUFFICES ASSUME LockInv, SnapshotInv, [LockedNext]_lockedVars PROVE SnapshotInv'
  OBVIOUS
<1> DEFINE Snapshot(t) == task[t].pc = "run" /\ task[t].op.name = "GetByStatusMask"
                            => /\ DM!Lists(status, task[t].out, task[t].op.mask, task[t].i)
                               /\ Len(task[t].out) <= task[t].op.maxRecords
<1>1. SnapshotInv <=> StatusBits /\ \A t \in Tasks : Snapshot(t) /\ Collected(t)
  BY DEF SnapshotInv, SnapshotReads
<1>2. SnapshotInv' <=> StatusBits' /\ \A t \in Tasks : Snapshot(t)' /\ Collected(t)'
  BY DEF SnapshotInv, SnapshotReads
<1>3. ASSUME NEW t \in Tasks, task'[t] = task[t], status' = status
      PROVE  Snapshot(t)' /\ Collected(t)'
  BY <1>1, <1>3 DEF Collected
<1>4. ASSUME NEW t \in Tasks, Call(t) PROVE SnapshotInv'
  <2>1. PICK op \in Calls[t] : task' = [task EXCEPT ![t] = CallOf("lock", op, 0, <<>>)]
    BY <1>4, CallMoves
  <2>2. status' = status
    BY <1>4 DEF Call
  <2>3. task'[t] = CallOf("lock", op, 0, <<>>) /\ \A u \in Tasks \ {t} : task'[u] = task[u]
    BY <2>1 DEF LockInv
  <2>4. Snapshot(t)' /\ Collected(t)'
    BY <2>3 DEF Collected, CallOf
  <2> QED
    BY <1>1, <1>2, <1>3, <2>2, <2>3, <2>4 DEF StatusBits
<1>5. ASSUME NEW t \in Tasks, Lock(t) PROVE SnapshotInv'
  <2>1. task' = [task EXCEPT ![t] = CallOf("run", task[t].op, 0, task[t].out)]
    BY <1>5, LockMoves
  <2>2. status' = status /\ task[t].pc = "lock"
    BY <1>5 DEF Lock
  <2>3. task[t].out = <<>>
    BY <1>1, <2>2 DEF Collected
  <2>4. task'[t] = CallOf("run", task[t].op, 0, <<>>) /\ \A u \in Tasks \ {t} : task'[u] = task[u]
    BY <2>1, <2>3 DEF LockInv
  <2>5. DM!Lists(status, <<>>, task[t].op.mask, 0)
        /\ (task[t].op.name = "GetByStatusMask" => Len(<<>>) <= task[t].op.maxRecords)
    <3>1. task[t].op.name = "GetByStatusMask" => task[t].op.maxRecords \in Nat
      BY <2>2, QueryRoom
    <3> QED
      BY <3>1 DEF DM!Lists
  <2>6. Snapshot(t)' /\ Collected(t)'
    BY <2>2, <2>4, <2>5 DEF Collected, CallOf
  <2> QED
    BY <1>1, <1>2, <1>3, <2>2, <2>4, <2>6 DEF StatusBits
<1>6. ASSUME NEW t \in Tasks, ReportStep(t) \/ CycleStep(t) \/ ClearStep(t) PROVE SnapshotInv'
  <2>1. Statement(t) /\ task[t].pc = "run" /\ holder = t
    BY <1>6, StatementMoves DEF Statement, LockInv, TaskInv
  <2>2. \A u \in Tasks \ {t} : task'[u] = task[u] /\ task[u].pc /= "run"
    BY <1>6, <2>1 DEF ReportStep, CycleStep, ClearStep, Write, LockInv, TaskInv
  <2>3. ASSUME NEW u \in Tasks \ {t} PROVE Snapshot(u)' /\ Collected(u)'
    BY <1>1, <2>2 DEF Collected
  <2>4. Snapshot(t)' /\ Collected(t)'
    BY <1>1, <1>6, <2>1, WriteMoves DEF Collected
  <2> QED
    BY <1>1, <1>2, <2>1, <2>3, <2>4, StatusBitsKept
<1>7. ASSUME NEW t \in Tasks, QueryStep(t) PROVE SnapshotInv'
  <2> DEFINE out == AfterEntry(status, task[t].out, task[t].op.mask, task[t].i)
  <2>1. task'[t] = CallOf("run", task[t].op, task[t].i + 1, out)
        /\ \A u \in Tasks \ {t} : task'[u] = task[u]
    BY <1>7, QueryMoves DEF LockInv
  <2>2. status' = status /\ task[t].pc = "run" /\ task[t].op.name = "GetByStatusMask"
        /\ task[t].i < StepsOf(task[t].op) /\ Len(task[t].out) < task[t].op.maxRecords
    BY <1>7 DEF QueryStep, Running
  <2>3. task[t].i \in Nat /\ task[t].i \in Index
    <3>1. task[t].i \in Nat
      BY DEF LockInv, TaskInv
    <3>2. StepsOf(task[t].op) = Count
      BY <2>2 DEF StepsOf
    <3> QED
      BY <2>2, <3>1, <3>2, TableAssumption DEF Index
  <2>4. task[t].out \in Seq(Row) /\ status[task[t].i] \subseteq DM!Bits
        /\ DM!Lists(status, task[t].out, task[t].op.mask, task[t].i)
    BY <1>1, <2>2, <2>3 DEF Collected, StatusBits
  <2>5. out \in Seq(Row) /\ DM!Lists(status, out, task[t].op.mask, task[t].i + 1)
        /\ Len(out) <= task[t].op.maxRecords
    <3>1. Len(out) <= Len(task[t].out) + 1 /\ out \in Seq(Row)
          /\ DM!Lists(status, out, task[t].op.mask, task[t].i + 1)
      BY <2>3, <2>4, ListsNext
    <3>2. task[t].op.maxRecords \in Nat
      BY <2>2, QueryRoom
    <3>3. Len(task[t].out) \in Nat /\ Len(out) \in Nat
      BY <2>4, <3>1
    <3> HIDE DEF out
    <3> QED
      BY <2>2, <3>1, <3>2, <3>3
  <2> HIDE DEF out
  <2>6. Snapshot(t)' /\ Collected(t)'
    BY <2>1, <2>2, <2>5 DEF Collected, CallOf
  <2> QED
    BY <1>1, <1>2, <1>3, <2>1, <2>2, <2>6 DEF StatusBits
<1>8. ASSUME NEW t \in Tasks, Unlock(t) PROVE SnapshotInv'
  <2>1. task'[t] = Idle /\ status' = status /\ \A u \in Tasks \ {t} : task'[u] = task[u]
    BY <1>8 DEF Unlock, LockInv
  <2>2. Snapshot(t)' /\ Collected(t)'
    BY <2>1 DEF Collected, Idle
  <2> QED
    BY <1>1, <1>2, <1>3, <2>1, <2>2 DEF StatusBits
<1>9. CASE UNCHANGED lockedVars
  BY <1>1, <1>2, <1>3, <1>9 DEF lockedVars, vars, StatusBits
<1> QED
  BY <1>4, <1>5, <1>6, <1>7, <1>8, <1>9 DEF LockedNext, Step

\* A query sees one state of the table, however the calls of the tasks interleave:
\* what it has collected is at every moment what the table holds.
THEOREM SnapshotReadsCorrect == LockedSpec => []SnapshotReads
<1>1. LockedInit => LockInv /\ SnapshotInv
  BY LockInvInit, SnapshotInit
<1>2. LockInv /\ SnapshotInv /\ [LockedNext]_lockedVars => LockInv' /\ SnapshotInv'
  BY LockInvStep, SnapshotStep
<1>3. SnapshotInv => SnapshotReads
  BY DEF SnapshotInv
<1> QED
  BY <1>1, <1>2, <1>3, PTL DEF LockedSpec

-----------------------------------------------------------------------------
(* Both together: what the bits of the real table mean.                    *)

\* What the holder will have made of the table tells the calls that took the mutex.
CompletedTold ==
    \A d \in Index :
        /\ Completed(d).failCount \in 0 .. FailMax
        /\ Told(d, Completed(d).status, Completed(d).failCount, cycle, log[d])

\* The instance computes what DtcManager does.
LEMMA SameOperators ==
    ASSUME NEW i, NEW s, NEW n, NEW failed
    PROVE  /\ DM!StatusAfterResult(i, s, n, failed) = StatusAfterResult(i, s, n, failed)
           /\ DM!FailCountAfter(n, failed) = FailCountAfter(n, failed)
           /\ DM!StatusNextCycle(s) = StatusNextCycle(s)
           /\ DM!StatusInitial = StatusInitial /\ DM!Index = Index
<1>1. DM!FailCountAfter(n, failed) = FailCountAfter(n, failed)
  BY DEF DM!FailCountAfter, FailCountAfter
<1>2. DM!FailCountAfter(n, TRUE) = FailCountAfter(n, TRUE)
  BY DEF DM!FailCountAfter, FailCountAfter
<1>3. DM!EffectiveThreshold(i) = EffectiveThreshold(i) /\ DM!MarkCompleted(s) = MarkCompleted(s)
  BY DEF DM!EffectiveThreshold, EffectiveThreshold, DM!MarkCompleted, MarkCompleted
<1>4. DM!StatusAfterResult(i, s, n, failed) = StatusAfterResult(i, s, n, failed)
  BY <1>2, <1>3 DEF DM!StatusAfterResult, StatusAfterResult
<1> QED
  BY <1>1, <1>4 DEF DM!StatusNextCycle, StatusNextCycle, DM!StatusInitial, StatusInitial, DM!Index, Index

LEMMA CompletedInit == LockedInit => CompletedTold
<1> SUFFICES ASSUME LockedInit, NEW d \in Index
             PROVE  /\ Completed(d).failCount \in 0 .. FailMax
                    /\ Told(d, Completed(d).status, Completed(d).failCount, cycle, log[d])
  BY DEF CompletedTold
<1>1. Completed(d).status = StatusInitial /\ Completed(d).failCount = 0 /\ log[d] = <<>>
  BY DEF LockedInit, Completed, Entry, ResetEntry, StatusInitial
<1> QED
  BY <1>1, ToldInitially, FailMaxAssumption

\* A step of the atomic manager on the mapped table keeps it.
LEMMA CompletedStep ==
    ASSUME LockInv, CompletedTold, [DM!Next]_DM!vars
    PROVE  CompletedTold'
<1> SUFFICES ASSUME NEW d \in Index
             PROVE  /\ Completed(d)'.failCount \in 0 .. FailMax
                    /\ Told(d, Completed(d)'.status, Completed(d)'.failCount, cycle', log'[d])
  BY DEF CompletedTold
<1> DEFINE st == [i \in Index |-> Completed(i).status]
           fc == [i \in Index |-> Completed(i).failCount]
<1>1. /\ st[d] = Completed(d).status /\ fc[d] = Completed(d).failCount
      /\ st'[d] = Completed(d)'.status /\ fc'[d] = Completed(d)'.failCount
      /\ DOMAIN st = Index /\ DOMAIN fc = Index
  OBVIOUS
<1>2. fc[d] \in 0 .. FailMax /\ Told(d, st[d], fc[d], cycle, log[d])
  BY <1>1 DEF CompletedTold
<1>3. cycle \in Nat /\ log \in [Index -> Seq(Result)] /\ log[d] \in Seq(Result)
  BY DEF LockInv
<1>4. ASSUME NEW j \in Index, NEW failed \in BOOLEAN, DM!ReportResult(j, failed)
      PROVE  fc'[d] \in 0 .. FailMax /\ Told(d, st'[d], fc'[d], cycle', log'[d])
  <2>1. /\ st' = [st EXCEPT ![j] = StatusAfterResult(j, st[j], fc[j], failed)]
        /\ fc' = [fc EXCEPT ![j] = FailCountAfter(fc[j], failed)]
        /\ log' = [log EXCEPT ![j] = Append(@, [failed |-> failed, cycle |-> cycle])]
        /\ cycle' = cycle
    <3>1. /\ st' = [st EXCEPT ![j] = DM!StatusAfterResult(j, st[j], fc[j], failed)]
          /\ fc' = [fc EXCEPT ![j] = DM!FailCountAfter(fc[j], failed)]
          /\ log' = [log EXCEPT ![j] = Append(@, [failed |-> failed, cycle |-> cycle])]
          /\ cycle' = cycle
      BY <1>4, Zenon DEF DM!ReportResult
    <3> HIDE DEF st, fc
    <3> QED
      BY <3>1, SameOperators
  <2> HIDE DEF st, fc
  <2>2. CASE d = j
    <3>1. /\ st'[d] = StatusAfterResult(d, st[d], fc[d], failed)
          /\ fc'[d] = FailCountAfter(fc[d], failed)
          /\ log'[d] = Append(log[d], [failed |-> failed, cycle |-> cycle])
      BY <1>1, <1>3, <2>1, <2>2
    <3> QED
      BY <1>2, <1>3, <2>1, <3>1, ToldReport, CountType
  <2>3. CASE d /= j
    <3>1. st'[d] = st[d] /\ fc'[d] = fc[d] /\ log'[d] = log[d]
      BY <1>1, <1>3, <2>1, <2>3
    <3> QED
      BY <1>2, <2>1, <3>1
  <2> QED
    BY <2>2, <2>3
<1>5. CASE DM!StartOperationCycle
  <2>1. st' = [i \in Index |-> StatusNextCycle(st[i])] /\ cycle' = cycle + 1 /\ fc' = fc /\ log' = log
    BY <1>5, SameOperators DEF DM!StartOperationCycle
  <2> HIDE DEF st, fc
  <2>2. st'[d] = StatusNextCycle(st[d])
    BY <2>1
  <2> QED
    BY <1>1, <1>2, <1>3, <2>1, <2>2, ToldNextCycle
<1>6. CASE DM!ClearAll
  <2>1. /\ st' = [i \in Index |-> StatusInitial] /\ fc' = [i \in Index |-> 0]
        /\ log' = [i \in Index |-> <<>>] /\ cycle' = cycle
    BY <1>6, SameOperators DEF DM!ClearAll
  <2> HIDE DEF st, fc
  <2>2. st'[d] = StatusInitial /\ fc'[d] = 0 /\ log'[d] = <<>>
    BY <2>1
  <2> QED
    BY <1>1, <2>2, ToldInitially, FailMaxAssumption
<1>7. CASE UNCHANGED DM!vars
  <2>1. st' = st /\ fc' = fc /\ UNCHANGED <<cycle, log>>
    BY <1>7 DEF DM!vars
  <2> HIDE DEF st, fc
  <2> QED
    BY <1>1, <1>2, <2>1
<1>8. fc'[d] \in 0 .. FailMax /\ Told(d, st'[d], fc'[d], cycle', log'[d])
  BY <1>4, <1>5, <1>6, <1>7, SameOperators DEF DM!Next
<1> HIDE DEF st, fc
<1> QED
  BY <1>1, <1>8

\* Whatever calls the tasks interleave, statement by statement: when nobody holds the
\* mutex, the status bits in the table tell the history of the calls.
THEOREM MeaningsCorrect ==
    LockedSpec => [](holder = NoTask => SinceClearMeaning /\ CycleMeaning /\ ConfirmedMeaning)
<1>1. LockedInit => LockInv /\ CompletedTold
  BY LockInvInit, CompletedInit
<1>2. LockInv /\ CompletedTold /\ [LockedNext]_lockedVars => LockInv' /\ CompletedTold'
  BY LockInvStep, StepImplements, CompletedStep
<1>3. CompletedTold => (holder = NoTask => SinceClearMeaning /\ CycleMeaning /\ ConfirmedMeaning)
  <2> SUFFICES ASSUME CompletedTold, holder = NoTask
               PROVE  SinceClearMeaning /\ CycleMeaning /\ ConfirmedMeaning
    OBVIOUS
  <2>1. \A d \in Index : Completed(d).status = status[d]
    BY DEF Completed, Entry
  <2>2. \A d \in Index : /\ SinceClearBits(status[d], log[d]) /\ CycleBits(status[d], log[d], cycle)
                        /\ ConfirmedBit(status[d], log[d], EffectiveThreshold(d))
    BY <2>1 DEF CompletedTold, Told
  <2> QED
    BY <2>2 DEF SinceClearMeaning, CycleMeaning, ConfirmedMeaning
<1> QED
  BY <1>1, <1>2, <1>3, PTL DEF LockedSpec
==============================================================================
