----------------------------- MODULE DtcManager -----------------------------
(***************************************************************************)
(* The DTC manager (src/common/dtc/dtc_manager.c), one atomic step per     *)
(* call: every operation runs between Lock() and Unlock().  DtcLocking     *)
(* removes that atomicity and is shown to implement this module.           *)
(*                                                                         *)
(* A status byte is the set of the names of its bits that are 1.  The      *)
(* ghost variables cycle and log record what was reported, so that the     *)
(* meaning ISO 14229-1 Annex D (and dtc_manager.h) gives to each bit can   *)
(* be stated about the history and not about the code that sets the bit.   *)
(***************************************************************************)
EXTENDS Naturals, Sequences, FiniteSets

CONSTANTS
    Count,         \* entries of the table passed to DtcMgr_Init
    Threshold,     \* confirmThreshold of each entry, as configured (0 included)
    FailMax,       \* largest value of the uint8_t failCount (0xFF)
    MaxResults,    \* bound: results recorded per DTC since the last clear
    MaxCycle       \* bound: operation cycles started

Index == 0 .. Count - 1

ASSUME TableAssumption  == Count \in 1 .. 16 /\ Threshold \in [Index -> 0 .. FailMax]
ASSUME FailMaxAssumption == FailMax \in Nat \ {0}
ASSUME BoundAssumption  == MaxResults \in Nat /\ MaxCycle \in Nat

VARIABLES
    status,        \* s_entries[i].status: set of bits
    failCount,     \* s_entries[i].failCount
    cycle,         \* ghost: number of the current operation cycle
    log            \* ghost: results of DTC i since the last clear, oldest first

vars == <<status, failCount, cycle, log>>

Bits == {"TF", "TFTOC", "PDTC", "CDTC", "TNCSLC", "TFSLC", "TNCTOC", "WIR"}
AvailabilityMask == Bits \ {"WIR"}
StatusInitial == {"TNCSLC", "TNCTOC"}

Result == [failed : BOOLEAN, cycle : Nat]

-----------------------------------------------------------------------------
(* The effect of each operation on one entry.                              *)

EffectiveThreshold(i) == IF Threshold[i] = 0 THEN 1 ELSE Threshold[i]

\* Faulty variant: the bit "since last clear" is forgotten.
MarkCompletedThisCycle(s) == s \ {"TNCTOC"}

\* A test has completed: neither "not completed" bit survives.
MarkCompleted(s) == s \ {"TNCTOC", "TNCSLC"}

\* Faulty variants: a passed test does not end the run; failCount wraps.
FailCountTotal(n, failed) == IF failed /\ n < FailMax THEN n + 1 ELSE n
FailCountWrapping(n, failed) == IF failed THEN (n + 1) % (FailMax + 1) ELSE 0

FailCountAfter(n, failed) ==
    IF ~failed THEN 0 ELSE IF n < FailMax THEN n + 1 ELSE n

StatusAfterResult(i, s, n, failed) ==
    IF failed
    THEN MarkCompleted(s) \union {"TF", "TFTOC", "TFSLC", "PDTC"}
           \union (IF FailCountAfter(n, TRUE) >= EffectiveThreshold(i)
                   THEN {"CDTC"} ELSE {})
    ELSE MarkCompleted(s) \ {"TF"}

\* Faulty variant: testFailedThisOperationCycle is cleared before it is read.
StatusNextCycleSwapped(s) == (s \ {"TFTOC", "PDTC"}) \union {"TNCTOC"}

StatusNextCycle(s) ==
    ((IF "TFTOC" \in s THEN s ELSE s \ {"PDTC"}) \ {"TFTOC"}) \union {"TNCTOC"}

-----------------------------------------------------------------------------
(* Operations.                                                             *)

Init ==
    /\ status = [i \in Index |-> StatusInitial]
    /\ failCount = [i \in Index |-> 0]
    /\ cycle = 0
    /\ log = [i \in Index |-> <<>>]

ReportResult(i, failed) ==
    /\ Len(log[i]) < MaxResults
    /\ status' = [status EXCEPT ![i] = StatusAfterResult(i, @, failCount[i], failed)]
    /\ failCount' = [failCount EXCEPT ![i] = FailCountAfter(@, failed)]
    /\ log' = [log EXCEPT ![i] = Append(@, [failed |-> failed, cycle |-> cycle])]
    /\ UNCHANGED cycle

StartOperationCycle ==
    /\ cycle < MaxCycle
    /\ status' = [i \in Index |-> StatusNextCycle(status[i])]
    /\ cycle' = cycle + 1
    /\ UNCHANGED <<failCount, log>>

ClearAll ==
    /\ status' = [i \in Index |-> StatusInitial]
    /\ failCount' = [i \in Index |-> 0]
    /\ log' = [i \in Index |-> <<>>]
    /\ UNCHANGED cycle

Next ==
    \/ \E i \in Index, failed \in BOOLEAN : ReportResult(i, failed)
    \/ StartOperationCycle
    \/ ClearAll

Spec == Init /\ [][Next]_vars

-----------------------------------------------------------------------------
(* Queries, which change nothing.  A record is the pair of a table index   *)
(* (it stands for the 3-byte code) and the status bits reported with it.   *)

Matches(s, mask) == s \intersect mask \intersect AvailabilityMask /= {}

GetByStatusMask(st, mask, maxRecords) ==
    LET table == [k \in 1 .. Count |-> k - 1]
        hit(i) == Matches(st[i], mask)
        found == SelectSeq(table, hit)
        n     == IF Len(found) < maxRecords THEN Len(found) ELSE maxRecords
    IN  [k \in 1 .. n |-> [code |-> found[k],
                           status |-> st[found[k]] \intersect AvailabilityMask]]

\* What such an answer says, the table being st: out lists, in table order, the
\* records of those of the first n DTCs that match the mask.
Lists(st, out, mask, n) ==
    /\ \A k \in 1 .. Len(out) :
          LET d == out[k].code
          IN  /\ d \in 0 .. n - 1 /\ Matches(st[d], mask)
              /\ out[k].status = st[d] \intersect AvailabilityMask
              /\ k > 1 => out[k - 1].code < d
    /\ \A d \in 0 .. n - 1 : Matches(st[d], mask) => \E k \in 1 .. Len(out) : out[k].code = d

-----------------------------------------------------------------------------
(* Properties.                                                             *)

\* Type invariant.
TypeOK ==
    /\ status \in [Index -> SUBSET Bits]
    /\ failCount \in [Index -> 0 .. FailMax]
    /\ cycle \in Nat
    /\ log \in [Index -> Seq(Result)]

\* Position of the reports of the log lg that belong to the cycle c.
InCycle(lg, c) == {k \in 1 .. Len(lg) : lg[k].cycle = c}

\* n consecutive failures end at report k of the log lg.
FailedWindow(lg, n, k) == n <= k /\ \A j \in k - n + 1 .. k : lg[j].failed

\* What the bits of a status byte s mean, the log of its DTC being lg.
\* Bits 0, 4 and 5: the last result failed; no result; some result failed.
SinceClearBits(s, lg) ==
    /\ "TF" \in s <=> (lg /= <<>> /\ lg[Len(lg)].failed)
    /\ "TNCSLC" \in s <=> lg = <<>>
    /\ "TFSLC" \in s <=> \E k \in 1 .. Len(lg) : lg[k].failed

\* Bits 1, 2 and 6, in the cycle c: failed in this one, failed in this one or
\* the last (dtc_manager.h:11), not completed in this one.
CycleBits(s, lg, c) ==
    /\ "TFTOC" \in s <=> \E k \in InCycle(lg, c) : lg[k].failed
    /\ "PDTC" \in s <=> \E k \in 1 .. Len(lg) : lg[k].failed /\ c <= lg[k].cycle + 1
    /\ "TNCTOC" \in s <=> InCycle(lg, c) = {}

\* Bit 3, for the threshold t: failed t times in a row (dtc_manager.h:12).
ConfirmedBit(s, lg, t) == "CDTC" \in s <=> \E k \in 1 .. Len(lg) : FailedWindow(lg, t, k)

\* failCount is the length n of the run of failures that ends the log, cut off
\* at FailMax: the run spans operation cycles.
FailRun(lg, n) ==
    /\ n <= Len(lg)
    /\ \A k \in Len(lg) - n + 1 .. Len(lg) : lg[k].failed
    /\ n = FailMax \/ n = Len(lg) \/ ~lg[Len(lg) - n].failed

\* The status byte of every DTC tells, at any time, the history of its
\* reports since the last clear: for the bits that forget on a clear only ...
SinceClearMeaning == \A i \in Index : SinceClearBits(status[i], log[i])

\* ... for the bits that StartOperationCycle moves as well ...
CycleMeaning == \A i \in Index : CycleBits(status[i], log[i], cycle)

\* ... and for confirmedDTC, whichever cycles the failures fell in and however
\* far failCount has saturated.
ConfirmedMeaning ==
    \A i \in Index : ConfirmedBit(status[i], log[i], EffectiveThreshold(i))

FailRunMeaning == \A i \in Index : FailRun(log[i], failCount[i])

\* No report is dated after the current cycle.
LogDated == \A i \in Index : \A k \in 1 .. Len(log[i]) : log[i][k].cycle <= cycle

\* The inductive invariant behind the meanings of the bits.
IInv ==
    /\ TypeOK
    /\ LogDated
    /\ FailRunMeaning
    /\ SinceClearMeaning
    /\ CycleMeaning
    /\ ConfirmedMeaning
=============================================================================
