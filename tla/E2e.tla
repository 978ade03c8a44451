------------------------------- MODULE E2e -------------------------------
(***************************************************************************)
(* End-to-end protection of the cyclic frames (src/common/e2e/e2e.c) as    *)
(* operators.  A frame has its alive counter and the damage it took on the *)
(* way: the CRC-8 detects any that matters here ("crc"), "short" stands    *)
(* for a frame of fewer than E2E_FRAME_LEN bytes.                          *)
(***************************************************************************)
EXTENDS Naturals

CONSTANTS
    CounterMod,   \* E2E_COUNTER_MASK + 1
    MaxDelta      \* E2E_MAX_DELTA_COUNTER

ASSUME CounterAssumption ==
    CounterMod \in Nat /\ MaxDelta \in Nat /\ 1 <= MaxDelta /\ MaxDelta < CounterMod

Damages == {"none", "crc", "short"}

\* E2e_Protect: the counter goes into the frame, then advances.
NextCounter(counter) == (counter + 1) % CounterMod

InitialRx == [synced |-> FALSE, lastCounter |-> 0]

\* Distance from the last counter, so that the wrap counts as one.
Delta(rx, f) == (f.counter + CounterMod - rx.lastCounter) % CounterMod

\* Faulty variant: one lost frame too many is accepted.
StatusLenient(rx, f) ==
    CASE f.damage /= "none" -> "ERR_CRC"
      [] f.damage = "none" /\ ~rx.synced -> "INITIAL"
      [] f.damage = "none" /\ rx.synced /\ Delta(rx, f) = 0 -> "ERR_REPEATED"
      [] f.damage = "none" /\ rx.synced /\ Delta(rx, f) \in 1 .. MaxDelta + 1 -> "OK"
      [] OTHER -> "ERR_WRONG_SEQ"

\* What E2e_Check returns.
Status(rx, f) ==
    CASE f.damage = "short" -> "ERR_LENGTH"
      [] f.damage = "crc" -> "ERR_CRC"
      [] f.damage = "none" /\ ~rx.synced -> "INITIAL"
      [] f.damage = "none" /\ rx.synced /\ Delta(rx, f) = 0 -> "ERR_REPEATED"
      [] f.damage = "none" /\ rx.synced /\ Delta(rx, f) = 1 -> "OK"
      [] f.damage = "none" /\ rx.synced /\ Delta(rx, f) \in 2 .. MaxDelta -> "OK_SOME_LOST"
      [] OTHER -> "ERR_WRONG_SEQ"

\* The receiver follows the counter of every undamaged frame, the rejected one
\* after a gap included; a repeated counter is the one it has.
AfterCheck(rx, f) ==
    IF f.damage /= "none" THEN rx ELSE [synced |-> TRUE, lastCounter |-> f.counter]

IsValid(status) == status \in {"OK", "OK_SOME_LOST", "INITIAL"}
=============================================================================
