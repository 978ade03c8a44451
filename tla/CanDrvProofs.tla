---------------------------- MODULE CanDrvProofs ----------------------------
(***************************************************************************)
(* Proofs about the bus-off recovery, for every delay, FIFO length and     *)
(* number of bus-offs.                                                     *)
(*                                                                         *)
(* NeverStranded is inductive as it stands.  The bounds on the delay need  *)
(* to know, at every statement of the main function, how the timer and the *)
(* value loaded of it relate to the calls made since the bus-off: AtMost   *)
(* gives one side for every bus-off, AtLeast the other for one that falls  *)
(* between two calls of the main function.                                 *)
(***************************************************************************)
EXTENDS CanDrv, TLAPS

\* The timer stays below the delay except between Store and ResetTimer, and
\* only the interrupt comes between Store and Compare.
TimerInv ==
    /\ pc \notin {"compare", "reset"} => timer < Delay
    /\ pc = "compare" => timer \in {0, reg + 1}

\* While off the bus: calls so far are at most what the timer shows.
AtMost ==
    init => /\ irq => calls = 0
            /\ pc = "idle" => calls <= timer
            /\ pc = "load" => calls <= timer + 1
            /\ pc = "store" => calls <= reg + 1
            /\ pc = "compare" => calls <= timer /\ calls <= reg + 1
            /\ pc \in {"reset", "forget", "clear"} => calls <= Delay

\* After a bus-off between two calls of the main function: calls so far are at
\* least what the timer shows.
AtLeast ==
    init /\ between =>
        /\ irq => pc = "idle"
        /\ ~irq => /\ pc = "idle" => timer <= calls
                   /\ pc = "load" => timer + 1 <= calls
                   /\ pc = "store" => reg + 1 <= calls
                   /\ pc = "compare" => timer <= calls /\ reg + 1 <= calls
                   /\ pc \in {"reset", "forget", "clear"} => Delay <= calls

\* Bus-offs and rejoinings, less those not over or not served yet.
ChangesCounted ==
    busOffCount + (IF busOff THEN 1 ELSE 0) + (IF irq THEN 1 ELSE 0) = 2 * busOffs

IInv == TypeOK /\ NeverStranded /\ ChangesCounted /\ TimerInv /\ AtMost /\ AtLeast

LEMMA InitIInv == Init => IInv
<1> SUFFICES ASSUME Init PROVE IInv
  OBVIOUS
<1> USE DriverAssumption DEF Init
<1>1. /\ busOff \in BOOLEAN /\ init \in BOOLEAN /\ irq \in BOOLEAN
      /\ pending \in BOOLEAN /\ between \in BOOLEAN
  BY Zenon
<1>2. /\ fifo \in 0 .. FifoLength /\ timer \in 0 .. Delay /\ reg \in 0 .. Delay - 1
      /\ busOffs \in 0 .. MaxBusOffs /\ calls \in 0 .. Delay + 1
      /\ busOffCount \in 0 .. 2 * MaxBusOffs
  OBVIOUS
<1>3. TimerInv /\ AtMost /\ AtLeast /\ ChangesCounted
  BY DEF TimerInv, AtMost, AtLeast, ChangesCounted
<1> QED
  BY <1>1, <1>2, <1>3, Zenon DEF IInv, TypeOK, NeverStranded

LEMMA StepIInv == IInv /\ [Next]_vars => IInv'
<1> SUFFICES ASSUME IInv, [Next]_vars PROVE IInv'
  OBVIOUS
<1> USE DriverAssumption DEF IInv, TypeOK, NeverStranded, ChangesCounted, TimerInv, AtMost, AtLeast
<1>1. CASE GoBusOff
  BY <1>1 DEF GoBusOff, driver
<1>2. CASE Rejoin
  <2> USE <1>2 DEF Rejoin, driver, ghosts
  <2>1. /\ busOff' \in BOOLEAN /\ init' \in BOOLEAN /\ irq' \in BOOLEAN
        /\ pending' \in BOOLEAN /\ between' \in BOOLEAN
    BY Zenon
  <2>2. TypeOK'
    BY <2>1
  <2>3. NeverStranded' /\ ChangesCounted' /\ TimerInv' /\ AtMost' /\ AtLeast'
    OBVIOUS
  <2> QED
    BY <2>2, <2>3
<1>3. CASE Transmit
  BY <1>3 DEF Transmit, driver, ghosts
<1>4. CASE ErrorStatusCallback
  <2> USE <1>4 DEF ErrorStatusCallback, ghosts
  <2>1. /\ busOff' \in BOOLEAN /\ init' \in BOOLEAN /\ irq' \in BOOLEAN
        /\ pending' \in BOOLEAN /\ between' \in BOOLEAN
    BY Zenon
  <2>2. TypeOK'
    BY <2>1
  <2>3. NeverStranded' /\ ChangesCounted' /\ TimerInv' /\ AtMost' /\ AtLeast'
    OBVIOUS
  <2> QED
    BY <2>2, <2>3
<1>5. CASE Write
  BY <1>5 DEF Write, driver, ghosts
<1>6. CASE Call
  BY <1>6 DEF Call, controller
<1>7. CASE Load
  BY <1>7 DEF Load, controller, ghosts
<1>8. CASE Store
  BY <1>8 DEF Store, controller, ghosts
<1>9. CASE Compare
  BY <1>9 DEF Compare, Expired, controller, ghosts
<1>10. CASE ResetTimer
  BY <1>10 DEF ResetTimer, controller, ghosts
<1>11. CASE ForgetPending
  BY <1>11 DEF ForgetPending, controller, ghosts
<1>12. CASE ClearInit
  BY <1>12 DEF ClearInit, ghosts
<1>13. CASE UNCHANGED vars
  BY <1>13 DEF vars, controller, driver, ghosts
<1> QED
  BY <1>1, <1>2, <1>3, <1>4, <1>5, <1>6, <1>7, <1>8, <1>9, <1>10, <1>11, <1>12, <1>13
     DEF Next, MainFunction

\* The inductive invariant of can_drv.c: flag, timer, pending interrupt and
\* CCCR.INIT agree at every statement of CanDrv_MainFunction.
THEOREM Invariance == Spec => []IInv
  BY InitIInv, StepIInv, PTL DEF Spec

\* Type correctness: the timer never exceeds BUSOFF_RECOVERY_DELAY_TICKS.
THEOREM TypeCorrect == Spec => []TypeOK
<1>1. IInv => TypeOK
  BY DEF IInv
<1> QED
  BY <1>1, Invariance, PTL

\* No interleaving of the error interrupt with CanDrv_MainFunction strands the
\* controller off the bus.
THEOREM NeverStrandedCorrect == Spec => []NeverStranded
<1>1. IInv => NeverStranded
  BY DEF IInv
<1> QED
  BY <1>1, Invariance, PTL

\* HAL_FDCAN_ErrorStatusCallback counts every change of the bus-off status: after
\* k bus-offs that are over, s_stats.busOffCount stands at 2 * k.
THEOREM TwicePerBusOff == Spec => []ChangesCounted
<1>1. IInv => ChangesCounted
  BY DEF IInv
<1> QED
  BY <1>1, Invariance, PTL

\* The controller is let back at the latest by call number Delay, whatever the
\* moment of its bus-off.
THEOREM RejoinsInTimeCorrect == Spec => []RejoinsInTime
<1>1. IInv => RejoinsInTime
  BY DriverAssumption DEF IInv, TypeOK, TimerInv, AtMost, RejoinsInTime
<1> QED
  BY <1>1, Invariance, PTL

\* A bus-off between two calls of CanDrv_MainFunction gets the whole delay.
THEOREM DelayCorrect == Spec => DelayRespected
<1>1. IInv /\ [Next]_vars => [init /\ ~init' /\ between => calls >= Delay]_vars
  <2> SUFFICES ASSUME IInv, Next, init, ~init', between PROVE calls >= Delay
    BY DEF vars
  <2>1. ClearInit
    BY DEF Next, MainFunction, GoBusOff, Rejoin, Transmit, ErrorStatusCallback, Write, Call,
           Load, Store, Compare, ResetTimer, ForgetPending, controller
  <2>2. pc = "clear" /\ Delay <= calls
    BY <2>1 DEF ClearInit, IInv, AtLeast
  <2> QED
    BY <2>2, DriverAssumption DEF IInv, TypeOK
<1> QED
  BY <1>1, Invariance, PTL DEF Spec, DelayRespected
=============================================================================
