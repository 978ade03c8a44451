------------------------------- MODULE CanDrv -------------------------------
(***************************************************************************)
(* Bus-off in the CAN drivers (can_drv.c of either ECU: the same code).    *)
(* The controller leaves the bus on its own; its interrupt starts a delay  *)
(* that CanDrv_MainFunction counts, which then lets the controller rejoin. *)
(*                                                                         *)
(* The interrupt preempts the main function between any two of its loads   *)
(* and stores.  The controller interrupts at every CHANGE of its bus-off   *)
(* status (FDCAN_IT_BUS_OFF: "Bus_Off status changed",                     *)
(* stm32g4xx_hal_fdcan.h:955), so also when it has rejoined.               *)
(***************************************************************************)
EXTENDS Naturals

CONSTANTS
    Delay,        \* BUSOFF_RECOVERY_DELAY_TICKS
    FifoLength,   \* frames the transmit FIFO of the controller holds
    MaxBusOffs    \* bound: bus-offs in a behaviour

ASSUME DriverAssumption ==
    /\ Delay \in Nat \ {0} /\ FifoLength \in Nat \ {0}
    /\ MaxBusOffs \in Nat

VARIABLES
    \* the controller
    busOff,       \* PSR.BO
    init,         \* CCCR.INIT
    irq,          \* IR.BO: the interrupt is pending
    fifo,         \* frames waiting in the transmit FIFO
    \* the driver
    pending,      \* s_busOffPending
    timer,        \* s_busOffTimer
    busOffCount,  \* s_stats.busOffCount
    pc, reg,      \* CanDrv_MainFunction: next statement, value it loaded of timer
    \* ghosts
    busOffs,      \* bus-offs so far
    calls,        \* calls of CanDrv_MainFunction since the last bus-off
    between       \* the last bus-off fell between two calls of CanDrv_MainFunction

controller == <<busOff, init, irq, fifo>>
driver == <<pending, timer, busOffCount, pc, reg>>
ghosts == <<busOffs, calls, between>>
vars == <<controller, driver, ghosts>>

Init ==
    /\ busOff = FALSE /\ init = FALSE /\ irq = FALSE /\ fifo = 0
    /\ pending = FALSE /\ timer = 0 /\ busOffCount = 0 /\ pc = "idle" /\ reg = 0
    /\ busOffs = 0 /\ calls = 0 /\ between = TRUE

-----------------------------------------------------------------------------
(* The controller.                                                         *)

\* It takes 32 failed frames in a row: the interrupt of the rejoining has long
\* been served.
GoBusOff ==
    /\ ~busOff /\ ~init /\ ~irq /\ busOffs < MaxBusOffs
    /\ busOff' = TRUE /\ init' = TRUE /\ irq' = TRUE
    /\ busOffs' = busOffs + 1 /\ calls' = 0
    /\ between' = (pc = "idle")
    /\ UNCHANGED <<fifo, driver>>

\* 128 times 11 recessive bits have passed since INIT was cleared, again far
\* longer than an interrupt waits.
Rejoin ==
    /\ busOff /\ ~init /\ ~irq
    /\ busOff' = FALSE /\ irq' = TRUE
    /\ UNCHANGED <<init, fifo, driver, ghosts>>

Transmit ==
    /\ ~busOff /\ ~init /\ fifo > 0
    /\ fifo' = fifo - 1
    /\ UNCHANGED <<busOff, init, irq, driver, ghosts>>

-----------------------------------------------------------------------------
(* The driver.                                                             *)

\* Faulty variant: an interrupt during the delay does not start it again.
ErrorStatusCallbackOnce ==
    /\ irq
    /\ irq' = FALSE
    /\ busOffCount' = busOffCount + 1 /\ pending' = TRUE
    /\ timer' = IF pending THEN timer ELSE 0
    /\ UNCHANGED <<busOff, init, fifo, pc, reg, ghosts>>

\* HAL_FDCAN_ErrorStatusCallback.
ErrorStatusCallback ==
    /\ irq
    /\ irq' = FALSE
    /\ busOffCount' = busOffCount + 1 /\ timer' = 0 /\ pending' = TRUE
    /\ UNCHANGED <<busOff, init, fifo, pc, reg, ghosts>>

\* CanDrv_Write of a valid frame; a full FIFO drops it (CANDRV_TX_FULL).
Write ==
    /\ fifo < FifoLength
    /\ fifo' = fifo + 1
    /\ UNCHANGED <<busOff, init, irq, driver, ghosts>>

\* The periodic call of CanDrv_MainFunction; the interrupt does not stay
\* pending for a whole period.
Call ==
    /\ pc = "idle" /\ ~irq
    /\ calls' = IF calls <= Delay THEN calls + 1 ELSE calls
    /\ pc' = IF pending THEN "load" ELSE "idle"
    /\ UNCHANGED <<controller, pending, timer, busOffCount, reg, busOffs, between>>

Load ==
    /\ pc = "load"
    /\ reg' = timer
    /\ pc' = "store"
    /\ UNCHANGED <<controller, pending, timer, busOffCount, ghosts>>

Store ==
    /\ pc = "store"
    /\ timer' = reg + 1
    /\ pc' = "compare"
    /\ UNCHANGED <<controller, pending, busOffCount, reg, ghosts>>

\* Faulty variant: one tick too many.
ExpiredLate(t) == t > Delay

\* s_busOffTimer is not volatile: the comparison uses the value at hand or
\* loads it again.
Expired(t) == t >= Delay

Compare ==
    /\ pc = "compare"
    /\ \E t \in {reg + 1, timer} : pc' = IF Expired(t) THEN "reset" ELSE "idle"
    /\ UNCHANGED <<controller, pending, timer, busOffCount, reg, ghosts>>

ResetTimer ==
    /\ pc = "reset"
    /\ timer' = 0
    /\ pc' = "forget"
    /\ UNCHANGED <<controller, pending, busOffCount, reg, ghosts>>

ForgetPending ==
    /\ pc = "forget"
    /\ pending' = FALSE
    /\ pc' = "clear"
    /\ UNCHANGED <<controller, timer, busOffCount, reg, ghosts>>

\* CLEAR_BIT writes the value of CCCR it read before, with INIT cleared.
ClearInit ==
    /\ pc = "clear"
    /\ init' = FALSE
    /\ pc' = "idle"
    /\ UNCHANGED <<busOff, irq, fifo, pending, timer, busOffCount, reg, ghosts>>

\* Faulty variant: INIT is cleared first, the flag reset last.
MainFunctionForgetsLast ==
    \/ Call \/ Load \/ Store \/ Compare \/ ResetTimer
    \/ /\ pc = "forget" /\ init' = FALSE /\ pc' = "clear"
       /\ UNCHANGED <<busOff, irq, fifo, pending, timer, busOffCount, reg, ghosts>>
    \/ /\ pc = "clear" /\ pending' = FALSE /\ pc' = "idle"
       /\ UNCHANGED <<controller, timer, busOffCount, reg, ghosts>>

MainFunction ==
    Call \/ Load \/ Store \/ Compare \/ ResetTimer \/ ForgetPending \/ ClearInit

Next ==
    GoBusOff \/ Rejoin \/ Transmit \/ ErrorStatusCallback \/ Write \/ MainFunction

\* The interrupt is served, Monitor and SensorApp_Task10ms call the main
\* function for ever, a bus that lets the node rejoin does so and carries its
\* frames.
Fairness ==
    /\ WF_vars(ErrorStatusCallback) /\ WF_vars(MainFunction)
    /\ WF_vars(Rejoin) /\ WF_vars(Transmit)

Spec == Init /\ [][Next]_vars /\ Fairness

-----------------------------------------------------------------------------
(* Properties.                                                             *)

\* Type invariant.
TypeOK ==
    /\ busOff \in BOOLEAN /\ init \in BOOLEAN /\ irq \in BOOLEAN
    /\ pending \in BOOLEAN /\ between \in BOOLEAN
    /\ fifo \in 0 .. FifoLength
    /\ timer \in 0 .. Delay /\ reg \in 0 .. Delay - 1
    /\ pc \in {"idle", "load", "store", "compare", "reset", "forget", "clear"}
    /\ busOffs \in 0 .. MaxBusOffs /\ calls \in 0 .. Delay + 1
    /\ busOffCount \in 0 .. 2 * MaxBusOffs

\* A controller that is off the bus is never forgotten: its interrupt is
\* pending, or the delay is running, or the main function is about to clear
\* INIT.  No interleaving of interrupt and main function loses s_busOffPending.
NeverStranded == init => busOff /\ (irq \/ pending \/ pc = "clear")

\* The call that lets the controller rejoin is at the latest the one numbered
\* BUSOFF_RECOVERY_DELAY_TICKS since it went off the bus.
RejoinsInTime == init => calls <= Delay

\* A bus-off is given the whole delay (can_drv.c:12-14 of the Sensor ECU), also
\* one that falls in the delay which the interrupt of the rejoining before it has
\* started, and also when that delay is over just then: the interrupt starts it
\* again.  Only a bus-off in the middle of a call of CanDrv_MainFunction that counts
\* such a delay may be given less: see the README.
DelayRespected == [][init /\ ~init' /\ between => calls >= Delay]_vars

\* The node always comes back to the bus and its FIFO takes frames again.
Recovers == []<>(~busOff /\ fifo < FifoLength)
=============================================================================
