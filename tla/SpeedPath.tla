----------------------------- MODULE SpeedPath -----------------------------
(***************************************************************************)
(* The way of the vehicle speed from the Sensor ECU to the output of the   *)
(* Control ECU: Task10ms samples, protects and sends frame 0x100           *)
(* (sensor_app.c); the receive interrupt queues it, ComRx checks it and    *)
(* updates the view, Monitor judges a copy of the view and drives the PWM  *)
(* (control_app.c).                                                        *)
(*                                                                         *)
(* Time passes in periods of 10 ms (SENSOR_SPEED_CYCLE_MS and              *)
(* MONITOR_PERIOD_MS).  A task may be held up, by its own blocking log     *)
(* lines or by another's: the Sensor ECU's main loop then loses the tick   *)
(* (s_tick10ms is a flag), Monitor makes up for its cycles one after the   *)
(* other (osDelayUntil an instant gone by returns at once), frames wait    *)
(* for ComRx or in the TX FIFO.  Timestamps are kept as ages.              *)
(***************************************************************************)
EXTENDS E2e, Sequences

CONSTANTS
    Timeout,        \* SENSOR_SPEED_TIMEOUT_MS, in periods
    Grace,          \* STARTUP_GRACE_MS, in periods
    HealFrames,     \* E2E_HEAL_FRAMES
    DebounceTicks,  \* BUTTON_DEBOUNCE_TICKS, of both ECUs
    QueueLength,    \* RX_QUEUE_LEN
    MaxSpeed,       \* SENSOR_SPEED_MAX_X10
    FaultSpeed,     \* FAULT_SPEED_OUT_OF_RANGE
    Speeds,         \* speeds the ADC value may stand for
    AdcResults,     \* results of AdcDrv_Read: a set of BOOLEAN
    SensorButton,   \* levels of the button B1: a set of BOOLEAN
    ControlButton,  \* levels of the button USER1: a set of BOOLEAN
    MaxLosses,      \* bound: frames lost, damaged or duplicated
    MaxResets,      \* bound: soft resets
    MaxActions,     \* bound: button presses that count, on both ECUs together
    MaxWait,        \* bound: periods a frame waits for ComRx
    MaxBacklog,     \* bound: periods Monitor is late
    MaxHolds        \* bound: periods at whose end some task had not finished

ASSUME SpeedAssumption ==
    /\ {Timeout, Grace, HealFrames, DebounceTicks, QueueLength} \subseteq Nat
    /\ MaxSpeed \in Nat /\ FaultSpeed \in Nat /\ FaultSpeed > MaxSpeed
    /\ Speeds \subseteq 0 .. MaxSpeed
    /\ AdcResults \subseteq BOOLEAN /\ SensorButton \subseteq BOOLEAN /\ ControlButton \subseteq BOOLEAN
    /\ {MaxLosses, MaxResets, MaxActions, MaxWait, MaxBacklog, MaxHolds} \subseteq Nat

VARIABLES
    counter,      \* s_speedAlive
    adc,          \* s_adcFiltered (as a speed) and s_adcError
    mode,         \* s_faultMode
    sensorKey,    \* s_btnStableTicks, s_btnLatched
    queue,        \* s_rxQueue
    rx,           \* s_e2eSpeed
    view,         \* s_view; good is a ghost: valid frames since the last error
    monitor,      \* Monitor: the next statement, its local copy of the view, and
                  \* the periods that have begun since the one of its last cycle
    faults,       \* s_faults: the active ones
    controlKey,   \* stableTicks, latched of HandleButton
    inject,       \* s_localInject
    pwm,          \* duty in use, as the speed it stands for
    started,      \* age of s_startTick
    due,          \* s_tick10ms
    ahead,        \* ghost: E2e_Protect calls since the one of rx.lastCounter
    pwmAge,       \* ghost: age of the frame behind pwm
    losses, resets, actions, holds

sensorVars  == <<counter, adc, mode, sensorKey>>
controlVars == <<rx, view, monitor, faults, controlKey, inject, pwm>>
boundVars   == <<losses, resets, actions, holds>>
vars == <<sensorVars, queue, controlVars, started, due, ahead, pwmAge, boundVars>>

\* Ages count to the first value that no comparison tells from the next.
Old == Timeout + MaxBacklog + MaxWait + 2
AheadMax == 2 * CounterMod
Older(age, max) == IF age < max THEN age + 1 ELSE max
FirstOf(a, b) == IF a <= b THEN a ELSE b

Released == [stable |-> 0, latched |-> FALSE]

InitialView == [speed |-> 0, adcError |-> FALSE, age |-> 0, received |-> FALSE,
                e2eError |-> FALSE, goodStreak |-> 0,
                good |-> HealFrames + 1,    \* ghost: as above
                sent |-> 0]                 \* ghost: age of the frame since it was sent

Init ==
    /\ counter = 0 /\ mode = "NONE" /\ sensorKey = Released
    /\ adc \in [speed : Speeds, error : {FALSE}]
    /\ queue = <<>>
    /\ rx = InitialRx /\ view = InitialView
    /\ monitor = [pc |-> "delay", view |-> InitialView, behind |-> 0]
    /\ faults = {} /\ controlKey = Released /\ inject = FALSE /\ pwm = 0
    /\ started = 0 /\ due = FALSE /\ ahead = 0 /\ pwmAge = 0
    /\ losses = 0 /\ resets = 0 /\ actions = 0 /\ holds = 0

-----------------------------------------------------------------------------
(* HandleButton, the same code on both ECUs.                               *)

KeyAfter(key, pressed) ==
    CASE ~pressed -> Released
      [] pressed /\ key.stable < DebounceTicks -> [key EXCEPT !.stable = @ + 1]
      [] OTHER -> [key EXCEPT !.latched = TRUE]

\* The press counts: held long enough, and not counted before.
Acts(key, pressed) == pressed /\ key.stable >= DebounceTicks /\ ~key.latched

NextMode(m) == CASE m = "NONE" -> "SILENT"
                 [] m = "SILENT" -> "OUT_OF_RANGE"
                 [] OTHER -> "NONE"

-----------------------------------------------------------------------------
(* Sensor ECU.                                                             *)

\* OnCanRx: a full queue drops the frame.
Queued(q, f) == IF Len(q) < QueueLength THEN Append(q, f) ELSE q

\* The bus delivers the frame, loses it, damages it or delivers it twice; the
\* sender's driver dropping it is a loss too.
Delivered(f) ==
    \/ queue' = Queued(queue, f) /\ UNCHANGED losses
    \/ /\ losses < MaxLosses
       /\ losses' = losses + 1
       /\ queue' \in {queue, Queued(Queued(queue, f), f)}
                       \union {Queued(queue, [f EXCEPT !.damage = d]) : d \in Damages \ {"none"}}

\* SampleInput, through the filter: a failed read keeps the last value.
SampleInput ==
    \/ TRUE \in AdcResults /\ adc' \in [speed : Speeds, error : {FALSE}]
    \/ FALSE \in AdcResults /\ adc' = [adc EXCEPT !.error = TRUE]

\* The counter moves although the frame may never leave.
SendSpeedFrame ==
    IF mode' = "SILENT" THEN UNCHANGED <<counter, ahead, queue, losses>>
    ELSE /\ counter' = NextCounter(counter)
         /\ ahead' = Older(ahead, AheadMax)
         /\ Delivered([counter |-> counter, age |-> 0, damage |-> "none", adcError |-> adc'.error,
                       speed |-> IF mode' = "OUT_OF_RANGE" THEN FaultSpeed ELSE adc'.speed])

\* SensorApp_Task10ms.
SensorTask ==
    /\ due /\ due' = FALSE
    /\ \E pressed \in SensorButton :
         /\ sensorKey' = KeyAfter(sensorKey, pressed)
         /\ mode' = IF Acts(sensorKey, pressed) THEN NextMode(mode) ELSE mode
         /\ Acts(sensorKey, pressed) => actions < MaxActions
         /\ actions' = IF Acts(sensorKey, pressed) THEN actions + 1 ELSE actions
    /\ SampleInput
    /\ SendSpeedFrame
    /\ UNCHANGED <<controlVars, started, pwmAge, resets, holds>>

-----------------------------------------------------------------------------
(* Control ECU: ComRx.                                                     *)

\* Faulty variants of ViewAfter: an error does not restart the streak; the error
\* never heals.
ViewKeepsStreak(v, f, s) ==
    IF IsValid(s)
    THEN [v EXCEPT !.speed = f.speed, !.adcError = f.adcError, !.age = 0, !.sent = f.age, !.received = TRUE,
                   !.goodStreak = FirstOf(HealFrames, @ + 1), !.good = FirstOf(HealFrames + 1, @ + 1),
                   !.e2eError = @ /\ v.goodStreak < HealFrames]
    ELSE [v EXCEPT !.e2eError = TRUE, !.good = 0]
ViewNeverHeals(v, f, s) ==
    IF IsValid(s)
    THEN [v EXCEPT !.speed = f.speed, !.adcError = f.adcError, !.age = 0, !.sent = f.age, !.received = TRUE,
                   !.good = FirstOf(HealFrames + 1, @ + 1)]
    ELSE [v EXCEPT !.e2eError = TRUE, !.good = 0]

\* HandleSpeedFrame's update of the view by a frame with E2E status s.
ViewAfter(v, f, s) ==
    IF IsValid(s)
    THEN [v EXCEPT !.speed = f.speed, !.adcError = f.adcError, !.age = 0, !.sent = f.age, !.received = TRUE,
                   !.goodStreak = FirstOf(HealFrames, @ + 1), !.good = FirstOf(HealFrames + 1, @ + 1),
                   !.e2eError = @ /\ v.goodStreak < HealFrames]
    ELSE [v EXCEPT !.e2eError = TRUE, !.goodStreak = 0, !.good = 0]

\* Ghost: E2e_Protect calls since the one of the frame f in the queue.
SentAfter(f) == (counter + CounterMod - 1 - f.counter) % CounterMod

HandleSpeedFrame ==
    /\ queue /= <<>>
    /\ LET f == Head(queue)
           s == Status(rx, f)
       IN  /\ rx' = AfterCheck(rx, f)
           /\ view' = ViewAfter(view, f, s)
           /\ ahead' = IF f.damage = "none" /\ s /= "ERR_REPEATED" THEN SentAfter(f) ELSE ahead
    /\ queue' = Tail(queue)
    /\ UNCHANGED <<sensorVars, monitor, faults, controlKey, inject, pwm, started, due, pwmAge,
                   boundVars>>

\* ControlApp_SoftReset, called by ComRx for 11 03.
SoftReset ==
    /\ resets < MaxResets
    /\ resets' = resets + 1
    /\ rx' = InitialRx
    /\ UNCHANGED <<sensorVars, queue, view, monitor, faults, controlKey, inject, pwm, started,
                   due, ahead, pwmAge, losses, actions, holds>>

-----------------------------------------------------------------------------
(* Control ECU: Monitor.  ComRx, and time, may go on between any two of    *)
(* the copy of the view, its evaluation with the log lines, and the PWM.   *)

\* osDelayUntil returns; the view is copied under its mutex.
MonitorCopy ==
    /\ monitor.pc = "delay" /\ monitor.behind > 0
    /\ monitor' = [monitor EXCEPT !.pc = "judge", !.view = view]
    /\ UNCHANGED <<sensorVars, queue, rx, view, faults, controlKey, inject, pwm, started, due,
                   ahead, pwmAge, boundVars>>

TimedOut(v) == IF v.received THEN v.age > Timeout
               ELSE started > Timeout /\ started > Grace

\* Faulty variant: the range is not monitored.
FaultsUnranged(v, injected) ==
    {f \in {"TIMEOUT", "E2E", "ADC", "LOCAL"} :
        CASE f = "TIMEOUT" -> TimedOut(v)
          [] f = "E2E" -> v.e2eError
          [] f = "ADC" -> v.adcError
          [] OTHER -> injected}

FaultsOf(v, injected) ==
    {f \in {"TIMEOUT", "RANGE", "E2E", "ADC", "LOCAL"} :
        CASE f = "TIMEOUT" -> TimedOut(v)
          [] f = "RANGE" -> v.received /\ v.speed > MaxSpeed
          [] f = "E2E" -> v.e2eError
          [] f = "ADC" -> v.adcError
          [] OTHER -> injected}

\* Faulty variant: the timeout does not stop the output.
SpeedFaultFresh(fs) == fs \intersect {"RANGE", "E2E", "LOCAL"} /= {}
SpeedFault(fs) == fs \intersect {"TIMEOUT", "RANGE", "E2E", "LOCAL"} /= {}

\* The monitors; the faults that change are logged.
MonitorJudge ==
    /\ monitor.pc = "judge"
    /\ monitor' = [monitor EXCEPT !.pc = "drive"]
    /\ \E pressed \in ControlButton :
         /\ controlKey' = KeyAfter(controlKey, pressed)
         /\ inject' = IF Acts(controlKey, pressed) THEN ~inject ELSE inject
         /\ Acts(controlKey, pressed) => actions < MaxActions
         /\ actions' = IF Acts(controlKey, pressed) THEN actions + 1 ELSE actions
    /\ faults' = FaultsOf(monitor.view, inject')
    /\ UNCHANGED <<sensorVars, queue, rx, view, pwm, started, due, ahead, pwmAge, losses, resets,
                   holds>>

\* IoDrv_SetPwm, and the end of the cycle.
MonitorDrive ==
    /\ monitor.pc = "drive"
    /\ pwm' = IF SpeedFault(faults) THEN 0 ELSE monitor.view.speed
    /\ pwmAge' = monitor.view.sent
    /\ monitor' = [pc |-> "delay", view |-> InitialView, behind |-> monitor.behind - 1]
    /\ UNCHANGED <<sensorVars, queue, rx, view, faults, controlKey, inject, started, due, ahead,
                   boundVars>>

-----------------------------------------------------------------------------
(* Time.                                                                   *)

Aged(v) == [v EXCEPT !.age = Older(@, Old), !.sent = Older(@, Old)]

\* Something of this period is left for the next.
Late == due \/ monitor.behind > 0 \/ queue /= <<>>

\* The next period begins; a tick the main loop has not taken is lost.
Tick ==
    /\ monitor.behind <= MaxBacklog
    /\ \A k \in DOMAIN queue : queue[k].age < MaxWait
    /\ Late => holds < MaxHolds
    /\ holds' = IF Late THEN holds + 1 ELSE holds
    /\ due' = TRUE
    /\ queue' = [k \in DOMAIN queue |-> [queue[k] EXCEPT !.age = @ + 1]]
    /\ view' = Aged(view)
    /\ monitor' = [monitor EXCEPT !.behind = @ + 1,
                                  !.view = IF monitor.pc = "delay" THEN @ ELSE Aged(@)]
    /\ pwmAge' = Older(pwmAge, Old)
    /\ started' = Older(started, Grace + 1)
    /\ UNCHANGED <<sensorVars, rx, faults, controlKey, inject, pwm, ahead, losses, resets, actions>>

Next ==
    \/ SensorTask
    \/ HandleSpeedFrame
    \/ SoftReset
    \/ MonitorCopy
    \/ MonitorJudge
    \/ MonitorDrive
    \/ Tick

\* The periodic tasks and ComRx are scheduled, and time passes.
Fairness ==
    WF_vars(SensorTask \/ HandleSpeedFrame \/ MonitorCopy \/ MonitorJudge \/ MonitorDrive \/ Tick)

Spec == Init /\ [][Next]_vars /\ Fairness

-----------------------------------------------------------------------------
(* Properties.                                                             *)

Frame == [counter : 0 .. CounterMod - 1, age : 0 .. MaxWait, damage : Damages, adcError : BOOLEAN,
          speed : 0 .. MaxSpeed \union {FaultSpeed}]
View == [speed : 0 .. MaxSpeed \union {FaultSpeed}, adcError : BOOLEAN, age : 0 .. Old,
         received : BOOLEAN, e2eError : BOOLEAN, goodStreak : 0 .. HealFrames,
         good : 0 .. HealFrames + 1, sent : 0 .. Old]
Key == [stable : 0 .. DebounceTicks, latched : BOOLEAN]

\* Type invariant.
TypeOK ==
    /\ counter \in 0 .. CounterMod - 1
    /\ adc \in [speed : Speeds, error : BOOLEAN]
    /\ mode \in {"NONE", "SILENT", "OUT_OF_RANGE"}
    /\ sensorKey \in Key /\ controlKey \in Key
    /\ queue \in Seq(Frame)
    /\ rx \in [synced : BOOLEAN, lastCounter : 0 .. CounterMod - 1]
    /\ view \in View
    /\ monitor \in [pc : {"delay", "judge", "drive"}, view : View, behind : 0 .. MaxBacklog + 1]
    /\ faults \subseteq {"TIMEOUT", "RANGE", "E2E", "ADC", "LOCAL"}
    /\ inject \in BOOLEAN /\ due \in BOOLEAN
    /\ pwm \in 0 .. MaxSpeed \union {FaultSpeed} /\ pwmAge \in 0 .. Old
    /\ started \in 0 .. Grace + 1 /\ ahead \in 0 .. AheadMax

\* control_app.c:356 "never drive the output from stale or implausible data":
\* the speed in use is in range and was sent a timeout, a monitor period and the
\* delays of the tasks ago at most.  The wait in the queue adds to the timeout,
\* as the age in the view starts when ComRx takes the frame; Monitor's delay does
\* once only, however far its cycles are behind.
SafeOutput == pwm /= 0 => pwmAge <= Timeout + 1 + MaxWait + MaxBacklog /\ pwm <= MaxSpeed

\* A gap of more frames than E2E tolerates never passes for a good one: the
\* alive counter rejects the frame after it, or the gap is so long that the
\* counter has come round and Monitor has raised the timeout meanwhile.
GapNoticed ==
    [][HandleSpeedFrame /\ rx.synced /\ ahead - SentAfter(Head(queue)) > MaxDelta
         /\ IsValid(Status(rx, Head(queue))) => "TIMEOUT" \in faults]_vars

\* An E2E error is never forgotten before HealFrames good frames in a row.
HealsLate == ~view.e2eError => view.good >= HealFrames

\* A sensor that stays silent or out of range, and a local fault that stays
\* injected, bring the output to its safe state for good.
SafeStateReached == <>[](mode /= "NONE" \/ inject) => <>[](pwm = 0)

\* When the disturbances end, the output follows the sensor again: E2E gets
\* back in step and every speed fault heals.
Recovers == <>[](mode = "NONE" /\ ~inject /\ adc.speed /= 0) => <>[](pwm /= 0)
=============================================================================
