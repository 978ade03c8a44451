--------------------------- MODULE SpeedPathProofs ---------------------------
(***************************************************************************)
(* Proofs about the speed path, for every timeout, counter, queue and      *)
(* every delay of the tasks: its type invariant, that the output is never  *)
(* driven from data older than the timeout and the delays together, and    *)
(* that a gap the counter cannot show is noticed by the timeout.           *)
(*                                                                         *)
(* The age Monitor judged and the age at which the PWM is written differ   *)
(* by the periods begun in between; so do the ages of two writes.  What    *)
(* bounds both is monitor.behind, the periods Monitor owes: the inductive  *)
(* invariant states every age relative to it.                              *)
(***************************************************************************)
EXTENDS SpeedPath, TLAPS

\* A view's speed is from a frame, that was sent MaxWait before it was handled at
\* the earliest.
FromFrame(v) ==
    /\ v.received => v.sent <= v.age + MaxWait
    /\ ~v.received => v.speed = 0

\* What Monitor found good was within the timeout when it was judged, and the
\* periods begun since are owed.
Judged ==
    monitor.pc = "drive" /\ ~SpeedFault(faults) =>
        /\ monitor.view.received => monitor.view.age <= Timeout + monitor.behind - 1
        /\ monitor.view.speed <= MaxSpeed

\* The same for what the output was last driven with.
Driven == pwm /= 0 => pwmAge <= Timeout + MaxWait + monitor.behind /\ pwm <= MaxSpeed

Working == monitor.pc /= "delay" => monitor.behind > 0

IInv ==
    /\ TypeOK
    /\ FromFrame(view) /\ FromFrame(monitor.view)
    /\ Judged /\ Driven /\ Working
    /\ view.goodStreak <= view.good /\ HealsLate

-----------------------------------------------------------------------------
(* The operators.                                                          *)

LEMMA CounterType ==
    ASSUME NEW c \in 0 .. CounterMod - 1
    PROVE  NextCounter(c) \in 0 .. CounterMod - 1
BY CounterAssumption DEF NextCounter

LEMMA QueuedType ==
    ASSUME NEW q \in Seq(Frame), NEW f \in Frame
    PROVE  Queued(q, f) \in Seq(Frame)
BY DEF Queued

LEMMA KeyType ==
    ASSUME NEW key \in Key, NEW pressed \in BOOLEAN
    PROVE  KeyAfter(key, pressed) \in Key
<1> DEFINE k == KeyAfter(key, pressed)
<1>1. key.stable \in 0 .. DebounceTicks /\ key.latched \in BOOLEAN
  BY DEF Key
<1>2. CASE ~pressed
  <2>1. k = Released
    BY <1>2 DEF KeyAfter
  <2>2. 0 \in 0 .. DebounceTicks
    BY SpeedAssumption
  <2> QED
    BY <2>1, <2>2 DEF Released, Key
<1>3. CASE pressed /\ key.stable < DebounceTicks
  <2>1. k = [key EXCEPT !.stable = key.stable + 1]
    BY <1>3 DEF KeyAfter
  <2>2. key.stable + 1 \in 0 .. DebounceTicks
    BY <1>1, <1>3, SpeedAssumption
  <2> QED
    BY <2>1, <2>2, Zenon DEF Key
<1>4. CASE pressed /\ ~(key.stable < DebounceTicks)
  <2>1. k = [key EXCEPT !.latched = TRUE]
    BY <1>4 DEF KeyAfter
  <2> QED
    BY <2>1, Zenon DEF Key
<1> QED
  BY <1>2, <1>3, <1>4

LEMMA OlderType ==
    ASSUME NEW max \in Nat, NEW a \in 0 .. max
    PROVE  /\ Older(a, max) \in 0 .. max
           /\ Older(a, max) >= a /\ Older(a, max) <= a + 1
           /\ a < max => Older(a, max) = a + 1
BY DEF Older

\* A view is updated to one of a frame, or keeps its data.
LEMMA ViewType ==
    ASSUME NEW v \in View, NEW f \in Frame, NEW s
    PROVE  /\ ViewAfter(v, f, s) \in View
           /\ FromFrame(v) => FromFrame(ViewAfter(v, f, s))
           /\ v.goodStreak <= v.good /\ (~v.e2eError => v.good >= HealFrames)
                => /\ ViewAfter(v, f, s).goodStreak <= ViewAfter(v, f, s).good
                   /\ ~ViewAfter(v, f, s).e2eError => ViewAfter(v, f, s).good >= HealFrames
<1> USE SpeedAssumption DEF View, Frame
<1>1. CASE IsValid(s)
  <2> DEFINE w == ViewAfter(v, f, s)
  <2>1. w = [v EXCEPT !.speed = f.speed, !.adcError = f.adcError, !.age = 0, !.sent = f.age, !.received = TRUE,
                   !.goodStreak = FirstOf(HealFrames, @ + 1), !.good = FirstOf(HealFrames + 1, @ + 1),
                   !.e2eError = @ /\ v.goodStreak < HealFrames]
    BY <1>1 DEF ViewAfter
  <2>2. /\ w.speed = f.speed /\ w.adcError = f.adcError /\ w.age = 0 /\ w.sent = f.age
        /\ w.received = TRUE /\ w.goodStreak = FirstOf(HealFrames, v.goodStreak + 1)
        /\ w.good = FirstOf(HealFrames + 1, v.good + 1)
        /\ w.e2eError = (v.e2eError /\ v.goodStreak < HealFrames)
        /\ w = [speed |-> w.speed, adcError |-> w.adcError, age |-> w.age, received |-> w.received,
                e2eError |-> w.e2eError, goodStreak |-> w.goodStreak, good |-> w.good, sent |-> w.sent]
    BY <2>1, ZenonT(30)
  <2>3. /\ w.goodStreak \in 0 .. HealFrames /\ w.good \in 0 .. HealFrames + 1
        /\ w.goodStreak <= HealFrames /\ w.goodStreak <= v.goodStreak + 1
        /\ v.goodStreak <= v.good => w.goodStreak <= w.good
        /\ v.good >= HealFrames => w.good >= HealFrames
    BY <2>2 DEF FirstOf
  <2>4. w.e2eError \in BOOLEAN
    BY <2>2
  <2> HIDE DEF w
  <2>5. w \in View
    <3>1. /\ w.speed \in 0 .. MaxSpeed \union {FaultSpeed}
          /\ w.age \in 0 .. Old /\ w.sent \in 0 .. Old
      BY <2>2 DEF Old
    <3>2. w.adcError \in BOOLEAN /\ w.received \in BOOLEAN
      BY <2>2, Zenon
    <3> QED
      BY <2>2, <2>3, <2>4, <3>1, <3>2, Zenon
  <2>6. FromFrame(w)
    BY <2>2 DEF FromFrame
  <2>7. ASSUME v.goodStreak <= v.good, ~v.e2eError => v.good >= HealFrames, ~w.e2eError
        PROVE  w.good >= HealFrames
    <3>1. ~v.e2eError \/ v.goodStreak >= HealFrames
      BY <2>7, <2>2
    <3>2. v.good >= HealFrames
      BY <3>1, <2>7
    <3> QED
      BY <3>2, <2>3
  <2> QED
    BY <2>3, <2>5, <2>6, <2>7 DEF w
<1>2. CASE ~IsValid(s)
  <2>1. ViewAfter(v, f, s) = [v EXCEPT !.e2eError = TRUE, !.goodStreak = 0, !.good = 0]
    BY <1>2 DEF ViewAfter
  <2>2. ViewAfter(v, f, s) \in View
    <3>1. 0 \in 0 .. HealFrames /\ 0 \in 0 .. HealFrames + 1
      OBVIOUS
    <3> QED
      BY <2>1, <3>1, ZenonT(30)
  <2>3. FromFrame(v) => FromFrame(ViewAfter(v, f, s))
    BY <2>1 DEF FromFrame
  <2>4. /\ ViewAfter(v, f, s).goodStreak <= ViewAfter(v, f, s).good
        /\ ViewAfter(v, f, s).e2eError
    BY <2>1
  <2> QED
    BY <2>2, <2>3, <2>4
<1> QED
  BY <1>1, <1>2

\* A view grows older.
LEMMA AgedType ==
    ASSUME NEW v \in View
    PROVE  /\ Aged(v) \in View
           /\ FromFrame(v) => FromFrame(Aged(v))
           /\ Aged(v).age <= v.age + 1
           /\ Aged(v).received = v.received /\ Aged(v).speed = v.speed
           /\ Aged(v).goodStreak = v.goodStreak /\ Aged(v).good = v.good
           /\ Aged(v).e2eError = v.e2eError
<1> DEFINE w == Aged(v)
<1>1. /\ v.age \in 0 .. Old /\ v.sent \in 0 .. Old /\ Old \in Nat
  BY SpeedAssumption DEF View, Old
<1>2. w = [v EXCEPT !.age = Older(v.age, Old), !.sent = Older(v.sent, Old)]
  BY DEF Aged
<1>3. /\ w.age = Older(v.age, Old) /\ w.sent = Older(v.sent, Old)
      /\ w.received = v.received /\ w.speed = v.speed /\ w.e2eError = v.e2eError
      /\ w.goodStreak = v.goodStreak /\ w.good = v.good
  BY <1>2 DEF View
<1> HIDE DEF w
<1>4. /\ w.age \in 0 .. Old /\ w.age <= v.age + 1
      /\ v.age < Old => w.age = v.age + 1
      /\ v.age = Old => w.age = Old
      /\ w.sent \in 0 .. Old /\ w.sent <= v.sent + 1
  BY <1>1, <1>3 DEF Older
<1>5. w \in View
  <2>1. Older(v.age, Old) \in 0 .. Old /\ Older(v.sent, Old) \in 0 .. Old
    BY <1>3, <1>4
  <2> QED
    BY <1>2, <2>1, Zenon DEF View
<1>6. FromFrame(v) => FromFrame(w)
  <2>1. CASE v.age < Old
    BY <2>1, <1>1, <1>3, <1>4, SpeedAssumption DEF FromFrame
  <2>2. CASE v.age = Old
    BY <2>2, <1>1, <1>3, <1>4, SpeedAssumption DEF FromFrame, Older
  <2> QED
    BY <2>1, <2>2, <1>1
<1> QED
  BY <1>3, <1>4, <1>5, <1>6 DEF w

-----------------------------------------------------------------------------
(* The inductive invariant.                                                *)

LEMMA InitialViewType == InitialView \in View /\ FromFrame(InitialView)
<1>1. InitialView \in View
  BY SpeedAssumption DEF InitialView, View, Old
<1>2. ~InitialView.received /\ InitialView.speed = 0
  BY DEF InitialView
<1> QED
  BY <1>1, <1>2 DEF FromFrame

LEMMA InitIInv == Init => IInv
<1> SUFFICES ASSUME Init PROVE IInv
  OBVIOUS
<1> USE SpeedAssumption, CounterAssumption DEF Init
<1>1. InitialView \in View /\ FromFrame(InitialView)
  BY InitialViewType
<1>2. Released \in Key
  BY DEF Released, Key
<1>3. /\ InitialRx \in [synced : BOOLEAN, lastCounter : 0 .. CounterMod - 1]
  BY DEF InitialRx
<1>4. adc \in [speed : Speeds, error : BOOLEAN]
  OBVIOUS
<1>5. monitor \in [pc : {"delay", "judge", "drive"}, view : View, behind : 0 .. MaxBacklog + 1]
  BY <1>1
<1>6. /\ counter \in 0 .. CounterMod - 1 /\ queue \in Seq(Frame)
      /\ pwm \in 0 .. MaxSpeed \union {FaultSpeed} /\ pwmAge \in 0 .. Old
      /\ started \in 0 .. Grace + 1 /\ ahead \in 0 .. AheadMax
  BY SMTT(30) DEF Old, AheadMax
<1>7. inject \in BOOLEAN /\ due \in BOOLEAN
  BY Zenon
<1>8. TypeOK
  BY <1>1, <1>2, <1>3, <1>4, <1>5, <1>6, <1>7, Zenon DEF TypeOK
<1>9. view.goodStreak <= view.good /\ HealsLate
  BY DEF InitialView, HealsLate
<1> QED
  BY <1>1, <1>8, <1>9 DEF IInv, Judged, Driven, Working

\* Frames are appended to the queue only as Frame allows.
LEMMA DeliveredType ==
    ASSUME NEW f \in Frame, queue \in Seq(Frame), Delivered(f)
    PROVE  queue' \in Seq(Frame)
<1>1. CASE queue' = Queued(queue, f)
  BY <1>1, QueuedType
<1>2. CASE queue' \in {queue, Queued(Queued(queue, f), f)}
  BY <1>2, QueuedType
<1>3. ASSUME NEW d \in Damages, queue' = Queued(queue, [f EXCEPT !.damage = d])
      PROVE  queue' \in Seq(Frame)
  <2>1. [f EXCEPT !.damage = d] \in Frame
    BY <1>3, Zenon DEF Frame
  <2> QED
    BY <1>3, <2>1, QueuedType
<1> QED
  BY <1>1, <1>2, <1>3 DEF Delivered

LEMMA SensorTaskStep == IInv /\ SensorTask => IInv'
<1> SUFFICES ASSUME IInv, SensorTask PROVE IInv'
  OBVIOUS
<1> USE SpeedAssumption, CounterAssumption
<1>1. sensorKey' \in Key
  <2>1. PICK pressed \in SensorButton : sensorKey' = KeyAfter(sensorKey, pressed)
    BY DEF SensorTask
  <2> QED
    BY <2>1, KeyType DEF IInv, TypeOK
<1>2. mode' \in {"NONE", "SILENT", "OUT_OF_RANGE"}
  BY DEF SensorTask, NextMode, IInv, TypeOK
<1>3. adc' \in [speed : Speeds, error : BOOLEAN]
  <2>1. CASE adc' \in [speed : Speeds, error : {FALSE}]
    BY <2>1, Zenon
  <2>2. CASE adc' = [adc EXCEPT !.error = TRUE]
    BY <2>2, Zenon DEF IInv, TypeOK
  <2> QED
    BY <2>1, <2>2 DEF SensorTask, SampleInput
<1>4. /\ counter' \in 0 .. CounterMod - 1 /\ ahead' \in 0 .. AheadMax
      /\ queue' \in Seq(Frame)
  <2>1. CASE mode' = "SILENT"
    BY <2>1 DEF SensorTask, SendSpeedFrame, IInv, TypeOK
  <2>2. CASE mode' /= "SILENT"
    <3> DEFINE f == [counter |-> counter, age |-> 0, damage |-> "none", adcError |-> adc'.error,
                     speed |-> IF mode' = "OUT_OF_RANGE" THEN FaultSpeed ELSE adc'.speed]
    <3>1. counter' = NextCounter(counter) /\ ahead' = Older(ahead, AheadMax) /\ Delivered(f)
      BY <2>2 DEF SensorTask, SendSpeedFrame
    <3>2. f \in Frame
      <4>1. adc'.error \in BOOLEAN
        BY <1>3, Zenon
      <4>2. adc'.speed \in 0 .. MaxSpeed
        BY <1>3
      <4>3. f.speed \in 0 .. MaxSpeed \union {FaultSpeed}
        BY <4>2
      <4>4. 0 \in 0 .. MaxWait /\ counter \in 0 .. CounterMod - 1
        BY DEF IInv, TypeOK
      <4> QED
        BY <4>1, <4>3, <4>4, Zenon DEF Frame, Damages
    <3> HIDE DEF f
    <3>3. queue' \in Seq(Frame)
      BY <3>1, <3>2, DeliveredType DEF IInv, TypeOK
    <3>4. AheadMax \in Nat
      BY DEF AheadMax
    <3> QED
      BY <3>1, <3>3, <3>4, CounterType, OlderType DEF IInv, TypeOK
  <2> QED
    BY <2>1, <2>2
<1>5. due' \in BOOLEAN
  BY Zenon DEF SensorTask
<1>6. UNCHANGED <<controlVars, started, pwmAge>>
  BY DEF SensorTask
<1>7. TypeOK'
  BY <1>1, <1>2, <1>3, <1>4, <1>5, <1>6 DEF IInv, TypeOK, controlVars, Old
<1> QED
  BY <1>6, <1>7 DEF IInv, controlVars, Judged, Driven, Working, HealsLate, SpeedFault

LEMMA HandleSpeedFrameStep == IInv /\ HandleSpeedFrame => IInv'
<1> SUFFICES ASSUME IInv, HandleSpeedFrame PROVE IInv'
  OBVIOUS
<1> USE SpeedAssumption, CounterAssumption
<1> DEFINE f == Head(queue)
           s == Status(rx, f)
<1>1. f \in Frame /\ queue' \in Seq(Frame)
  <2>1. queue \in Seq(Frame) /\ queue /= <<>> /\ queue' = Tail(queue)
    BY DEF HandleSpeedFrame, IInv, TypeOK
  <2> HIDE DEF Frame
  <2> QED
    BY <2>1
<1>2. view' = ViewAfter(view, f, s) /\ view \in View
  BY DEF HandleSpeedFrame, IInv, TypeOK
<1>3. rx' \in [synced : BOOLEAN, lastCounter : 0 .. CounterMod - 1]
  <2>1. f.counter \in 0 .. CounterMod - 1
    BY <1>1 DEF Frame
  <2>2. rx' = rx \/ rx' = [synced |-> TRUE, lastCounter |-> f.counter]
    BY DEF HandleSpeedFrame, AfterCheck
  <2>3. CASE rx' = rx
    BY <2>3 DEF IInv, TypeOK
  <2>4. CASE rx' = [synced |-> TRUE, lastCounter |-> f.counter]
    <3> HIDE DEF f
    <3> QED
      BY <2>1, <2>4
  <2> QED
    BY <2>2, <2>3, <2>4
<1>4. ahead' \in 0 .. AheadMax
  <2>1. SentAfter(f) \in 0 .. CounterMod - 1
    <3>1. f.counter \in 0 .. CounterMod - 1
      BY <1>1 DEF Frame
    <3>2. counter \in 0 .. CounterMod - 1
      BY DEF IInv, TypeOK
    <3> HIDE DEF f
    <3> QED
      BY <3>1, <3>2 DEF SentAfter
  <2>2. ahead' = ahead \/ ahead' = SentAfter(f)
    BY DEF HandleSpeedFrame
  <2>3. ahead \in 0 .. AheadMax
    BY DEF IInv, TypeOK
  <2> QED
    BY <2>1, <2>2, <2>3 DEF AheadMax
<1> HIDE DEF f, s
<1>5. view' \in View /\ FromFrame(view')
      /\ view'.goodStreak <= view'.good /\ (~view'.e2eError => view'.good >= HealFrames)
  BY <1>1, <1>2, ViewType DEF IInv, HealsLate
<1>6. UNCHANGED <<sensorVars, monitor, faults, controlKey, inject, pwm, started, due, pwmAge>>
  BY DEF HandleSpeedFrame
<1>7. TypeOK'
  BY <1>1, <1>3, <1>4, <1>5, <1>6 DEF IInv, TypeOK, sensorVars, Old
<1> QED
  BY <1>5, <1>6, <1>7 DEF IInv, Judged, Driven, Working, HealsLate, SpeedFault

LEMMA SoftResetStep == IInv /\ SoftReset => IInv'
<1> SUFFICES ASSUME IInv, SoftReset PROVE IInv'
  OBVIOUS
<1>1. rx' \in [synced : BOOLEAN, lastCounter : 0 .. CounterMod - 1]
  BY CounterAssumption DEF SoftReset, InitialRx
<1>2. UNCHANGED <<sensorVars, queue, view, monitor, faults, controlKey, inject, pwm, started,
                  due, ahead, pwmAge>>
  BY DEF SoftReset
<1> QED
  BY <1>1, <1>2 DEF IInv, TypeOK, sensorVars, Old, Judged, Driven, Working, HealsLate, SpeedFault

LEMMA MonitorCopyStep == IInv /\ MonitorCopy => IInv'
<1> SUFFICES ASSUME IInv, MonitorCopy PROVE IInv'
  OBVIOUS
<1>1. /\ monitor.behind > 0
      /\ monitor' = [monitor EXCEPT !.pc = "judge", !.view = view]
      /\ UNCHANGED <<sensorVars, queue, rx, view, faults, controlKey, inject, pwm, started, due,
                     ahead, pwmAge>>
  BY DEF MonitorCopy
<1>2. /\ monitor'.pc = "judge" /\ monitor'.view = view /\ monitor'.behind = monitor.behind
      /\ monitor' \in [pc : {"delay", "judge", "drive"}, view : View, behind : 0 .. MaxBacklog + 1]
  BY <1>1 DEF IInv, TypeOK
<1>3. TypeOK'
  BY <1>1, <1>2 DEF IInv, TypeOK, sensorVars, Old
<1> QED
  BY <1>1, <1>2, <1>3 DEF IInv, Judged, Driven, Working, HealsLate

LEMMA MonitorJudgeStep == IInv /\ MonitorJudge => IInv'
<1> SUFFICES ASSUME IInv, MonitorJudge PROVE IInv'
  OBVIOUS
<1> USE SpeedAssumption
<1>1. /\ monitor.pc = "judge"
      /\ monitor' = [monitor EXCEPT !.pc = "drive"]
      /\ faults' = FaultsOf(monitor.view, inject')
      /\ UNCHANGED <<sensorVars, queue, rx, view, pwm, started, due, ahead, pwmAge>>
  BY DEF MonitorJudge
<1>2. controlKey' \in Key /\ inject' \in BOOLEAN
  <2>1. PICK pressed \in ControlButton :
           /\ controlKey' = KeyAfter(controlKey, pressed)
           /\ inject' = IF Acts(controlKey, pressed) THEN ~inject ELSE inject
    BY DEF MonitorJudge
  <2>2. inject' \in BOOLEAN
    BY <2>1, Zenon DEF IInv, TypeOK
  <2> QED
    BY <2>1, <2>2, KeyType DEF IInv, TypeOK
<1>3. /\ monitor'.pc = "drive" /\ monitor'.view = monitor.view /\ monitor'.behind = monitor.behind
      /\ monitor.view \in View /\ monitor.behind \in Nat /\ monitor.behind > 0
      /\ monitor' \in [pc : {"delay", "judge", "drive"}, view : View, behind : 0 .. MaxBacklog + 1]
  <2>1. monitor \in [pc : {"delay", "judge", "drive"}, view : View, behind : 0 .. MaxBacklog + 1]
    BY DEF IInv, TypeOK
  <2>2. monitor.behind > 0
    BY <1>1 DEF IInv, Working
  <2> HIDE DEF View
  <2> QED
    BY <1>1, <2>1, <2>2
<1>4. faults' \subseteq {"TIMEOUT", "RANGE", "E2E", "ADC", "LOCAL"}
  BY <1>1 DEF FaultsOf
<1>5. TypeOK'
  BY <1>1, <1>2, <1>3, <1>4 DEF IInv, TypeOK, sensorVars, Old
<1>6. Judged'
  <2> SUFFICES ASSUME ~SpeedFault(faults')
               PROVE  /\ monitor.view.received => monitor.view.age <= Timeout + monitor.behind - 1
                      /\ monitor.view.speed <= MaxSpeed
    BY <1>3 DEF Judged
  <2>1. "TIMEOUT" \notin faults' /\ "RANGE" \notin faults'
    BY DEF SpeedFault
  <2>2. ~TimedOut(monitor.view) /\ ~(monitor.view.received /\ monitor.view.speed > MaxSpeed)
    BY <1>1, <2>1 DEF FaultsOf
  <2>3. /\ monitor.view.age \in Nat /\ monitor.view.speed \in Nat
    BY <1>3 DEF View
  <2>4. monitor.view.received => monitor.view.age <= Timeout
    BY <2>2, <2>3 DEF TimedOut
  <2>5. monitor.view.speed <= MaxSpeed
    BY <2>2, <2>3 DEF IInv, FromFrame
  <2> QED
    BY <1>3, <2>3, <2>4, <2>5
<1> QED
  BY <1>1, <1>3, <1>5, <1>6 DEF IInv, Driven, Working, HealsLate

LEMMA MonitorDriveStep == IInv /\ MonitorDrive => IInv'
<1> SUFFICES ASSUME IInv, MonitorDrive PROVE IInv'
  OBVIOUS
<1> USE SpeedAssumption
<1>1. /\ monitor.pc = "drive"
      /\ pwm' = IF SpeedFault(faults) THEN 0 ELSE monitor.view.speed
      /\ pwmAge' = monitor.view.sent
      /\ monitor' = [pc |-> "delay", view |-> InitialView, behind |-> monitor.behind - 1]
      /\ UNCHANGED <<sensorVars, queue, rx, view, faults, controlKey, inject, started, due, ahead>>
  BY DEF MonitorDrive
<1>2. InitialView \in View /\ FromFrame(InitialView)
  BY DEF InitialView, View, FromFrame, Old
<1>3. /\ monitor.view \in View /\ monitor.behind \in 0 .. MaxBacklog + 1 /\ monitor.behind > 0
  BY <1>1 DEF IInv, TypeOK, Working
<1>4. /\ monitor'.pc = "delay" /\ monitor'.view = InitialView
      /\ monitor'.behind = monitor.behind - 1
      /\ monitor' \in [pc : {"delay", "judge", "drive"}, view : View, behind : 0 .. MaxBacklog + 1]
  BY <1>1, <1>2, <1>3
<1>5. /\ monitor.view.speed \in 0 .. MaxSpeed \union {FaultSpeed} /\ monitor.view.sent \in 0 .. Old
      /\ monitor.view.age \in 0 .. Old
  BY <1>3 DEF View
<1>6. TypeOK'
  BY <1>1, <1>4, <1>5 DEF IInv, TypeOK, sensorVars, Old
<1>7. Driven'
  <2> SUFFICES ASSUME pwm' /= 0
               PROVE  pwmAge' <= Timeout + MaxWait + monitor.behind - 1 /\ pwm' <= MaxSpeed
    BY <1>3, <1>4 DEF Driven
  <2>1. ~SpeedFault(faults) /\ pwm' = monitor.view.speed
    BY <1>1
  <2>2. monitor.view.received
    BY <2>1 DEF IInv, FromFrame
  <2>3. monitor.view.age <= Timeout + monitor.behind - 1 /\ monitor.view.speed <= MaxSpeed
    BY <1>1, <2>1, <2>2 DEF IInv, Judged
  <2>4. monitor.view.sent <= monitor.view.age + MaxWait
    BY <2>2 DEF IInv, FromFrame
  <2> QED
    BY <1>1, <1>3, <1>5, <2>1, <2>3, <2>4 DEF Old
<1> QED
  BY <1>1, <1>2, <1>4, <1>6, <1>7 DEF IInv, Judged, Working, HealsLate

LEMMA AnySequence ==
    ASSUME NEW S, NEW n \in Nat, NEW D, D = 1 .. n, NEW q, q = [k \in D |-> q[k]],
           \A k \in D : q[k] \in S
    PROVE  q \in Seq(S)
OBVIOUS

LEMMA TickStep == IInv /\ Tick => IInv'
<1> SUFFICES ASSUME IInv, Tick PROVE IInv'
  OBVIOUS
<1> USE SpeedAssumption
<1>1. /\ monitor.behind <= MaxBacklog
      /\ view' = Aged(view)
      /\ monitor' = [monitor EXCEPT !.behind = @ + 1,
                                    !.view = IF monitor.pc = "delay" THEN @ ELSE Aged(@)]
      /\ pwmAge' = Older(pwmAge, Old) /\ started' = Older(started, Grace + 1) /\ due' = TRUE
      /\ UNCHANGED <<sensorVars, rx, faults, controlKey, inject, pwm, ahead>>
  BY DEF Tick
<1>2. queue' \in Seq(Frame)
  <2>1. queue \in Seq(Frame)
    BY DEF IInv, TypeOK
  <2>2. ASSUME NEW k \in DOMAIN queue
        PROVE  [queue[k] EXCEPT !.age = queue[k].age + 1] \in Frame
    <3>1. queue[k] \in Frame
      BY <2>1, SMTT(30)
    <3>2. queue[k].age < MaxWait /\ queue[k].age \in 0 .. MaxWait
      BY <3>1 DEF Tick, Frame
    <3>3. queue[k].age + 1 \in 0 .. MaxWait
      BY <3>2
    <3> QED
      BY <3>1, <3>3, Zenon DEF Frame
  <2>3. queue' = [k \in DOMAIN queue |-> [queue[k] EXCEPT !.age = queue[k].age + 1]]
    BY DEF Tick
  <2>4. DOMAIN queue = 1 .. Len(queue) /\ Len(queue) \in Nat
    BY <2>1
  <2> QED
    BY <2>2, <2>3, <2>4, AnySequence
<1>3. /\ view \in View /\ monitor.view \in View /\ monitor.behind \in 0 .. MaxBacklog + 1
      /\ monitor.pc \in {"delay", "judge", "drive"}
  BY DEF IInv, TypeOK
<1>4. /\ monitor'.pc = monitor.pc /\ monitor'.behind = monitor.behind + 1
      /\ monitor'.view \in {monitor.view, Aged(monitor.view)}
      /\ monitor' = [pc |-> monitor.pc, view |-> monitor'.view, behind |-> monitor.behind + 1]
  BY <1>1 DEF IInv, TypeOK
<1>5. /\ monitor'.view \in View /\ FromFrame(monitor'.view)
      /\ monitor'.view.age <= monitor.view.age + 1
      /\ monitor'.view.received = monitor.view.received /\ monitor'.view.speed = monitor.view.speed
  BY <1>3, <1>4, AgedType DEF IInv, View
<1>6. /\ view' \in View /\ FromFrame(view')
      /\ view'.goodStreak = view.goodStreak /\ view'.good = view.good /\ view'.e2eError = view.e2eError
  BY <1>1, <1>3, AgedType DEF IInv
<1>7. monitor' \in [pc : {"delay", "judge", "drive"}, view : View, behind : 0 .. MaxBacklog + 1]
  <2>1. monitor.behind + 1 \in 0 .. MaxBacklog + 1
    BY <1>1, <1>3
  <2> QED
    BY <1>3, <1>4, <1>5, <2>1, Zenon
<1>8. /\ pwmAge' \in 0 .. Old /\ pwmAge' <= pwmAge + 1 /\ started' \in 0 .. Grace + 1
  <2>1. Old \in Nat /\ Grace + 1 \in Nat
    BY DEF Old
  <2>2. pwmAge \in 0 .. Old /\ started \in 0 .. Grace + 1
    BY DEF IInv, TypeOK
  <2> QED
    BY <1>1, <2>1, <2>2, OlderType
<1>9. TypeOK'
  BY <1>1, <1>2, <1>6, <1>7, <1>8 DEF IInv, TypeOK, sensorVars, Old
<1>10. Judged'
  <2>1. monitor.view.age \in Nat /\ monitor'.view.age \in Nat
    BY <1>3, <1>5 DEF View
  <2> QED
    BY <1>1, <1>3, <1>4, <1>5, <2>1 DEF IInv, Judged
<1>11. Driven'
  <2>1. pwmAge \in Nat /\ pwmAge' \in Nat
    BY <1>8 DEF IInv, TypeOK
  <2> QED
    BY <1>1, <1>3, <1>4, <1>8, <2>1 DEF IInv, Driven
<1> QED
  BY <1>1, <1>3, <1>4, <1>5, <1>6, <1>9, <1>10, <1>11 DEF IInv, Working, HealsLate

LEMMA StepIInv == IInv /\ [Next]_vars => IInv'
<1> SUFFICES ASSUME IInv, [Next]_vars PROVE IInv'
  OBVIOUS
<1>1. CASE UNCHANGED vars
  BY <1>1 DEF vars, sensorVars, controlVars, IInv, TypeOK, Old, Judged, Driven, Working, HealsLate,
              SpeedFault
<1> QED
  BY <1>1, SensorTaskStep, HandleSpeedFrameStep, SoftResetStep, MonitorCopyStep, MonitorJudgeStep,
     MonitorDriveStep, TickStep DEF Next

-----------------------------------------------------------------------------

LEMMA Invariance == Spec => []IInv
BY InitIInv, StepIInv, PTL DEF Spec

\* Every variable has its type.
THEOREM TypeCorrect == Spec => []TypeOK
<1>1. IInv => TypeOK
  BY DEF IInv
<1> QED
  BY <1>1, Invariance, PTL

\* The output is never driven from stale or implausible data (control_app.c:356),
\* however the tasks are held up within their bounds, whatever the bus does.
THEOREM SafeOutputCorrect == Spec => []SafeOutput
<1>1. IInv => SafeOutput
  <2> SUFFICES ASSUME IInv PROVE SafeOutput
    OBVIOUS
  <2>1. pwmAge \in Nat /\ monitor.behind \in 0 .. MaxBacklog + 1
    BY DEF IInv, TypeOK
  <2>2. Driven
    BY DEF IInv
  <2> QED
    BY <2>1, <2>2, SpeedAssumption DEF Driven, SafeOutput
<1> QED
  BY <1>1, Invariance, PTL

\* An E2E error heals after HealFrames good frames in a row at the earliest.
THEOREM HealsLateCorrect == Spec => []HealsLate
<1>1. IInv => HealsLate
  BY DEF IInv
<1> QED
  BY <1>1, Invariance, PTL

-----------------------------------------------------------------------------
(* The alive counter and time.  A frame is sent in a period of its own, so *)
(* the frames sent since the one that rx.lastCounter is of bound the age   *)
(* of the view from below; what Monitor has not yet raised a timeout for   *)
(* bounds it from above.                                                   *)

\* Frames sent since the one with counter c, less than a turn of the counter,
\* when n is the next counter; the one still to be sent in this period.
Since(n, c) == IF c < n THEN n - 1 - c ELSE n + CounterMod - 1 - c
Unsent(d) == IF d = TRUE THEN 0 ELSE 1
Timely(q, n, u) == \A k \in DOMAIN q : Since(n, q[k].counter) + 1 <= q[k].age + u

Follows ==
    rx.synced =>
        /\ view.received
        /\ \/ ahead > CounterMod
           \/ ahead = Since(counter, rx.lastCounter)
           \/ ahead = CounterMod /\ Since(counter, rx.lastCounter) = 0
        /\ view.age = Old \/ ahead + 1 <= view.age + MaxWait + Unsent(due)

\* Monitor's copy is at least as old as the view; one that has no frame yet was
\* taken before the view's frame came.
Copied ==
    monitor.pc /= "delay" /\ view.received =>
        IF monitor.view.received THEN view.age <= monitor.view.age
        ELSE view.age <= monitor.behind - 1

CopiedStays == monitor.pc /= "delay" /\ monitor.view.received => view.received

Raised ==
    "TIMEOUT" \notin faults /\ view.received =>
        /\ view.age <= Timeout + monitor.behind
        /\ monitor.pc = "drive" => view.age <= Timeout + monitor.behind - 1

Timing ==
    /\ Timely(queue, counter, Unsent(due))
    /\ Follows /\ Copied /\ CopiedStays /\ Raised

LEMMA ModOnce ==
    ASSUME NEW N \in Nat \ {0}, NEW x \in 0 .. 2 * N - 1
    PROVE  x % N = IF x < N THEN x ELSE x - N
OBVIOUS

LEMMA Bounds ==
    /\ Timeout \in Nat /\ MaxWait \in Nat /\ MaxBacklog \in Nat /\ MaxDelta \in Nat
    /\ Old \in Nat /\ AheadMax \in Nat /\ CounterMod \in Nat \ {0}
    /\ AheadMax > CounterMod /\ MaxDelta < CounterMod /\ 1 <= MaxDelta
    /\ Old = Timeout + MaxBacklog + MaxWait + 2
BY SpeedAssumption, CounterAssumption DEF Old, AheadMax

LEMMA SinceType ==
    ASSUME NEW n \in 0 .. CounterMod - 1, NEW c \in 0 .. CounterMod - 1
    PROVE  Since(n, c) \in 0 .. CounterMod - 1
BY CounterAssumption DEF Since

LEMMA SentAfterIs ==
    ASSUME NEW f \in Frame, counter \in 0 .. CounterMod - 1
    PROVE  SentAfter(f) = Since(counter, f.counter)
<1>1. f.counter \in 0 .. CounterMod - 1
  BY DEF Frame
<1> DEFINE x == counter + CounterMod - 1 - f.counter
<1>2. x \in 0 .. 2 * CounterMod - 1 /\ CounterMod \in Nat \ {0}
  BY <1>1, CounterAssumption
<1>3. x < CounterMod <=> counter <= f.counter
  BY <1>1, CounterAssumption
<1>4. SentAfter(f) = x % CounterMod
  BY DEF SentAfter
<1>5. Since(counter, f.counter) = IF x < CounterMod THEN x ELSE x - CounterMod
  BY <1>1, <1>3, CounterAssumption DEF Since
<1> HIDE DEF x
<1> QED
  BY <1>2, <1>4, <1>5, ModOnce

\* A frame is sent: the frames before it are one further back.
LEMMA SinceNext ==
    ASSUME NEW n \in 0 .. CounterMod - 1, NEW c \in 0 .. CounterMod - 1
    PROVE  /\ Since(NextCounter(n), c) = IF Since(n, c) = CounterMod - 1 THEN 0
                                         ELSE Since(n, c) + 1
           /\ Since(NextCounter(n), n) = 0
<1>1. NextCounter(n) = IF n = CounterMod - 1 THEN 0 ELSE n + 1
  <2> DEFINE x == n + 1
  <2>1. x \in 0 .. 2 * CounterMod - 1 /\ CounterMod \in Nat \ {0}
    BY CounterAssumption
  <2>2. NextCounter(n) = x % CounterMod
    BY DEF NextCounter
  <2> HIDE DEF x
  <2>3. NextCounter(n) = IF x < CounterMod THEN x ELSE x - CounterMod
    BY <2>1, <2>2, ModOnce
  <2> QED
    BY <2>3, CounterAssumption DEF x
<1> QED
  BY <1>1, CounterAssumption DEF Since

\* The distance E2e_Check sees is that of the frames sent since.
LEMMA DeltaIs ==
    ASSUME NEW f \in Frame, counter \in 0 .. CounterMod - 1,
           rx.lastCounter \in 0 .. CounterMod - 1
    PROVE  LET a == Since(counter, rx.lastCounter)
               b == Since(counter, f.counter)
           IN  Delta(rx, f) = IF a >= b THEN a - b ELSE a + CounterMod - b
<1> DEFINE c == f.counter
           l == rx.lastCounter
           x == c + CounterMod - l
<1>1. c \in 0 .. CounterMod - 1
  BY DEF Frame
<1>2. Delta(rx, f) = x % CounterMod
  BY DEF Delta
<1> HIDE DEF c, l
<1>3. l \in 0 .. CounterMod - 1
  BY DEF l
<1>4. x \in 0 .. 2 * CounterMod - 1 /\ CounterMod \in Nat \ {0}
  BY <1>1, <1>3, CounterAssumption
<1>5. Delta(rx, f) = IF c < l THEN c + CounterMod - l ELSE c - l
  <2>1. x < CounterMod <=> c < l
    BY <1>1, <1>3, CounterAssumption
  <2>2. x - CounterMod = c - l
    BY <1>1, <1>3, CounterAssumption
  <2>3. x = c + CounterMod - l
    OBVIOUS
  <2> HIDE DEF x
  <2>4. x % CounterMod = IF x < CounterMod THEN x ELSE x - CounterMod
    BY <1>4, ModOnce
  <2> QED
    BY <1>2, <2>1, <2>2, <2>3, <2>4
<1>6. LET a == Since(counter, l)
          b == Since(counter, c)
      IN  (IF c < l THEN c + CounterMod - l ELSE c - l) = IF a >= b THEN a - b ELSE a + CounterMod - b
  BY <1>1, <1>3, CounterAssumption DEF Since
<1> QED
  BY <1>5, <1>6 DEF c, l

LEMMA FrameFields ==
    ASSUME NEW q \in Seq(Frame), NEW k \in DOMAIN q
    PROVE  q[k].counter \in 0 .. CounterMod - 1 /\ q[k].age \in 0 .. MaxWait
<1>1. q[k] \in Frame
  <2> HIDE DEF Frame
  <2> QED
    OBVIOUS
<1> QED
  BY <1>1 DEF Frame

LEMMA QueuedTimely ==
    ASSUME NEW q \in Seq(Frame), NEW f \in Frame, NEW n, NEW u, Timely(q, n, u),
           Since(n, f.counter) + 1 <= f.age + u
    PROVE  Timely(Queued(q, f), n, u)
<1> HIDE DEF Frame
<1>1. CASE Len(q) < QueueLength
  <2> DEFINE t == Append(q, f)
  <2>1. /\ DOMAIN t = 1 .. Len(q) + 1 /\ t[Len(q) + 1] = f /\ DOMAIN q = 1 .. Len(q)
        /\ Len(q) \in Nat /\ \A k \in 1 .. Len(q) : t[k] = q[k]
    OBVIOUS
  <2>2. Queued(q, f) = t
    BY <1>1 DEF Queued
  <2> HIDE DEF t
  <2>3. ASSUME NEW k \in 1 .. Len(q) + 1
        PROVE  Since(n, t[k].counter) + 1 <= t[k].age + u
    <3>1. CASE k = Len(q) + 1
      BY <2>1, <3>1
    <3>2. CASE k \in 1 .. Len(q)
      BY <2>1, <3>2 DEF Timely
    <3> QED
      BY <2>1, <3>1, <3>2
  <2> QED
    BY <2>1, <2>2, <2>3 DEF Timely
<1> QED
  BY <1>1 DEF Queued

LEMMA InitTiming == Init => Timing
<1> SUFFICES ASSUME Init PROVE Timing
  OBVIOUS
<1>1. queue = <<>> /\ ~rx.synced /\ ~view.received /\ monitor.pc = "delay"
  BY DEF Init, InitialRx, InitialView
<1>2. Timely(queue, counter, Unsent(due))
  BY <1>1 DEF Timely
<1> QED
  BY <1>1, <1>2 DEF Timing, Follows, Copied, CopiedStays, Raised

LEMMA SensorTaskTiming ==
    ASSUME IInv, Timing, SensorTask, IInv' PROVE Timing'
<1> USE Bounds
<1>1. /\ due = TRUE /\ due' = FALSE
      /\ UNCHANGED <<rx, view, monitor, faults>>
  BY DEF SensorTask, controlVars, IInv, TypeOK
<1>2. Unsent(due) = 0 /\ Unsent(due') = 1
  BY <1>1 DEF Unsent
<1>3. /\ counter \in 0 .. CounterMod - 1 /\ queue \in Seq(Frame) /\ ahead \in 0 .. AheadMax
      /\ adc' \in [speed : Speeds, error : BOOLEAN]
      /\ rx \in [synced : BOOLEAN, lastCounter : 0 .. CounterMod - 1] /\ view \in View
  BY DEF IInv, TypeOK
<1>4. /\ Timely(queue, counter, 0) /\ Copied' /\ CopiedStays' /\ Raised'
  BY <1>1, <1>2 DEF Timing, Copied, CopiedStays, Raised
<1>5. CASE mode' = "SILENT"
  <2>1. UNCHANGED <<counter, ahead, queue>>
    BY <1>5 DEF SensorTask, SendSpeedFrame
  <2>2. ASSUME NEW k \in DOMAIN queue
        PROVE  Since(counter, queue[k].counter) + 1 <= queue[k].age + 1
    <3>1. queue[k].counter \in 0 .. CounterMod - 1 /\ queue[k].age \in Nat
      BY <1>3, FrameFields
    <3>2. Since(counter, queue[k].counter) + 1 <= queue[k].age + 0
      BY <1>4 DEF Timely
    <3>3. Since(counter, queue[k].counter) \in 0 .. CounterMod - 1
      BY <1>3, <3>1, SinceType
    <3> QED
      BY <3>1, <3>2, <3>3
  <2>3. Timely(queue, counter, 1)
    BY <2>2 DEF Timely
  <2>4. Follows'
    <3>1. view.age \in Nat
      BY <1>3 DEF View
    <3> QED
      BY <1>1, <1>2, <1>3, <2>1, <3>1 DEF Timing, Follows, Old
  <2> QED
    BY <1>2, <1>4, <2>1, <2>3, <2>4 DEF Timing
<1>6. CASE mode' /= "SILENT"
  <2> DEFINE f == [counter |-> counter, age |-> 0, damage |-> "none", adcError |-> adc'.error,
                   speed |-> IF mode' = "OUT_OF_RANGE" THEN FaultSpeed ELSE adc'.speed]
  <2>1. counter' = NextCounter(counter) /\ ahead' = Older(ahead, AheadMax) /\ Delivered(f)
    BY <1>6 DEF SensorTask, SendSpeedFrame
  <2>2. f \in Frame /\ f.counter = counter /\ f.age = 0
    <3>1. adc'.error \in BOOLEAN
      BY <1>3, Zenon
    <3>2. f.speed \in 0 .. MaxSpeed \union {FaultSpeed}
      BY <1>3, SpeedAssumption
    <3>3. 0 \in 0 .. MaxWait
      OBVIOUS
    <3> QED
      BY <1>3, <3>1, <3>2, <3>3, Zenon DEF Frame, Damages
  <2> HIDE DEF f
  <2>3. Timely(queue, counter', 1)
    <3>1. ASSUME NEW k \in DOMAIN queue
          PROVE  Since(counter', queue[k].counter) + 1 <= queue[k].age + 1
      <4>1. queue[k].counter \in 0 .. CounterMod - 1 /\ queue[k].age \in Nat
        BY <1>3, FrameFields
      <4>2. Since(counter, queue[k].counter) + 1 <= queue[k].age + 0
        BY <1>4 DEF Timely
      <4>3. /\ Since(counter, queue[k].counter) \in 0 .. CounterMod - 1
            /\ Since(counter', queue[k].counter)
                  \in {0, Since(counter, queue[k].counter) + 1}
        BY <1>3, <2>1, <4>1, SinceNext, SinceType
      <4> QED
        BY <4>1, <4>2, <4>3
    <3> QED
      BY <3>1 DEF Timely
  <2>4. Since(counter', counter) + 1 <= 0 + 1
    BY <1>3, <2>1, SinceNext
  <2>5. ASSUME NEW g \in Frame, g.counter = counter, g.age = 0
        PROVE  /\ Timely(Queued(queue, g), counter', 1)
               /\ Timely(Queued(Queued(queue, g), g), counter', 1)
    <3>1. Queued(queue, g) \in Seq(Frame)
      BY <1>3, <2>5, QueuedType
    <3> QED
      BY <1>3, <2>3, <2>4, <2>5, <3>1, QueuedTimely
  <2>6. Timely(queue', counter', 1)
    <3>1. CASE queue' = Queued(queue, f) \/ queue' \in {queue, Queued(Queued(queue, f), f)}
      BY <2>2, <2>3, <2>5, <3>1
    <3>2. ASSUME NEW d \in Damages, queue' = Queued(queue, [f EXCEPT !.damage = d])
          PROVE  Timely(queue', counter', 1)
      <4> DEFINE g == [f EXCEPT !.damage = d]
      <4>1. g \in Frame
        BY <2>2, Zenon DEF Frame
      <4>2. g.counter = counter /\ g.age = 0
        BY <2>2 DEF Frame
      <4> HIDE DEF g
      <4> QED
        BY <2>5, <3>2, <4>1, <4>2 DEF g
    <3> QED
      BY <2>1, <3>1, <3>2 DEF Delivered
  <2>7. Follows'
    <3> SUFFICES ASSUME rx.synced
                 PROVE  /\ view.received
                        /\ \/ ahead' > CounterMod
                           \/ ahead' = Since(counter', rx.lastCounter)
                           \/ ahead' = CounterMod /\ Since(counter', rx.lastCounter) = 0
                        /\ view.age = Old \/ ahead' + 1 <= view.age + MaxWait + 1
      BY <1>1, <1>2 DEF Follows, Old
    <3>1. /\ view.received
          /\ \/ ahead > CounterMod
             \/ ahead = Since(counter, rx.lastCounter)
             \/ ahead = CounterMod /\ Since(counter, rx.lastCounter) = 0
          /\ view.age = Old \/ ahead + 1 <= view.age + MaxWait + 0
      BY <1>2 DEF Timing, Follows
    <3>2. rx.lastCounter \in 0 .. CounterMod - 1 /\ view.age \in Nat
      BY <1>3 DEF View
    <3>3. ahead' = IF ahead < AheadMax THEN ahead + 1 ELSE ahead
      BY <1>3, <2>1 DEF Older
    <3>4. AheadMax \in Nat /\ AheadMax > CounterMod
      OBVIOUS
    <3>5. /\ Since(counter, rx.lastCounter) \in 0 .. CounterMod - 1
          /\ Since(counter', rx.lastCounter) = IF Since(counter, rx.lastCounter) = CounterMod - 1
                                               THEN 0 ELSE Since(counter, rx.lastCounter) + 1
      BY <1>3, <2>1, <3>2, SinceType, SinceNext
    <3> QED
      BY <1>3, <3>1, <3>2, <3>3, <3>4, <3>5, SMTT(30)
  <2> QED
    BY <1>2, <1>4, <2>6, <2>7 DEF Timing
<1> QED
  BY <1>5, <1>6

LEMMA HandleSpeedFrameTiming ==
    ASSUME IInv, Timing, HandleSpeedFrame, IInv' PROVE Timing'
<1> USE Bounds
<1> DEFINE f == Head(queue)
           s == Status(rx, f)
<1>1. /\ queue /= <<>> /\ queue' = Tail(queue)
      /\ rx' = AfterCheck(rx, f) /\ view' = ViewAfter(view, f, s)
      /\ ahead' = IF f.damage = "none" /\ s /= "ERR_REPEATED" THEN SentAfter(f) ELSE ahead
      /\ UNCHANGED <<counter, due, monitor, faults>>
  BY DEF HandleSpeedFrame, sensorVars
<1>2. /\ counter \in 0 .. CounterMod - 1 /\ queue \in Seq(Frame) /\ ahead \in 0 .. AheadMax
      /\ rx \in [synced : BOOLEAN, lastCounter : 0 .. CounterMod - 1] /\ view \in View
      /\ monitor.behind \in Nat /\ (monitor.pc /= "delay" => monitor.behind > 0)
      /\ monitor.view \in View
  BY DEF IInv, TypeOK, Working
<1>3. /\ f = queue[1] /\ f \in Frame
      /\ DOMAIN queue = 1 .. Len(queue) /\ Len(queue) \in Nat \ {0}
      /\ DOMAIN Tail(queue) = 1 .. Len(queue) - 1
      /\ \A k \in 1 .. Len(queue) - 1 : Tail(queue)[k] = queue[k + 1]
  BY <1>1, <1>2
<1> HIDE DEF f
<1>4. Timely(queue, counter, Unsent(due)) /\ Unsent(due) \in {0, 1}
  BY DEF Timing, Unsent
<1>5. Timely(queue', counter', Unsent(due'))
  <2>1. ASSUME NEW k \in DOMAIN Tail(queue)
        PROVE  /\ Tail(queue)[k] = queue[k + 1] /\ k + 1 \in DOMAIN queue
    BY <1>3
  <2> QED
    BY <1>1, <1>4, <2>1 DEF Timely
<1>6. /\ f.counter \in 0 .. CounterMod - 1 /\ f.age \in 0 .. MaxWait
      /\ SentAfter(f) = Since(counter, f.counter) /\ SentAfter(f) \in 0 .. CounterMod - 1
      /\ SentAfter(f) + 1 <= MaxWait + Unsent(due)
  <2>1. f.counter \in 0 .. CounterMod - 1 /\ f.age \in 0 .. MaxWait
    BY <1>3 DEF Frame
  <2>2. SentAfter(f) = Since(counter, f.counter)
    BY <1>2, <1>3, SentAfterIs
  <2>3. Since(counter, f.counter) + 1 <= f.age + Unsent(due)
    BY <1>3, <1>4 DEF Timely
  <2>4. Since(counter, f.counter) \in 0 .. CounterMod - 1
    BY <1>2, <2>1, SinceType
  <2> QED
    BY <1>4, <2>1, <2>2, <2>3, <2>4
<1>7. CASE IsValid(s)
  <2>1. /\ view'.received = TRUE /\ view'.age = 0
        /\ f.damage = "none" /\ s /= "ERR_REPEATED"
    BY <1>1, <1>2, <1>7 DEF IsValid, Status, ViewAfter, View
  <2>2. rx'.lastCounter = f.counter /\ ahead' = SentAfter(f)
    BY <1>1, <2>1 DEF AfterCheck
  <2>3. Follows'
    BY <1>1, <1>4, <1>6, <2>1, <2>2 DEF Follows, Old
  <2>4. Copied' /\ CopiedStays' /\ Raised'
    <3>1. /\ monitor.view.age \in Nat
      BY <1>2 DEF View
    <3>2. monitor'.pc = monitor.pc /\ monitor'.view = monitor.view
          /\ monitor'.behind = monitor.behind
      BY <1>1
    <3> QED
      BY <1>2, <2>1, <3>1, <3>2, SMTT(30) DEF Copied, CopiedStays, Raised
  <2> QED
    BY <1>5, <2>3, <2>4 DEF Timing
<1>8. CASE ~IsValid(s)
  <2>1. view'.received = view.received /\ view'.age = view.age
    BY <1>1, <1>2, <1>8 DEF ViewAfter, View
  <2>2. Copied' /\ CopiedStays' /\ Raised'
    BY <1>1, <2>1 DEF Timing, Copied, CopiedStays, Raised
  <2>3. view.age \in Nat /\ rx.lastCounter \in 0 .. CounterMod - 1
    BY <1>2 DEF View
  <2>4. CASE f.damage /= "none"
    <3>1. rx' = rx /\ ahead' = ahead
      BY <1>1, <2>4 DEF AfterCheck
    <3> QED
      BY <1>1, <1>5, <2>1, <2>2, <3>1 DEF Timing, Follows, Old
  <2>5. CASE f.damage = "none"
    <3>1. rx.synced /\ rx'.lastCounter = f.counter
      BY <1>1, <1>8, <2>5 DEF Status, IsValid, AfterCheck
    <3>2. view.received /\ (view.age = Old \/ ahead + 1 <= view.age + MaxWait + Unsent(due))
      BY <3>1 DEF Timing, Follows
    <3>3. CASE s = "ERR_REPEATED"
      <4>1. Delta(rx, f) = 0
        BY <2>5, <3>1, <3>3 DEF Status
      <4>2. Since(counter, f.counter) = Since(counter, rx.lastCounter)
        <5>1. /\ Since(counter, f.counter) \in 0 .. CounterMod - 1
              /\ Since(counter, rx.lastCounter) \in 0 .. CounterMod - 1
          BY <1>2, <1>6, <2>3, SinceType
        <5>2. LET a == Since(counter, rx.lastCounter)
                  b == Since(counter, f.counter)
              IN  Delta(rx, f) = IF a >= b THEN a - b ELSE a + CounterMod - b
          BY <1>2, <1>3, <2>3, DeltaIs
        <5> QED
          BY <4>1, <5>1, <5>2
      <4>3. ahead' = ahead
        BY <1>1, <3>3
      <4>4. Follows'
        BY <1>1, <2>1, <3>1, <3>2, <4>2, <4>3 DEF Timing, Follows, Old
      <4> QED
        BY <1>5, <2>2, <4>4 DEF Timing
    <3>4. CASE s /= "ERR_REPEATED"
      <4>1. ahead' = SentAfter(f)
        BY <1>1, <2>5, <3>4
      <4>2. Follows'
        BY <1>1, <1>4, <1>6, <2>1, <2>3, <3>1, <3>2, <4>1, SMTT(30) DEF Follows, Old
      <4> QED
        BY <1>5, <2>2, <4>2 DEF Timing
    <3> QED
      BY <3>3, <3>4
  <2> QED
    BY <2>4, <2>5
<1> QED
  BY <1>7, <1>8

LEMMA SoftResetTiming == ASSUME IInv, Timing, SoftReset PROVE Timing'
<1>1. rx'.synced = FALSE /\ UNCHANGED <<counter, queue, view, monitor, faults, due>>
  BY DEF SoftReset, sensorVars, InitialRx
<1> QED
  BY <1>1 DEF Timing, Follows, Copied, CopiedStays, Raised

LEMMA MonitorCopyTiming == ASSUME IInv, Timing, MonitorCopy PROVE Timing'
<1>1. /\ monitor.pc = "delay"
      /\ monitor' = [monitor EXCEPT !.pc = "judge", !.view = view]
      /\ UNCHANGED <<counter, queue, rx, view, faults, due, ahead>>
  BY DEF MonitorCopy, sensorVars
<1>2. /\ monitor'.pc = "judge" /\ monitor'.view = view /\ monitor'.behind = monitor.behind
      /\ view.age \in Nat
  BY <1>1 DEF IInv, TypeOK, View
<1> QED
  BY <1>1, <1>2 DEF Timing, Follows, Copied, CopiedStays, Raised, Old

LEMMA MonitorJudgeTiming == ASSUME IInv, Timing, MonitorJudge PROVE Timing'
<1>1. /\ monitor.pc = "judge"
      /\ monitor' = [monitor EXCEPT !.pc = "drive"]
      /\ faults' = FaultsOf(monitor.view, inject')
      /\ UNCHANGED <<counter, queue, rx, view, due, ahead>>
  BY DEF MonitorJudge, sensorVars
<1>2. /\ monitor'.pc = "drive" /\ monitor'.view = monitor.view /\ monitor'.behind = monitor.behind
      /\ view.age \in Nat /\ monitor.view.age \in Nat
      /\ monitor.behind \in Nat /\ monitor.behind > 0
  BY <1>1 DEF IInv, TypeOK, View, Working
<1>3. Raised'
  <2> SUFFICES ASSUME "TIMEOUT" \notin faults', view.received
               PROVE  view.age <= Timeout + monitor.behind - 1
    BY <1>1, <1>2, SpeedAssumption DEF Raised
  <2>1. ~TimedOut(monitor.view)
    BY <1>1 DEF FaultsOf
  <2>2. CASE monitor.view.received
    BY <1>1, <1>2, <2>1, <2>2, SpeedAssumption DEF TimedOut, Timing, Copied
  <2>3. CASE ~monitor.view.received
    BY <1>1, <1>2, <2>3, SpeedAssumption DEF Timing, Copied
  <2> QED
    BY <2>2, <2>3
<1> QED
  BY <1>1, <1>2, <1>3 DEF Timing, Follows, Copied, CopiedStays, Old

LEMMA MonitorDriveTiming == ASSUME IInv, Timing, MonitorDrive PROVE Timing'
<1>1. /\ monitor.pc = "drive"
      /\ monitor' = [pc |-> "delay", view |-> InitialView, behind |-> monitor.behind - 1]
      /\ UNCHANGED <<counter, queue, rx, view, faults, due, ahead>>
  BY DEF MonitorDrive, sensorVars
<1>2. monitor'.pc = "delay" /\ monitor'.behind = monitor.behind - 1 /\ monitor.behind \in Nat
      /\ view.age \in Nat
  BY <1>1 DEF IInv, TypeOK, View
<1> QED
  BY <1>1, <1>2, SpeedAssumption DEF Timing, Follows, Copied, CopiedStays, Raised, Old

LEMMA TickTiming == ASSUME IInv, Timing, Tick PROVE Timing'
<1> USE Bounds
<1>1. /\ view' = Aged(view) /\ due' = TRUE
      /\ monitor' = [monitor EXCEPT !.behind = @ + 1,
                                    !.view = IF monitor.pc = "delay" THEN @ ELSE Aged(@)]
      /\ queue' = [k \in DOMAIN queue |-> [queue[k] EXCEPT !.age = @ + 1]]
      /\ UNCHANGED <<counter, rx, faults, ahead>>
  BY DEF Tick, sensorVars
<1>2. /\ counter \in 0 .. CounterMod - 1 /\ queue \in Seq(Frame) /\ ahead \in 0 .. AheadMax
      /\ view \in View /\ monitor.view \in View
      /\ rx \in [synced : BOOLEAN, lastCounter : 0 .. CounterMod - 1]
      /\ monitor.behind \in Nat /\ (monitor.pc /= "delay" => monitor.behind > 0)
      /\ Old \in Nat /\ view.age \in 0 .. Old /\ monitor.view.age \in 0 .. Old
  BY SMTT(30) DEF IInv, TypeOK, Working, View
<1>3. Unsent(due') = 0 /\ Unsent(due) \in {0, 1}
  BY <1>1 DEF Unsent
<1>4. Timely(queue', counter', 0)
  <2>1. ASSUME NEW k \in DOMAIN queue
        PROVE  /\ queue'[k].counter = queue[k].counter /\ queue'[k].age = queue[k].age + 1
               /\ queue[k].counter \in 0 .. CounterMod - 1 /\ queue[k].age \in Nat
    <3>1. queue[k] \in Frame
      BY <1>2
    <3> QED
      BY <1>1, <3>1 DEF Frame
  <2>2. ASSUME NEW k \in DOMAIN queue
        PROVE  Since(counter, queue'[k].counter) + 1 <= queue'[k].age
    <3>1. Since(counter, queue[k].counter) + 1 <= queue[k].age + Unsent(due)
      BY DEF Timing, Timely
    <3>2. Since(counter, queue[k].counter) \in 0 .. CounterMod - 1
      BY <1>2, <2>1, SinceType
    <3> QED
      BY <1>3, <2>1, <3>1, <3>2
  <2>3. DOMAIN queue' = DOMAIN queue
    BY <1>1
  <2>4. ASSUME NEW k \in DOMAIN queue
        PROVE  Since(counter', queue'[k].counter) + 1 <= queue'[k].age + 0
    BY <1>1, <2>1, <2>2
  <2> QED
    BY <2>3, <2>4 DEF Timely
<1>5. /\ view'.received = view.received /\ view'.age = Older(view.age, Old)
      /\ Aged(monitor.view).age = Older(monitor.view.age, Old)
      /\ Aged(monitor.view).received = monitor.view.received
  BY <1>1, <1>2 DEF Aged, View
<1>6. /\ monitor'.pc = monitor.pc /\ monitor'.behind = monitor.behind + 1
      /\ monitor.pc /= "delay" => monitor'.view = Aged(monitor.view)
  BY <1>1 DEF IInv, TypeOK
<1>7. Follows'
  <2> SUFFICES ASSUME rx.synced
               PROVE  /\ view.received
                      /\ \/ ahead > CounterMod
                         \/ ahead = Since(counter, rx.lastCounter)
                         \/ ahead = CounterMod /\ Since(counter, rx.lastCounter) = 0
                      /\ view'.age = Old \/ ahead + 1 <= view'.age + MaxWait + 0
    BY <1>1, <1>3, <1>5 DEF Follows, Old
  <2>1. /\ view.received
        /\ \/ ahead > CounterMod
           \/ ahead = Since(counter, rx.lastCounter)
           \/ ahead = CounterMod /\ Since(counter, rx.lastCounter) = 0
        /\ view.age = Old \/ ahead + 1 <= view.age + MaxWait + Unsent(due)
    BY DEF Timing, Follows
  <2> QED
    BY <1>2, <1>3, <1>5, <2>1, SMTT(30) DEF Older
<1>8. Copied' /\ CopiedStays'
  BY <1>2, <1>5, <1>6, SMTT(30) DEF Timing, Copied, CopiedStays, Older
<1>9. Raised'
  <2>1. view'.age <= view.age + 1 /\ view'.age \in Nat
    BY <1>2, <1>5 DEF Older
  <2> QED
    <3> SUFFICES ASSUME "TIMEOUT" \notin faults, view.received
                 PROVE  /\ view'.age <= Timeout + (monitor.behind + 1)
                        /\ monitor.pc = "drive" => view'.age <= Timeout + (monitor.behind + 1) - 1
      <4>1. /\ faults' = faults /\ view'.received = view.received
            /\ monitor'.pc = monitor.pc /\ monitor'.behind = monitor.behind + 1
        BY <1>1, <1>5, <1>6
      <4> QED
        BY <4>1 DEF Raised
    <3>1. /\ view.age <= Timeout + monitor.behind
          /\ monitor.pc = "drive" => view.age <= Timeout + monitor.behind - 1
      BY DEF Timing, Raised
    <3>2. view.age \in Nat /\ monitor.behind \in Nat
      BY <1>2
    <3> QED
      BY <2>1, <3>1, <3>2
<1> QED
  BY <1>3, <1>4, <1>7, <1>8, <1>9 DEF Timing

LEMMA StepTiming == IInv /\ Timing /\ [Next]_vars => Timing'
<1> SUFFICES ASSUME IInv, Timing, [Next]_vars PROVE Timing'
  OBVIOUS
<1>1. IInv'
  BY StepIInv
<1>2. CASE UNCHANGED vars
  BY <1>2 DEF vars, sensorVars, controlVars, Timing, Follows, Copied, CopiedStays, Raised, Old
<1> QED
  BY <1>1, <1>2, SensorTaskTiming, HandleSpeedFrameTiming, SoftResetTiming, MonitorCopyTiming,
     MonitorJudgeTiming, MonitorDriveTiming, TickTiming DEF Next

\* A valid frame after too large a gap: more than a turn of the counter later, as
\* E2e_Check sees the gap otherwise.
LEMMA GapTakesATurn ==
    ASSUME IInv, Timing, rx.synced, NEW f \in Frame, IsValid(Status(rx, f)),
           ahead - SentAfter(f) > MaxDelta
    PROVE  ahead > CounterMod
<1> DEFINE a == Since(counter, rx.lastCounter)
           b == Since(counter, f.counter)
<1>1. /\ counter \in 0 .. CounterMod - 1 /\ rx.lastCounter \in 0 .. CounterMod - 1
      /\ f.counter \in 0 .. CounterMod - 1 /\ ahead \in Nat
  BY CounterAssumption DEF IInv, TypeOK, Frame, AheadMax
<1>2. a \in 0 .. CounterMod - 1 /\ b \in 0 .. CounterMod - 1 /\ SentAfter(f) = b
  BY <1>1, SinceType, SentAfterIs
<1>3. Delta(rx, f) = IF a >= b THEN a - b ELSE a + CounterMod - b
  BY <1>1, DeltaIs
<1>4. Delta(rx, f) \in 1 .. MaxDelta
  <2>1. Delta(rx, f) = 1 \/ Delta(rx, f) \in 2 .. MaxDelta
    BY DEF Status, IsValid
  <2> QED
    BY <2>1, CounterAssumption
<1>5. ahead > CounterMod \/ ahead = a \/ (ahead = CounterMod /\ a = 0)
  BY DEF Timing, Follows
<1> HIDE DEF a, b
<1> QED
  BY <1>1, <1>2, <1>3, <1>4, <1>5, CounterAssumption

\* A gap of more frames than E2E tolerates never passes for a good one without the
\* timeout, if the timeout and the delays are shorter than a turn of the alive
\* counter: 100 ms and the delays, and 16 frames of 10 ms (can_matrix.h:23, :60).
THEOREM GapNoticedCorrect ==
    ASSUME Timeout + MaxWait + MaxBacklog < CounterMod
    PROVE  Spec => GapNoticed
<1>1. IInv /\ Timing /\ [Next]_vars
        => [HandleSpeedFrame /\ rx.synced /\ ahead - SentAfter(Head(queue)) > MaxDelta
            /\ IsValid(Status(rx, Head(queue))) => "TIMEOUT" \in faults]_vars
  <2> SUFFICES ASSUME IInv, Timing, queue /= <<>>, rx.synced,
                      ahead - SentAfter(Head(queue)) > MaxDelta,
                      IsValid(Status(rx, Head(queue))), "TIMEOUT" \notin faults
               PROVE  FALSE
    BY DEF HandleSpeedFrame
  <2>1. Head(queue) \in Frame
    <3>1. queue \in Seq(Frame)
      BY DEF IInv, TypeOK
    <3> HIDE DEF Frame
    <3> QED
      BY <3>1
  <2>2. ahead > CounterMod
    BY <2>1, GapTakesATurn
  <2>3. /\ view.received
        /\ view.age = Old \/ ahead + 1 <= view.age + MaxWait + Unsent(due)
    BY DEF Timing, Follows
  <2>4. view.age <= Timeout + monitor.behind
    BY <2>3 DEF Timing, Raised
  <2>5. Unsent(due) \in {0, 1}
    BY DEF Unsent
  <2>6. monitor.behind \in 0 .. MaxBacklog + 1 /\ view.age \in Nat /\ ahead \in Nat
    BY CounterAssumption, SpeedAssumption DEF IInv, TypeOK, View, Old, AheadMax
  <2> QED
    BY <2>2, <2>3, <2>4, <2>5, <2>6, Bounds, SMTT(30)
<1>2. Spec => []Timing
  BY InitTiming, StepTiming, Invariance, PTL DEF Spec
<1> QED
  BY <1>1, <1>2, Invariance, PTL DEF Spec, GapNoticed
=============================================================================
