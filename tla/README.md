# TLA+ models of the mini automotive ECU project

Two ECUs on a CAN bus: the **Sensor ECU** (STM32G431, bare metal) samples a
potentiometer and sends it as a vehicle speed, protected end to end; the
**Control ECU** (Cortex-M4 of an STM32MP157, FreeRTOS) checks the speed, drives
a PWM output from it, keeps trouble codes (DTCs) and answers UDS diagnostics
over ISO-TP. A tester (a C++ program, or the Sensor ECU itself) sends the
diagnostic requests.

This directory holds TLA+ models of that code, TLC configurations that check
them, and proofs checked by TLAPS. `PROJECT.json` maps every definition to the
lines it models. Paths below are relative to `src/`.

## 1. Inventory

| component | state | operations | interacts with |
|---|---|---|---|
| DTC manager `common/dtc` | `s_entries[]` (status byte, `failCount`) under a mutex | report, start cycle, clear, count, list | called by Monitor (reports, confirmed DTCs) and by ComRx (UDS, soft reset) |
| ISO-TP `common/isotp` | `IsoTp_Link_t`: sender state machine, receiver state machine, pending Flow Control | `IsoTp_Transmit`, `IsoTp_RxFrame`, `IsoTp_MainFunction` | CAN driver (`sendFrame`, may refuse), application callbacks |
| UDS server `common/uds` | session, time of last request, pending reset | `Uds_ProcessRequest`, `Uds_MainFunction`, `Uds_ExecutePendingReset` | DTC manager, DIDs, `ecuReset` callback |
| DiagApp `control_ecu/CM4/Core/App/diag_app.c` | one link, response buffer, DTC mutex | `DiagApp_OnFrame`, `DiagApp_MainFunction`, callbacks | glues the three above to the ComRx task |
| ControlApp `control_app.c` | RX queue, view of the sensor, E2E receivers, faults, `s_localInject` | interrupt `OnCanRx`; tasks ComRx, Monitor; `ControlApp_SoftReset` | CAN driver, DiagApp, PWM |
| E2E `common/e2e` | alive counter; receiver (`synced`, `lastCounter`) | protect, check | Sensor and Control ECU |
| SensorApp `sensor_ecu/Core/App/sensor_app.c` | filter, fault mode, button, counters | `SensorApp_Task10ms`, ... | ADC, button, CAN driver |
| TesterApp `tester_app.c` | frame ring, link, step sequencer | interrupt, main-loop task | ISO-TP, CAN driver |
| CAN drivers | bus-off flag and timer, statistics | write, main function, interrupts | all senders |
| C++ tester `tester/src/uds_client.cpp`, `scenario.cpp` | locals of `request()` | calls with P2/P2* timeouts, scenarios | an `ITransport`: a remote ECU or the simulation |
| simulated ECU `tester/src/simulated_ecu.cpp` | server, DTC table, faults, queue of responses | `send`, `receive`, `reportMonitor`, `advanceTime` | the C server and DTC manager, the C++ tester |
| SysDrv | none | restart of the M4 core | DiagApp |
| peripheral drivers, start-up, vendored code | | | |

What is hard here, and hardly reached by the unit tests (which run each C
module alone, single threaded, with a fake clock):

* two tasks and interrupts share the DTC table, the view, the TX FIFO, the RX
  queue (interleaving, stale copies);
* one link and one response buffer serve physical and functional requests, and
  a reset is executed from the confirmation of a response (ordering);
* frames are lost, refused by a full FIFO, or late (ISO-TP timeouts and
  sequence numbers, E2E counters that come round);
* counters at their limits (`failCount` at 255, 4-bit counters, block and wait
  counters);
* things that must eventually happen: a transmission ends, the session falls
  back, the output recovers.

The list of these hazards, each at its line with the properties aimed at it, is
in `PROJECT.json`.

What makes each component correct, in one sentence each:

* DTC manager: the status bits tell the history of the reports; every operation
  is atomic for every observer.
* ISO-TP: a delivered message is a message that was sent; buffers are never
  overrun; callbacks come exactly once; both sides end.
* UDS server and DiagApp: responses go out whole; a reset runs once, after
  its own response; sessions end after S3.
* E2E and the speed path: no gap passes unnoticed; the output is never
  driven from stale or implausible data, however late the tasks run; it goes to
  zero when the sensor stays silent or wrong, and recovers.
* C++ tester: a call takes its own response, understands it and returns in
  time; the scenarios pass on an ECU that is in order.

## 2. Modules

| module | models | extends |
|---|---|---|
| `DtcManager` | the DTC manager, one step per operation, with ghosts `cycle` and `log` that record the history | |
| `DtcLocking` | the same manager called by two tasks, one step per statement, with its mutex; refines `DtcManager` | `DtcManager` |
| `DtcProofs` | theorems about `DtcManager`, `DtcLocking` and the two together | `DtcLocking`, `TLAPS` |
| `IsoTp` | the ISO-TP state machines as operators on a link record | |
| `IsoTpLink` | one link, any frames, any driver | `IsoTp` |
| `IsoTpLinkProofs` | theorems about `IsoTpLink` | `IsoTpLink`, `FiniteSetTheorems`, `TLAPS` |
| `IsoTpPair` | two links, a tester and an ECU, over a bus that delays or loses frames | `IsoTp` |
| `IsoTpPairProofs` | the theorems about the integrity of messages and the blocks of `IsoTpPair` | `IsoTpPair`, `FiniteSetTheorems`, `TLAPS` |
| `UdsServer` | the UDS server as operators | |
| `ControlDiag` | ComRx + DiagApp + UDS server + link + TX FIFO + RX queue + status frame of Monitor | `IsoTp`, `UdsServer` |
| `ControlDiagProofs` | theorems about `ControlDiag` | `ControlDiag`, `TLAPS` |
| `E2e` | alive counter and receiver of the end-to-end protection, as operators | |
| `Crc8` | the CRC and the layout of the protected frame, bit by bit, as operators | |
| `SensorInput` | the input filter and the conversion of the ADC value, as operators | |
| `SpeedPath` | Sensor task, bus, RX queue, ComRx, Monitor, buttons, PWM, with tasks that are held up | `E2e` |
| `SpeedPathProofs` | theorems about `SpeedPath` | `SpeedPath`, `SequenceTheorems`, `TLAPS` |
| `CanDrv` | bus-off recovery of both CAN drivers, one step per load or store | |
| `CanDrvProofs` | theorems about `CanDrv` | `CanDrv`, `TLAPS` |
| `TesterApp` | the bare-metal tester: frame ring, link, keys, step sequencer; refines `FrameFifo` | `IsoTp` |
| `FrameFifo` | abstract: the bounded FIFO the ring of the tester stands for | |
| `TesterAppProofs` | the proofs that the ring implements `FrameFifo` and that verdicts are right | `TesterApp`, `SequenceTheorems`, `TLAPS` |
| `SimulatedEcu` | the host-side ECU of the C++ tester, as operators on its state | `UdsServer`, `DtcManager` (instance) |
| `UdsClient` | the C++ client and its scenarios over the simulated ECU or a remote one | `SimulatedEcu` |
| `UdsClientProofs` | the proofs of whose response a call takes and how long it waits | `UdsClient`, `TLAPS` |
| `MC*` | the instances TLC checks | |

Each module that models code as *operators* (`IsoTp`, `UdsServer`, `E2e`, `Crc8`, `SensorInput`, `SimulatedEcu`) has
no variables: the C code is a set of functions on a struct, and the modules with
variables embed the struct in one variable. An entry point of `isotp.c` returns
an *outcome*: the new link, the frames the driver accepted, and the callbacks
made, in order. `Then` composes two outcomes.

Some definitions exist next to the real ones as *faulty variants*, marked so in
their comment. Nothing uses them; each is a plausible bug, and the project keeps
them to know that every property can be broken: putting the variant in the place
of the definition makes TLC report the property listed with it in
`PROJECT.json` under `mutants`.

### How state and actions correspond to the code

**DtcManager.** A status byte is the set of its bits. `ReportResult`,
`StartOperationCycle`, `ClearAll` are the three operations that change the
table; the query `GetByStatusMask` is an operator, `Matches` the test it shares
with `DtcMgr_CountByStatusMask`, which only counts.
`failCount` saturates at `FailMax` (0xFF in the code).

**DtcLocking.** A task is idle, waiting in `Lock()`, or inside its critical
section at step `i`: a statement of `DtcMgr_ReportResult`, or an iteration of a
loop over the table. Monitor reports results and lists the confirmed DTCs;
ComRx clears, lists and starts cycles (`Calls`). A query stops when its caller's
room is full (`Rooms`, in records); `DtcMgr_CountByStatusMask` is a query with room for
all, and a query without a buffer returns before it takes the mutex. The table and the ghosts are
those of `DtcManager`, whose steps (`Init`, `Next`) do not occur here; the ghosts
record an operation when it gets the mutex. The refinement mapping completes the operation of the mutex's holder, so the operation takes
effect, seen from `DtcManager`, when the lock is acquired.

**IsoTp.** Bytes are arbitrary values, so that a test of equality finds a
mixed message. Timestamps are kept as ages: all that `Elapsed()` reads, which is
also why the wrap of the millisecond clock needs no model. Loops of
`TxSendConsecutiveFrames` are one step: `CfsNow` computes how many frames STmin,
block size, message and driver allow. `room` is the number of frames the
driver accepts during the call.

**IsoTpPair.** `chan[s]` is everything between the peer's driver and side `s`:
TX FIFO, wire, RX queue. The ECU transmits its response inside the reception of
a request, as `OnEcuRequest` does, and ignores a refusal. `setup`, chosen in the
initial state, says which circumstances hold: frames are lost, or frames are
delayed beyond every timeout (`~prompt`).

**UdsServer, ControlDiag.** A request is a record with the fields its service
reads; a response is its length and its NRC. One iteration of the ComRx loop is
one action (`ComRxFrame`, `ComRxTimeout`), since link and server belong to
that task alone and the `txMutex` only orders its writes with the status frame's.
A hard reset is `SysDrv_Restart`: RAM and FDCAN start afresh. Requests are single
frames here; segmented requests are in `IsoTpPair`. Requests in `Truncated` may come in a frame
cut short, which the link and, for a functional one, `DiagApp_OnFrame` (`IsWhole`) must
ignore. The ghost `silence` is the time since the ECU took the last request. What a clear or a report does
to the DTC table is in the DTC modules; `ReadDtc` takes the number of matching
entries as an input.

**E2e, Crc8, SensorInput.** `E2e` takes a damaged frame as one the CRC rejects.
`Crc8` is what justifies this: it computes the CRC of a frame byte by byte and
bit by bit as the code does, and `CrcDetects` says that one or two wrong bits
anywhere, and any error within eight bits in a row, are noticed, those in the CRC's
own byte included. `SensorInput` is `SampleInput` with the
filter's ring, index and running sum; `SpeedFromSamples` compares its result with
the mean of the last samples. Both are pure computations: `MCSpeedPath` states
them as `FrameGuarded` and `SpeedMeasured`, which TLC evaluates in the initial
state. `SpeedPath` then takes "some speed in range" for the filter's result.

**SpeedPath.** Time passes in periods of 10 ms, the period of both the sensor
task and Monitor. A task may be held up, by its own blocking log lines or by
another task:

* the timer interrupt of the Sensor ECU sets `due`; a main loop that comes too
  late finds the flag set once, and the tick is lost;
* `monitor.behind` counts the periods that have begun since the one of
  Monitor's last cycle. `osDelayUntil` an instant gone by returns at once, so
  Monitor makes up for its cycles one after the other. A cycle is three
  steps: copy of the view, evaluation (with its log lines), PWM; ComRx and time
  go on between any two, and the copy ages;
* a frame waits for ComRx, or in the sender's TX FIFO, and its age in the view
  starts only when ComRx takes it. The ghost `sent` is the true age.

`MaxBacklog`, `MaxWait` and `MaxHolds` bound how late Monitor runs, how long a
frame waits, and at the end of how many periods anything at all was left over. Monitor's
reports to the DTC manager and the start of a cycle by a soft reset are left
to `DtcLocking`; heartbeats and statistics to nobody: nothing in the path
reads them.

**CanDrv.** `CanDrv_MainFunction` is a sequence of steps, one per load or store
of a variable the error interrupt also writes; the interrupt (`ErrorStatusCallback`)
runs between any two. `s_busOffTimer` is not volatile, so the comparison after
its increment may use the value at hand or load it again: `Compare` allows both.
The controller is modelled from the driver's use of it: it leaves the bus and
sets INIT on its own, rejoins some time after INIT was cleared, and interrupts
at *both* changes of its bus-off status, as the HAL header says
(`stm32g4xx_hal_fdcan.h:955`). The two drivers have the same statements, and one
module stands for both.

**TesterApp, FrameFifo.** One iteration of the drain loop is three steps (test,
process, advance), one pass of `TesterApp_Task` after it three more (key, link,
sequencer); the receive interrupt comes between any two. A step of a sequence is
the request, the kind of response it expects (or silence), its delay and whether
it is functional. The Control ECU is external here: it answers each request in
order with any answer it may give, at any time, or not at all; `setup.prompt`
says whether it is faster than the tester's timeouts. A response is one First
Frame with its Consecutive Frames, which the ECU sends at the tester's Flow Control.
`StepsAssumption` says what the tables must be: no sequence is empty, and no answer
to one of their requests exceeds the tester's receive buffer (`TESTER_BUFFER_SIZE`, 128
bytes; the ECU's own buffer has 256).

**SimulatedEcu, UdsClient.** The simulated ECU is the C server and the C DTC
manager behind an interface, so `SimulatedEcu` is built from `UdsServer` and from
the operators of `DtcManager`, and adds the bytes of the responses: an index for a
DTC code, the set of bits for a status, real bytes for DIDs, since the client
cuts a response to several DIDs by them. The lengths of the DIDs are two tables, as in the code: the
server's (`DidLength`) says how many bytes it appends (`DidBlock`), the client's (`kAllDids`,
`control_ecu.hpp`) how many it takes off. `UdsClient` has the loop of
`UdsClient::request` as `Call`, `Receive` and `ReceiveNothing`, the decoding of each call as
`Decoded`, and the two scenarios as sequences of steps. The transport is one of
two, chosen by `setup`: the simulated ECU, which answers inside `send` and never
waits; or a remote ECU (external), which works in order, may ask for time
with NRC 0x78, and whose responses come late or get lost. `SuppressedAssumption`: the
call that waits for no response, `testerPresentSuppressed`, is the one that sends `3E 80`.

## 3. Runs

All of them finish within three minutes.

| run | question | bounds |
|---|---|---|
| `dtc_manager` | do the status bits mean what ISO 14229-1 says of the history? | 2 DTCs (thresholds 0 and 2), `FailMax` 2, 4 results per DTC since a clear, 3 new cycles |
| `dtc_locking` | does the table under its mutex behave as the atomic one? do calls return? | 2 tasks, 2 DTCs, 3 results, 1 new cycle; ComRx's lists have room for one entry or two |
| `isotp_link` | buffers, sequence numbers, credits, callbacks, termination of one link | frames of 4 bytes, 4 sequence numbers, messages up to 15 bytes, receive buffer of 15 (a First Frame may announce 16), every kind of frame with right and wrong lengths |
| `isotp_pair` | integrity of messages, blocks and termination of two links | 3 requests, 3 responses, 3 frames in flight per direction; 3 losses, or none and unlimited delay |
| `control_diag` | one reset per accepted request, whole responses, S3, recovery of the link | 3 requests of nine kinds, physical or functional, one of the kinds in a frame that may be cut short, FIFO 2, queue 2 |
| `speed_path` | no gap unnoticed, no output from data older than the timeout and the delays, no early healing; do the CRC and the filter do what the frames rely on? | scaled: counter 6, tolerance 2, timeout 2, grace 3, heal after 2; 7 lost, damaged or duplicated frames, 1 soft reset; Monitor and frames 1 period late, at the end of 2 periods |
| `speed_path_live` | do lasting faults stop the output for good, and does it recover when they end? | counter 5, timeout 2, 3 button presses on either ECU, ADC errors, 1 disturbance, 1 reset, Monitor late once |
| `can_drv` | does the node always come back from bus-off, in time and not too early? | the delay of the code (10 calls), 3 bus-offs, a FIFO of 3 |
| `tester_app` | is the ring a FIFO, are verdicts right, do sequences end? | ring of 3 slots, frames of 4 bytes, a sequence of 3 physical and one of 2 functional steps, 2 keys, 1 loss; or 1 key and answers as late as they like |
| `uds_client` | whose response does a call take, does it understand it, how long does it wait, do the scenarios pass? | P2 2, P2* 3, 2 response-pendings, S3 3, 2 DTCs; simulated ECU: any 3 calls of twelve with 3 reports, and both scenarios; prompt remote ECU: any 3 calls of six with 1 loss, and both scenarios with 2 reports; late remote ECU: any 2 calls with 1 loss |
| `reset_own_response`, `reset_on_bus` | expected to fail: section 4 | |

Why the bounds are enough. `dtc_manager`: 4 results pass the saturation of
`failCount` (2) twice over and a threshold of 2 across a cycle, 3 cycles let a
pending bit appear, survive and go; the theorems remove the bounds. `isotp_link`:
15 bytes are 5 consecutive frames, so the sequence number wraps and three blocks
are needed; the scaled frame keeps the inequalities of the real one
(`SfMax > FfData`, `CfMax = SfMax`); the theorems remove the bounds for the invariants. `isotp_pair`: three messages per direction are
what it takes for a message to disturb its predecessor and its successor.
`control_diag`: three requests are a session, a reset and something that comes
between it and its response. `speed_path`: 7 losses exceed the 6 values of the counter, so a gap that looks
like none can happen, and the timeout has to catch it; as in the code
the counter comes round only after the timeout. Two held periods are
what it takes for Monitor's delay and a frame's wait to meet; `SafeOutput` is tight
there (one period less is violated), and `SpeedPathProofs` removes the bounds. `dtc_locking`: room for one of
two entries makes a list stop before the table ends. `can_drv`: the
second bus-off falls on every statement of every call of the delay the first
one's end has started, the third on those of the second; the theorems remove the
bounds. `tester_app`: a ring of 3 slots is overrun by the response of three
frames together with a late answer, and a step can get its predecessor's answer;
the theorems about the ring and the verdicts remove the bounds. `uds_client`: two calls and a late
answer are what it takes for a response to meet the wrong call, three for a
change of session, a reset and a read; an ECU that is not prompt asks for time
once more than the client accepts. For the first and the third of its questions the theorems
remove the bounds.

### Fairness

* `DtcLocking`: each task that is inside the manager goes on (weak), and a task
  waiting for the mutex gets it (strong): FreeRTOS mutexes queue their waiters
  by priority with inheritance, and neither task calls the manager for ever
  without a pause. Nothing obliges a task to call.
* `IsoTpLink`, `IsoTpPair`: time passes; `IsoTp_MainFunction` is called for
  ever (ComRx calls it every 2 ms at least); received frames are taken from the
  queue; a driver that refuses does not refuse for ever (strong fairness of the
  poll with room in `IsoTpLink`). No fairness for the application, the
  peer's frames or the losses.
* `ControlDiag`: ComRx runs; the bus sends what is queued (another node
  acknowledges); time passes; ComRx finds room in the FIFO again and again, as
  the competing status frame comes every 100 ms only. The tester owes nothing.
* `SpeedPath`: one of the sensor task, ComRx, Monitor's three steps and the passing
  of time is taken again and again; the bounds on lateness then make each of them
  run. Nothing obliges a button, a disturbance or a soft reset.
* `UdsClient`: none; that a call returns in time is the safety property
  `BoundedWait` on the time spent, and a scenario's verdict one on each result.
* `CanDrv`: the interrupt is served, the main function is called for ever
  (`SensorApp_Task10ms`, `MonitorTask`), a bus that lets the node rejoin does so
  and carries its frames. Nothing obliges the node to go off the bus.
* `TesterApp`: the main loop runs, the interrupt is served, time passes, and the
  ECU decides at last what to do with a request; one of its choices is silence.

Some of these are written out as `[]<>~Due \/ []<><<A>>_vars` (weak) or
`<>[]~Due \/ []<><<A>>_vars` (strong), where `Due` is what `ENABLED <<A>>_vars`
amounts to. It says the same as `WF_vars(A)` and `SF_vars(A)`, and TLC evaluates it
much faster.

## 4. Where the code and its documentation disagree

* **reset_own_response.** `uds_server.h:82` promises that an accepted reset runs
  "once its response has been transmitted". `diag_app.c:127` runs it at the
  confirmation of *any* response, and `diag_app.c:109` ignores that the link may
  refuse the reset's own. So the answer of an 11 03 that comes while a segmented
  response is going out is dropped, and the reset runs when the *other* response
  is confirmed. The same pending reset outlives a change of session, which
  means a reset accepted in the extended session may run in the default one.
* **reset_on_bus.** `diag_app.c:127`: "a reset only after its response is on the
  bus". The confirmation comes when the driver takes the frame into the FIFO; a
  hard reset right then may empty the FIFO before the bus was free.

Two limits of ISO-TP as implemented (and mostly as standardised) that the models
made visible, not counted as disagreements because nothing in the repository
says otherwise:

* When frames are lost *and* delayed beyond N_Bs, `Integrity` fails: the Flow
  Control of message 1 arrives after N_Bs gave it up, message 2's First Frame is
  lost, and the late Flow Control starts message 2's Consecutive Frames, which the
  reception of message 1 accepts if the sequence number fits. `isotp_pair`
  therefore has losses or such delays, not both; likewise `BlockRespected` holds
  without such delays only.
* After 16 lost Consecutive Frames in a row the 4-bit sequence number is right
  again. The loss is noticed by N_Cr, as the message cannot be complete.

Limits of the C++ client of the same kind:

* A response that comes after its call gave up (later than P2 or P2*, or after
  more than `maxPending` response-pendings) stays in the transport. The next call
  takes it for its own, and from then on every answer is one call late:
  `OwnResponses` holds as long as no call gave up on an answer still to come.
* P2* is 5500 ms in `ClientTiming` (`uds_client.hpp:27`), longer than S3 (5000 ms):
  the session may be gone when the response to a request of that session
  arrives. The C server never asks for time, so this needs another ECU.

One of the server: 19 02 counts and lists the matching DTCs in two critical
sections (`uds_server.c:185`, `:189`), and Monitor may report in between. The list is bounded by
the room in the buffer, which holds all five DTCs of the project, so the
response is that of the second section and nothing worse.

Further disagreements met on the way, without a run of their own:

* `control_app.c:8`: "healed after 10 good frames". The eleventh heals, as `ViewAfter` has it: the
  counter is compared before it is incremented. (`HealsLate` only says that no error heals before the
  tenth.)
* `can_drv.c:12` of the Sensor ECU: "After bus-off, wait this many
  CanDrv_MainFunction() calls (x10 ms) before re-joining the bus". As the
  rejoining raises the interrupt again, it starts a second delay. A bus-off between two calls of the
  main function starts that delay again and is given a whole one; a bus-off in the middle of a
  call, after the timer was loaded or compared, is not, and one during the call that ends the delay is
  let back at once. `DelayRespected` is therefore stated for a bus-off between two calls.
* For the same reason `s_stats.busOffCount`, which frame 0x101 sends as the "bus-off count"
  (`README.md:44` of the repository; `BusOffCount` at `can_matrix.h:33`), is
  twice that number once the node is back on the bus and the interrupt is served: the theorem
  `TwicePerBusOff`, for every number of bus-offs.
* `tester_app.c:18`: `RESPONSE_TIMEOUT_MS (1000U) /* >= P2* of the server */`, but
  the server reports a P2* of 5000 ms (`50 03 00 32 01 F4`, `tester_app.c:50`, in units of
  10 ms). A response that takes longer than a second, allowed to the server,
  is taken for that of the next step.
* `tester_app.c:60`: the step "ReadDID x3 (tester sends FF+CF)" has a request of 7
  bytes, which `TxSendFirst` sends as a single frame (`SF_MAX_DATA` is 7).

## 5. Properties

*DTC.* `SinceClearMeaning`, `CycleMeaning`, `ConfirmedMeaning` state each status
bit as a formula on the log of reports. `FailRunMeaning` states `failCount` as
the length of the last run of failures, cut off at `FailMax`: that is what makes
`ConfirmedMeaning` inductive. `Atomic` (in `DtcLocking`) is the specification of
`DtcManager` under the refinement mapping; `SnapshotReads` says that what a query has listed is, at
every iteration of its loop, the list of the table as it is at that moment (`Lists` of `DtcManager`,
which `QueryMeaning` of `MCDtcManager` compares with the query itself); `CallsReturn` that nobody
hangs on the mutex.

*ISO-TP.* `InBuffers` (no `memcpy` leaves a buffer),
`SeqFollowsOffset`, `CallbacksOnce` (callbacks exactly once on every
path), `WithinCredit` (no frame beyond the block), `TransmissionEnds`,
`ReceptionEnds`; for the pair `Integrity`, `ConfirmedArrives`, `BlockRespected`,
`ComesToRest`.

*Diagnostics.* `ResetAtMostOnce`, `ResponsesWhole`, `S3Respected` (the extended session is neither
kept beyond S3 nor lost before, whatever the requests were answered), `LinkRecovers`.

*Speed.* `SafeOutput` (nothing in use is out of range or older than the timeout, a
period and the delays of the tasks), `GapNoticed`, `HealsLate`, `SafeStateReached` (a sensor that is
silent or out of range for good stops the output for good), `Recovers`;
`FrameGuarded` (the CRC catches every error pattern it promises to) and
`SpeedMeasured` (the running sum of the filter never drifts from its samples).

*CAN driver.* `NeverStranded` (no interleaving loses a pending recovery),
`RejoinsInTime`, `DelayRespected` (the upper and the lower end of the delay), `Recovers`.

*Tester.* `RingIsFifo` (the specification of `FrameFifo` under the refinement
mapping), `VerdictTrue` (a verdict is about the step's own response, and right, when the ECU answers in time), `SequenceEnds`.

*C++ client.* `OwnResponses` (a call takes its own response, unless an earlier call
gave up on one still to come), `Understood` (what the client decodes is what the ECU's
state was, DIDs included, of whose lengths each side has its own table), `BoundedWait` (response-pendings
do not extend a call beyond `P2 + maxPending * P2*`), `ScenarioPasses` (both scenarios
pass on an ECU that is in order, whatever the monitors reported before, and each leaves the
default session).

## 6. Proofs

`DtcProofs` proves of `DtcManager`, for tables of any size, any thresholds, any
`FailMax >= 1` and any bounds (assumptions `TableAssumption`,
`FailMaxAssumption`, `BoundAssumption` of `DtcManager`):

* `TypeCorrect`: `Spec => []TypeOK`;
* `Invariance`: `Spec => []IInv`;
* `SinceClearCorrect`, `CycleCorrect`, `ConfirmedCorrect`: the three meanings,
  each from `Invariance`.

`IInv` adds to the meanings what makes them inductive: no report is dated after
the current cycle (`LogDated`; else a new cycle could find reports of its own),
and `FailRunMeaning`: to know that the report that reaches the threshold ends
a window of so many failures, and that one that does not reach it ends none, the
invariant must know what `failCount` is. Saturation is the interesting case:
there `failCount` is only a lower bound of the run, and the proof uses that no
threshold exceeds `FailMax`. The proof is about a
single entry: `Told` says that a status and a count tell a log, and a lemma per operation says
that it is kept (`ToldReport`, `ToldNextCycle`, `ToldInitially`).

Of `DtcLocking` it proves `AtomicCorrect`, `LockedSpec => Atomic`, for any number of tasks,
entries, thresholds and results (the same assumptions), provided that one task alone
reports results and one starts cycles, as in the code (`CallsAssumption`; it is
only needed for the model's bounds, which are tested before the mutex is taken).
`LockInv` says that exactly the holder runs. The mapped table is what the holder will have
made of the real one (`Left`): acquiring the mutex changes it by the whole
operation (`LockImplements`, with `ReportWhole`: the four statements of a report
make up `StatusAfterResult`), a statement inside leaves it as it is
(`StatementImplements`), and so does the release, when nothing is left.

`SnapshotReadsCorrect` is about the queries, which change nothing and which the
refinement therefore says nothing of. Its invariant says that the rows collected up to
index `i` are those of the table as it is now (`Collected`), and it survives because
nobody else gets past the mutex: `LockInv` is what rules out a report between two
iterations. `ListsNext` is the lemma about the loop's body; a query that has filled its room leaves the
loop (`QueryRoom`), so the rows are never more than the caller has room for, whatever that is.

`MeaningsCorrect` brings the two parts together:
`LockedSpec => [](holder = NoTask => SinceClearMeaning /\ CycleMeaning /\ ConfirmedMeaning)`.
Whenever nobody is inside the manager, the bits of the *real* table, written statement by
statement by several tasks, mean what they should. `Atomic` alone does not say this in terms of
the table of the code. The invariant is `CompletedTold`, the table with the holder's operation
completed is `Told` by the log; it is kept because a locked step is a step of `DtcManager` or none
(`StepImplements`), and without a holder nothing is left to complete.

`CanDrvProofs` proves, for every delay, FIFO length and number of bus-offs
(`DriverAssumption` of `CanDrv`), `TypeCorrect`, `NeverStrandedCorrect`,
`TwicePerBusOff`, `RejoinsInTimeCorrect` and `DelayCorrect`.
`NeverStranded` and the count (`ChangesCounted`) are inductive with the type invariant. For
the delay the invariant says at every statement of the main function how the timer, and
the value loaded of it, relate to the calls made since the bus-off: `AtMost` for
every bus-off, `AtLeast` for one between two calls, `TimerInv` for what the interrupt
can do to the timer between its increment and its comparison.

`SpeedPathProofs` proves, for every counter, tolerance, timeout, queue length,
heal count, amount of loss and bound on lateness (`SpeedAssumption`,
`CounterAssumption`), `TypeCorrect`, `SafeOutputCorrect`, `HealsLateCorrect` and `GapNoticedCorrect`.
`SafeOutput` is about an age that grows while Monitor is late, and is not
inductive: what is true is that Monitor's lateness and the age of what it uses
grow together. The invariant says so for each stage a speed goes through.
`FromFrame`: the true age of a view exceeds its age by the wait in the
queue at most. `Judged`: what passed the monitors has an age of at most the
timeout plus the periods begun since (`monitor.behind - 1`). `Driven`: what is in use
is as old as that plus the wait in the queue at most. The backlog's bound
then gives the bound of `SafeOutput`.

`GapNoticed` says that a frame the receiver takes for the next one, although more
frames than it tolerates are missing, finds `TIMEOUT` raised. A gap looks like none when the
counter has come round, so the theorem needs the timeout, and what the tasks can
be late, to end before the counter comes round: `Timeout + MaxWait + MaxBacklog < CounterMod`.
In the code that is 10 periods against 16 values of the 4-bit counter, which leaves 5 periods
(50 ms) for the delays together. The bound is tight: with delays of
one period each and a timeout of 2, TLC finds a gap unnoticed with a counter of 4, and none with 5.
The invariant `Timing` joins the counter and the clock. `Timely`: a queued frame is at least as
old as the frames sent after it are many. `Follows`: what the receiver last took is
`Since` frames back, or a whole turn more, and a view is at least as old as the frames
it has missed, less the wait. `Copied` and `Raised`: as long as `TIMEOUT` is
not raised, the view is younger than the timeout and what Monitor owes.

`TesterAppProofs` proves `RingRefines`, `Spec => RingIsFifo`, for every length
of the ring (`TesterAssumption`). Its invariant `RingInv` is short: the indices are in the
ring, and there is a frame while one is being processed. The work is in the
refinement mapping: the slots from `tail` to `head` form the sequence of
waiting frames across the end of the array (`WaitingSeq`, by `ModOnce` without
remainders), the interrupt writes to none of them (`IsrPuts`), and the two steps
of the main loop shorten it at its head (`TakeGets`, `AdvanceDone`).

It also proves `VerdictCorrect`, `Spec => []VerdictTrue`, for every ring, frame size and modulus,
block size, table of steps and set of answers, number of starts and losses
(`TesterAssumption`, `StepsAssumption`, and those of `IsoTp`). A verdict is given by four parts that run apart: the
sequencer, the link, the ring and the interrupt. To know that a response belongs to the step
that judges it, one must know that nothing older was on its way when the request went out.
`PromptInv` says so of a run in which the ECU answers in time: either nothing is under way
(`Drained`), or exactly one thing is (`Busy`).

* What is under way is in the ring or on the bus; `Pipe` is the ring's frames followed by those
  of the bus, so that the interrupt, which moves one over, changes nothing.
* The one thing is the request (`Asked`), the answer as a Single Frame (`WholeSent`), its First
  Frame (`FirstSent`), or the Consecutive Frames (`RestSent`). Of the last,
  `GoesOn` relates what is still to come to what the receiver holds: as long as nothing was lost
  (`Clean`), their number, their sequence numbers, and that the timeout does not run out;
  after a loss only that none but the last can complete the response. A shorter
  response is thereby excluded, not only another step's.
* The lemmas follow the entry points: a whole response (`WholeTaken`), a First Frame, to which the
  link answers with a Flow Control and the ECU with the rest (`FirstTaken`), a Consecutive Frame
  (`RestTaken`), a poll, in which N_Cr may end the reception (`Polled`), and a request
  (`Requested`). A frame lost on the bus or in a full ring leaves `Dropped`, a sequence with one
  frame less.

`UdsClientProofs` proves, for every timing, number of response-pendings, set of calls and setups
(`ClientAssumption`, `SuppressedAssumption`):

* `BoundedWaitCorrect`. `request()` starts its clock again at each response-pending, so the bound is
  about a sum: `WaitInv` says that the call has waited at most what the response-pendings so far
  allowed (`Spent`) and the age of the present wait.
* `OwnResponsesCorrect`. `request()` takes the next message of the transport for its
  response; a response says which service it answers, not which call. The invariant `OwnInv` says why that is right as long as no call
  gave up too early: the ECU still has to answer nothing but the call that waits, and before it
  requests that get no answer (`Quiet`); on the way there is nothing but that call's
  response-pendings and, last, its answer (`OfCall`). So nothing can be left when the call
  returns: the lemma `OwnReturns` needs that what ends a call is the last thing under way, and `OwnGivesUp`
  that a call that ends without a response leaves a quiet request, or something that makes
  `overdue` true. `QuietAnswer` proves of the *server* that it never answers `3E 80`, in any state.

`IsoTpLinkProofs` proves the four safety invariants of `IsoTpLink` for every frame
size, modulus, buffer size, block size, message length and set of frames
(`SizeAssumption`, `CfgAssumption`, `FramesAssumption`, `BoundsAssumption`):
`InBuffersCorrect`, `SeqFollowsOffsetCorrect`, `WithinCreditCorrect` and
`CallbacksOnceCorrect`. The entry points of `isotp.c` are operators, so the proof is made
of lemmas about operators, from the inside out. A lemma about a function of the
sender says `Sends`: the link stays well formed (`LinkOK`), the receiver is not
touched, the confirmations are as many as the sender's step from busy to idle
calls for, and the CFs are covered by the credit (`Credited`). One about the receiver
says `Receives`, the same for indications. `MainFunction` joins the two by `Then`.
What makes the invariant inductive is `Numbered`: an offset in the middle of a message is
a whole number of CFs past the First Frame, and the sequence number that number
modulo `SeqMod`; and that a block that is being sent has a frame left.

`IsoTpPairProofs` proves `IntegrityCorrect`, `Spec => [](losses = 0 => Integrity)`, for every
frame size and modulus, every block size, STmin and buffer size of either side, every number and
length of requests and responses, every depth of the queues, and every delay (`SizeAssumption`,
`PairAssumption`): timeouts, aborted and
interrupted transfers, refusals of a driver, late Flow Controls and responses to old requests are
all in it. Not in it is the loss of frames: see section 4 for what losses and delays together
do, and `isotp_pair` for losses without delays.

* A `Position` says where a stream of messages stands: messages begun, and bytes of the last one
  that are out. `Fits` says how one frame moves it: a Flow Control not at all, an SF or FF to a later
  message, a CF by its bytes. `Moves` says that the frames of a channel lead from one
  position to another; appending, taking the first and appending a message to those sent keep
  it (`MovesOn`, `FirstMove`, `StillMoves`), each without an induction, since it names
  the positions between the frames.
* The invariant `Goes`, for each direction: the receiver has `Got` as far as some position, its
  data being the bytes of the message up to it; the frames on their way lead from there to
  another, and the peer's sender is `At` that one. No sequence number
  occurs in it: without loss, the position alone says which CF comes next, and a receiver that finds
  its number wrong has only to give up, which `Got` allows.
* An aborted message stays in the stream as a position that no frame completes. What is delivered is
  `Before` the message that is being received, hence in order and once. A Single Frame too long for
  the receiver is dropped *before* it interrupts a reception (`RxOnSingleFrame`), so a
  receiver may still be receiving a message that was given up for the next one; `Got`
  says nothing of its data, and nothing will complete it.
* The lemmas go from the inside out, as in `IsoTpLinkProofs`: `Sends` for the functions of the
  sender, `Takes` for those of the receiver, `Serves` for a call of a side, `Performed` for what the
  call does to both directions. `Ids` says that a response carries the number of a request the ECU
  was given, so that numbers of responses ascend.

It also proves `BlockRespectedCorrect`, `Spec => []BlockRespected`, under the same assumptions, here
*with* the loss of any number of frames; the property itself is about runs whose frames and
polls are faster than a unit of time. It speaks of one direction, but what a receiver may
expect depends on what its own Flow Control will do to the peer, so the invariant `BInv` is about both.

* `Paths` holds in every run: lengths, offsets and contents are what they should be, however much is
  lost (`Sender`, `Receiver`), every frame is one its side could have made (`Carried`), and
  requests have numbers (`Named`), without which the response would have no length.
* `Way` is what prompt runs add, for one direction, with `c` CFs and `a` First Frames on the way and `g`
  Flow Controls on the way back or still owed (`Pend`). `Block`: there is one First Frame or
  Flow Control at most, and while there is one, the sender waits and its N_Bs has not begun
  to run. This is where promptness enters: time passes only when nothing is on its way nor owed
  (`SettledOwesNothing`), so a Flow Control never finds a sender that has gone on to the next message.
* `InBlock` relates the two counters of the block. While the sender sends, what the receiver has
  counted and what is still coming is at most what the sender has counted, and when the two are
  equal, what is coming brings the receiver to the sender's byte (`Together`). That is needed for the end of
  a block: a receiver that has counted `bs` CFs answers with a Flow Control, and that must find
  the sender waiting, or else the message complete (`Completes`).
* `Ahead`: no CF is behind a First Frame, or the reception it starts would count CFs of its own
  message as if they had been allowed.
* Losing a frame lessens the numbers (`WayLoss`), a sender's call adds (`WayAdvances`), a Flow
  Control starts a block (`WayGrants`), the receiver takes what came (`WayPicks`). `Two` joins the
  directions, `Call` is what a call of a side does to both.

`ControlDiagProofs` proves `Invariance`, `ResetAtMostOnceCorrect`, `ResponsesWholeCorrect` and `S3Correct`
of `ControlDiag`, for every kind and number of requests, FIFO and queue length, and length of a
response (`QueueAssumption`, `ServerAssumption`; `PadAssumption`: a padding byte is not taken for a byte
of a response). One action is a whole iteration of the ComRx task: a frame completes a
reception, whose indication runs the server, whose response starts a transmission, whose
confirmation may run a reset. The proof follows that chain from the inside out:

* What a call does to the sender's side is one of six `Outcome`s: it stays, waits for the driver,
  gives up, gets a Single Frame, a First Frame, or some CFs out. The lemmas about the
  functions of `isotp.c` end in one of them.
* `Stream` is what the FIFO must be: a function `op` gives, for each prefix of
  the frames, the response it leaves open, and each frame may only follow what is open
  before it (a CF its own response, a new response only one that is complete or was given
  up). Each outcome keeps it (`StreamOK`), so does the bus taking the first frame, and
  it implies `ResponsesWhole`.
* `ResetsOK` relates the resets run, the one pending and the requests accepted. It
  needs that the requests in the queue are newer than the accepted ones (`QueueOK`):
  otherwise the same request could be accepted twice.
* `Sound` joins these for the record that one iteration works on, with the restart that
  empties everything.
* `S3Correct` says of the same chain of calls what it does to the session: a call that serves no
  request leaves it and the age of the last request alone, or runs a reset (`Lasts`); one that serves
  a request restarts the age, whatever the answer (`Serves`). The server's age is then the ghost
  `silence` in every state.

What stays with TLC, and why:

* liveness (`CallsReturn`, `TransmissionEnds`, `ReceptionEnds`, `ComesToRest`, `LinkRecovers`,
  `SafeStateReached`, the two `Recovers`, `SequenceEnds`): fairness and `ENABLED` are beyond the prover.
* `FrameGuarded`, `SpeedMeasured`: pure functions whose result for every input needs an
  induction over data.
* `Understood`, `ScenarioPasses`: the same, for the decoding of responses (`DidValues`, a recursive
  function over the bytes), on which both rest.
* `Integrity` when frames are lost: it then rests on the sequence numbers and on timeouts that are
  longer than the delays of the bus.
* `ConfirmedArrives`: it counts the frames of whole messages, and needs that no timeout
  runs out when nothing is lost, over every wait of a transfer.

## 7. Not modelled

* The contents of messages beyond what the properties tell apart, the contents of
  DIDs on the Control ECU (on the simulated ECU they are modelled), log
  output, LEDs, texts and command line of the C++ tester.
* The loopback self-test, the heartbeat frame 0x101: nothing reads them but
  statistics.
* When Monitor makes up for several cycles, it counts one state of the view several times,
  which in `DtcLocking` is a report like any other: how often a DTC's
  counter moves per second is not modelled.
* Peripheral drivers, start-up code (with the kernel clock, bit timing and
  filters of the CAN drivers): register writes without a protocol of their own.
* Vendored code (HAL, CMSIS, FreeRTOS, OpenAMP). It is almost all of the lines
  in `src/`; the models take from it what the project's code relies on
  (mutexes, queue, FDCAN status interrupt), marked external where it is a
  definition.

## 8. Plan

Order of work, the most important behaviour first; parts marked (done) are here.

1. `DtcManager`, its proofs, `DtcLocking` (done).
2. `IsoTp`, `IsoTpLink`, `IsoTpPair` (done).
3. `UdsServer`, `ControlDiag` (done).
4. `E2e`, `SpeedPath` (done).
5. `CanDrv` and its proofs (done).
6. `TesterApp`, `FrameFifo` (done).
7. `SimulatedEcu`, `UdsClient` (done).
8. `Crc8`, `SensorInput` (done).
9. Proofs about `SpeedPath`, of the locking of the DTC manager, its queries and what its
   bits mean under the mutex, of the ring and the verdicts of `TesterApp`, about `IsoTpLink`,
   `IsoTpPair`, `ControlDiag` and `UdsClient` (done).
