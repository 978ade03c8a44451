----------------------------- MODULE DtcLocking -----------------------------
(***************************************************************************)
(* The DTC manager shared by two FreeRTOS tasks, at the granularity of its *)
(* loop iterations and read-modify-writes: the monitor task reports results *)
(* and reads the confirmed DTCs while the CAN receive task serves UDS      *)
(* requests (clear, read) and starts operation cycles on a soft reset.     *)
(* Lock and Unlock are the mutex callbacks diag_app.c:81-82 passes in.     *)
(*                                                                         *)
(* An operation takes effect, seen from outside, when it gets the lock:    *)
(* absStatus and absFailCount complete what the holder has left to do, and *)
(* under that mapping this module implements DtcManager.                   *)
(***************************************************************************)
EXTENDS DtcManager   \* its table and its ghosts; its actions for the mapping only

CONSTANTS
    Tasks,        \* tasks that call the manager
    Calls,        \* operations each task calls: [Tasks -> SUBSET Operations]
    Rooms,        \* numbers of records the buffers of the queries have room for
    NoTask        \* holder of a free mutex

\* The ghosts of DtcManager are written when the lock is taken.
VARIABLES
    holder,              \* owner of s_dtcMutex
    task                 \* per task: the call in progress and how far it is

lockedVars == <<vars, holder, task>>

NoOp == [name |-> "none"]

ASSUME RoomsAssumption == Rooms \subseteq Nat

\* Operations by kind.  The mask of a query is a set of bits.  The loop of
\* DtcMgr_CountByStatusMask is that of a query with room for all; a query without
\* a buffer returns before Lock() and is no call here.
Reports == {[name |-> "ReportResult", index |-> i, failed |-> f] : i \in Index, f \in BOOLEAN}
Queries == {[name |-> "GetByStatusMask", mask |-> m, maxRecords |-> n] :
               m \in {{"CDTC"}, {"TNCTOC", "PDTC"}}, n \in Rooms}
Operations == Reports \union Queries
                \union {[name |-> "StartOperationCycle"], [name |-> "ClearAll"]}

\* As in the code, one task alone reports results, and one starts the cycles.
ASSUME CallsAssumption ==
    /\ Calls \in [Tasks -> SUBSET Operations] /\ NoTask \notin Tasks
    /\ \A t, u \in Tasks : \A op \in Calls[t], other \in Calls[u] :
          t /= u /\ op.name = other.name => op.name \in {"GetByStatusMask", "ClearAll"}

Idle == [pc |-> "idle", op |-> NoOp, i |-> 0, out |-> <<>>]

-----------------------------------------------------------------------------
(* One entry, one step of the code.                                        *)

Entry(i) == [status |-> status[i], failCount |-> failCount[i]]

\* The four statements of DtcMgr_ReportResult that write the entry, in order.
ReportStatement(d, e, failed, k) ==
    CASE k = 0 -> [e EXCEPT !.status = @ \ {"TNCTOC", "TNCSLC"}]
      [] k = 1 -> [e EXCEPT !.status = IF failed
                                       THEN @ \union {"TF", "TFTOC", "TFSLC", "PDTC"}
                                       ELSE @ \ {"TF"}]
      [] k = 2 -> [e EXCEPT !.failCount = IF ~failed THEN 0
                                          ELSE IF @ < FailMax THEN @ + 1 ELSE @]
      [] k = 3 -> IF failed /\ e.failCount >= (IF Threshold[d] = 0 THEN 1 ELSE Threshold[d])
                  THEN [e EXCEPT !.status = @ \union {"CDTC"}] ELSE e
      [] OTHER -> e

CycleStatement(e) ==
    LET kept == IF "TFTOC" \in e.status THEN e.status ELSE e.status \ {"PDTC"}
    IN  [e EXCEPT !.status = (kept \ {"TFTOC"}) \union {"TNCTOC"}]

ResetEntry == [status |-> {"TNCSLC", "TNCTOC"}, failCount |-> 0]

\* Steps inside the critical section before Unlock().
StepsOf(op) == IF op.name = "ReportResult" THEN 4 ELSE Count

-----------------------------------------------------------------------------
(* What is left of the holder's operation, applied to entry d.             *)

\* Statements k .. 3 of the report.
RestOfReport(d, e, failed, k) ==
    LET from(j, x) == IF k <= j THEN ReportStatement(d, x, failed, j) ELSE x
    IN  from(3, from(2, from(1, from(0, e))))

Completed(d) ==
    IF holder = NoTask THEN Entry(d)
    ELSE LET op == task[holder].op
             i  == task[holder].i
         IN  CASE op.name = "ReportResult" /\ op.index = d ->
                      RestOfReport(d, Entry(d), op.failed, i)
               [] op.name = "StartOperationCycle" /\ d >= i -> CycleStatement(Entry(d))
               [] op.name = "ClearAll" /\ d >= i -> ResetEntry
               [] OTHER -> Entry(d)

DM == INSTANCE DtcManager
        WITH status    <- [d \in Index |-> Completed(d).status],
             failCount <- [d \in Index |-> Completed(d).failCount]

-----------------------------------------------------------------------------
(* Actions.                                                                *)

LockedInit ==
    /\ status = [i \in Index |-> ResetEntry.status]
    /\ failCount = [i \in Index |-> 0]
    /\ cycle = 0
    /\ log = [i \in Index |-> <<>>]
    /\ holder = NoTask
    /\ task = [t \in Tasks |-> Idle]

\* A task calls the manager and reaches Lock().
Call(t) ==
    /\ task[t].pc = "idle"
    /\ \E op \in Calls[t] :
         /\ op.name = "ReportResult" => Len(log[op.index]) < MaxResults
         /\ op.name = "StartOperationCycle" => cycle < MaxCycle
         /\ task' = [task EXCEPT ![t] = [Idle EXCEPT !.pc = "lock", !.op = op]]
    /\ UNCHANGED <<status, failCount, cycle, log, holder>>

\* The ghosts record the operation of t.
Record(t) ==
    LET op == task[t].op
    IN  /\ cycle' = IF op.name = "StartOperationCycle" THEN cycle + 1 ELSE cycle
        /\ log' = CASE op.name = "ReportResult" ->
                          [log EXCEPT ![op.index] =
                              Append(@, [failed |-> op.failed, cycle |-> cycle])]
                    [] op.name = "ClearAll" -> [i \in Index |-> <<>>]
                    [] OTHER -> log

\* Faulty variants: there is no mutex; the queries do not take it.
LockNothing(t) ==
    /\ task[t].pc = "lock"
    /\ holder' = t
    /\ task' = [task EXCEPT ![t].pc = "run"]
    /\ Record(t)
    /\ UNCHANGED <<status, failCount>>
LockWritesOnly(t) ==
    /\ task[t].pc = "lock"
    /\ task[t].op \in Queries \/ holder = NoTask
    /\ holder' = IF task[t].op \in Queries THEN holder ELSE t
    /\ task' = [task EXCEPT ![t].pc = "run"]
    /\ Record(t)
    /\ UNCHANGED <<status, failCount>>

\* osMutexAcquire returns.
Lock(t) ==
    /\ task[t].pc = "lock"
    /\ holder = NoTask
    /\ holder' = t
    /\ task' = [task EXCEPT ![t].pc = "run"]
    /\ Record(t)
    /\ UNCHANGED <<status, failCount>>

\* Entry d becomes e and the caller goes on to its next statement.
Write(t, d, e) ==
    /\ status' = [status EXCEPT ![d] = e.status]
    /\ failCount' = [failCount EXCEPT ![d] = e.failCount]
    /\ task' = [task EXCEPT ![t].i = @ + 1]

Running(t, name) ==
    /\ task[t].pc = "run"
    /\ task[t].op.name = name
    /\ task[t].i < StepsOf(task[t].op)

ReportStep(t) ==
    /\ Running(t, "ReportResult")
    /\ LET op == task[t].op
       IN  Write(t, op.index, ReportStatement(op.index, Entry(op.index), op.failed, task[t].i))
    /\ UNCHANGED <<cycle, log, holder>>

CycleStep(t) ==
    /\ Running(t, "StartOperationCycle")
    /\ Write(t, task[t].i, CycleStatement(Entry(task[t].i)))
    /\ UNCHANGED <<cycle, log, holder>>

ClearStep(t) ==
    /\ Running(t, "ClearAll")
    /\ Write(t, task[t].i, ResetEntry)
    /\ UNCHANGED <<cycle, log, holder>>

\* One iteration of the loop of DtcMgr_GetByStatusMask, while a record fits.
QueryStep(t) ==
    /\ Running(t, "GetByStatusMask")
    /\ Len(task[t].out) < task[t].op.maxRecords
    /\ LET d == task[t].i
           hit == (status[d] \intersect task[t].op.mask) \ {"WIR"} /= {}
           rec == [code |-> d, status |-> status[d] \ {"WIR"}]
       IN  task' = [task EXCEPT ![t].i = @ + 1,
                                ![t].out = IF hit THEN Append(@, rec) ELSE @]
    /\ UNCHANGED <<status, failCount, cycle, log, holder>>

\* The call is at its Unlock(); a query may leave its loop early.
Finished(t) ==
    \/ task[t].i = StepsOf(task[t].op)
    \/ /\ task[t].op.name = "GetByStatusMask"
       /\ Len(task[t].out) >= task[t].op.maxRecords

\* Faulty variant: the queries return without Unlock().
UnlockWritesOnly(t) ==
    /\ task[t].pc = "run"
    /\ Finished(t)
    /\ holder' = IF task[t].op \in Queries THEN holder ELSE NoTask
    /\ task' = [task EXCEPT ![t] = Idle]
    /\ UNCHANGED <<status, failCount, cycle, log>>

\* Unlock() and return.
Unlock(t) ==
    /\ task[t].pc = "run"
    /\ Finished(t)
    /\ holder' = NoTask
    /\ task' = [task EXCEPT ![t] = Idle]
    /\ UNCHANGED <<status, failCount, cycle, log>>

Step(t) == ReportStep(t) \/ CycleStep(t) \/ ClearStep(t) \/ QueryStep(t) \/ Unlock(t)

LockedNext == \E t \in Tasks : Call(t) \/ Lock(t) \/ Step(t)

\* A task inside the critical section is never blocked; one that waits for the
\* mutex gets it, as the tasks sleep between their calls (osDelayUntil in the
\* monitor, osMessageQueueGet in the receive task).
Fairness == \A t \in Tasks : WF_lockedVars(Step(t)) /\ SF_lockedVars(Lock(t))

LockedSpec == LockedInit /\ [][LockedNext]_lockedVars /\ Fairness

-----------------------------------------------------------------------------
(* Properties.                                                             *)

\* Calls interleaved by two tasks amount to atomic calls in the order in which
\* they got the mutex (dtc_manager.h:19: "pass lock/unlock callbacks when the
\* manager is shared between tasks").
Atomic == DM!Spec

\* A ReadDTC answer is one snapshot within its room: at every iteration of the loop
\* the records collected so far are those of the table as it is now, not a mix of
\* two states, and they fit.
SnapshotReads ==
    \A t \in Tasks :
        task[t].pc = "run" /\ task[t].op.name = "GetByStatusMask"
          => /\ DM!Lists(status, task[t].out, task[t].op.mask, task[t].i)
             /\ Len(task[t].out) <= task[t].op.maxRecords

\* No call is left waiting: every call of the manager returns.
CallsReturn == \A t \in Tasks : task[t].pc = "lock" ~> task[t].pc = "idle"
=============================================================================
