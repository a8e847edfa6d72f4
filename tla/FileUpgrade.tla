---------------------------- MODULE FileUpgrade ----------------------------
(***************************************************************************)
(* File upgrade (src/src/service/file_upgrade.rs). The MQTT dispatcher     *)
(* sends the file segment by segment and waits for each answer; then a     *)
(* thread of the pool waits until the module reports, which is taken as    *)
(* the end of the upgrade, or until its time is up. For the upgrade of     *)
(* slave nodes it asks every 30 s for the module's running status.         *)
(*                                                                         *)
(* Both wait on one condition variable for one result mailbox, which the   *)
(* UART reader and the timeout handler fill. Between the reader's check    *)
(* that an upgrade is under way and its note that it has ended the lock is *)
(* free. The UART agent ends one request at a time.                        *)
(***************************************************************************)
EXTENDS Naturals, Sequences

CONSTANTS
  MaxSegments,   \* bound on the segments of a file
  WaitRounds,    \* wait_total_count of an upgrade of slaves: 40
  MaxOps,        \* bound on the requests of clients
  MaxFaults,     \* bound on the segments that are denied, lost or refused
  MaxReports,    \* bound on the module's reports
  None

ASSUME BoundsAssumption ==
  /\ MaxSegments \in Nat \ {0} /\ WaitRounds \in Nat \ {0}
  /\ MaxOps \in Nat /\ MaxFaults \in Nat /\ MaxReports \in Nat

VARIABLES
  status, upgrade_result, result, upgrading,   \* FileUpgradeState
  dispatch,            \* dispatcher: "recv", or "wait" for the answer to a segment
  flag, segments,      \* the upgrade: "Module" or "Slave"; the number of segments
  offset,              \* the segment that was sent last
  pool, wait_count,    \* pool thread: "idle", "queued", "wait", "query", "spin"; its rounds
  uartQ,               \* the requests with the UART agent: offsets, or Query
  reader,              \* UART reader: "read", "finish" a report, or "dead"
  told,                \* a report that came since the pool thread started was noted (history)
  crossed,             \* the reader was handling an older report when it started (history)
  held,                \* the report the reader handles is that one (history)
  mixed,               \* the end of an upgrade was ever noted (history)
  garbled,             \* an answer did not parse (history)
  ops, faults, reports

upgradeState == <<status, upgrade_result, result, upgrading>>
dispatchVars == <<dispatch, flag, segments, offset>>
poolVars == <<pool, wait_count>>
history == <<told, crossed, held, mixed, garbled>>
bounds == <<ops, faults, reports>>
vars == <<upgradeState, dispatchVars, poolVars, uartQ, reader, history, bounds>>

----------------------------------------------------------------------------
(* The mailbox and the state. *)

FILE_CHECK_ERROR == MaxSegments   \* 0xffffffff: no number of a segment
Query == MaxSegments + 1

\* A result: a segment number or an error; "of" is what it answers (history).
Results == [ok : BOOLEAN, segment : 0 .. FILE_CHECK_ERROR, of : 0 .. Query]

Post(ok, segment, of) == result' = [ok |-> ok, segment |-> segment, of |-> of]

\* The mutex: a pool thread whose wait returns at once never gives it back.
LockIsFree == pool # "spin"

finish_upgrade(r) ==
  /\ status' = "Finished"
  /\ upgrade_result' = r
  /\ upgrading' = FALSE

----------------------------------------------------------------------------
(* The dispatcher. *)

MayUpgradeAgain == TRUE     \* mutant of MayUpgrade
MayUpgrade == ~upgrading

\* The segments follow, or without any the pool thread.
SendFrom(o, n) ==
  IF o < n
  THEN uartQ' = Append(uartQ, o) /\ dispatch' = "wait" /\ offset' = o /\ UNCHANGED pool
  ELSE pool' = "queued" /\ dispatch' = "recv" /\ offset' = 0 /\ UNCHANGED uartQ

\* mqtt_file_upgrade, up to its first wait. A file that cannot be opened is refused before.
\* The result of an earlier upgrade stays in the mailbox.
MqttFileUpgrade(f, n) ==
  /\ dispatch = "recv" /\ LockIsFree
  /\ ops < MaxOps /\ ops' = ops + 1
  /\ \/ /\ ~MayUpgrade
        /\ UNCHANGED <<upgradeState, dispatchVars, pool, uartQ>>
     \/ /\ MayUpgrade
        /\ upgrading' = TRUE
        /\ status' = "Idle"
        /\ flag' = f /\ segments' = n
        /\ SendFrom(0, n)
        /\ UNCHANGED <<upgrade_result, result>>
  /\ UNCHANGED <<wait_count, reader, history, faults, reports>>

\* Whether the result is the answer that is waited for.
InOrder(r) == r.ok /\ r.segment # FILE_CHECK_ERROR /\ r.segment = offset

\* Option::take. Mutant: the result is only looked at.
Copied(r) == r
Taken(r) == None

\* The dispatcher's wait_while ends: the next segment, or the end of the transfer.
SegmentReturns ==
  /\ dispatch = "wait" /\ result # None /\ LockIsFree
  /\ result' = Taken(result)
  /\ \/ /\ InOrder(result)
        /\ SendFrom(offset + 1, segments)
        /\ UNCHANGED <<status, upgrade_result, upgrading>>
     \/ /\ ~InOrder(result)
        /\ finish_upgrade(IF result.ok /\ result.segment = FILE_CHECK_ERROR
                          THEN "FileError" ELSE "TransferFailed")
        /\ dispatch' = "recv" /\ offset' = 0
        /\ UNCHANGED <<uartQ, pool>>
  /\ UNCHANGED <<flag, segments, wait_count, reader, history, bounds>>

----------------------------------------------------------------------------
(* The thread of the pool. *)

\* It leaves its loop with the status s.
Leave(s) ==
  /\ finish_upgrade(IF s = "Upgrading" THEN "OtherError" ELSE "Success")
  /\ pool' = "idle" /\ wait_count' = 0

\* A round for the slaves is over: the result is taken.
RoundEnds(s) ==
  /\ result' = Taken(result)
  /\ \/ /\ wait_count + 1 = WaitRounds \/ s # "Upgrading"
        /\ Leave(s)
     \/ /\ wait_count + 1 < WaitRounds /\ s = "Upgrading"
        /\ pool' = "wait" /\ wait_count' = wait_count + 1
        /\ status' = s
        /\ UNCHANGED <<upgrade_result, upgrading>>

\* wait_timeout_while with a result there, under the status s. For the module the result is
\* not taken: if the status says that the upgrade goes on, the wait is entered again,
\* returns at once, and so on with the lock held.
WaitReturns(s) ==
  \/ flag = "Slave" /\ RoundEnds(s)
  \/ flag = "Module" /\ s # "Upgrading" /\ Leave(s) /\ UNCHANGED result
  \/ /\ flag = "Module" /\ s = "Upgrading"
     /\ pool' = "spin" /\ status' = s
     /\ UNCHANGED <<wait_count, upgrade_result, upgrading, result>>

\* The status the thread starts with. Mutant: it is kept.
StatusKept == status
StatusAtStart == "Upgrading"

\* The closure starts and enters its first wait.
PoolStarts ==
  /\ pool = "queued"
  /\ told' = FALSE
  /\ crossed' = (reader = "finish") /\ held' = (reader = "finish")
  /\ \/ /\ result = None
        /\ status' = StatusAtStart
        /\ pool' = "wait"
        /\ UNCHANGED <<upgrade_result, result, upgrading, wait_count>>
     \/ /\ result # None
        /\ WaitReturns(StatusAtStart)
  /\ UNCHANGED <<dispatchVars, uartQ, reader, mixed, garbled, bounds>>

PoolWakes ==
  /\ pool = "wait" /\ result # None
  /\ WaitReturns(status)
  /\ UNCHANGED <<dispatchVars, uartQ, reader, history, bounds>>

\* The wait times out: the upgrade of the module has failed; for the slaves the running
\* status is asked for, and its answer awaited without a time limit.
PoolTimesOut ==
  /\ pool = "wait" /\ result = None
  /\ \/ /\ flag = "Module"
        /\ Leave(status)
        /\ UNCHANGED uartQ
     \/ /\ flag = "Slave"
        /\ uartQ' = Append(uartQ, Query)
        /\ pool' = "query"
        /\ UNCHANGED <<status, upgrade_result, upgrading, wait_count>>
  /\ UNCHANGED <<result, dispatchVars, reader, history, bounds>>

PoolQueryReturns ==
  /\ pool = "query" /\ result # None
  /\ RoundEnds(status)
  /\ UNCHANGED <<dispatchVars, uartQ, reader, history, bounds>>

----------------------------------------------------------------------------
(* The UART agent, its reader and the module. *)

Fault == faults < MaxFaults /\ faults' = faults + 1

\* uart_file_transfer: the module's number for the segment, its verdict on the file, or a
\* denial. An answer that does not parse leaves no result.
SegmentAnswered ==
  /\ reader = "read" /\ LockIsFree /\ uartQ # << >> /\ Head(uartQ) # Query
  /\ uartQ' = Tail(uartQ)
  /\ \/ Post(TRUE, Head(uartQ), Head(uartQ)) /\ UNCHANGED <<faults, garbled>>
     \/ Fault /\ Post(TRUE, FILE_CHECK_ERROR, Head(uartQ)) /\ UNCHANGED garbled
     \/ Fault /\ Post(FALSE, 0, Head(uartQ)) /\ UNCHANGED garbled
     \/ Fault /\ garbled' = TRUE /\ UNCHANGED result
  /\ UNCHANGED <<status, upgrade_result, upgrading, dispatchVars, poolVars, reader, told, crossed, held,
                 mixed, ops, reports>>

\* uart_file_transfer_timeout. Mutant: it is not called.
NotTold(r) == UNCHANGED result
TellTimeout(r) == Post(FALSE, 0, r)

SegmentTimesOut ==
  /\ LockIsFree /\ uartQ # << >> /\ Head(uartQ) # Query
  /\ reader # "dead" => faults < MaxFaults
  /\ faults' = IF reader = "dead" THEN faults ELSE faults + 1
  /\ uartQ' = Tail(uartQ)
  /\ TellTimeout(Head(uartQ))
  /\ UNCHANGED <<status, upgrade_result, upgrading, dispatchVars, poolVars, reader, history, ops, reports>>

\* The running status is answered: the arm of uart_init_handler takes the number of the
\* origin key, which is that of a file transfer, for that of the query: unreachable!().
QueryAnswered ==
  /\ reader = "read" /\ uartQ # << >> /\ Head(uartQ) = Query
  /\ uartQ' = Tail(uartQ)
  /\ reader' = "dead"
  /\ UNCHANGED <<upgradeState, dispatchVars, poolVars, history, bounds>>

\* It times out: handle_route_get_timeout tells the area identification, not the upgrade.
QueryTimesOut ==
  /\ uartQ # << >> /\ Head(uartQ) = Query
  /\ uartQ' = Tail(uartQ)
  /\ UNCHANGED <<upgradeState, dispatchVars, poolVars, reader, history, bounds>>

\* The module reports its information, is_upgrading holds. (Otherwise the report is
\* PlcInit's and changes nothing here.)
ReportArrives ==
  /\ reader = "read" /\ LockIsFree /\ upgrading
  /\ reports < MaxReports /\ reports' = reports + 1
  /\ reader' = "finish" /\ held' = FALSE
  /\ UNCHANGED <<upgradeState, dispatchVars, poolVars, uartQ, told, crossed, mixed, garbled, ops, faults>>

\* upgrade_finished.
UpgradeFinished ==
  /\ reader = "finish" /\ LockIsFree
  /\ Post(TRUE, 0, Query)
  /\ status' = "Finished"
  /\ reader' = "read"
  /\ told' = (told \/ ~held) /\ mixed' = TRUE
  /\ UNCHANGED <<upgrade_result, upgrading, dispatchVars, poolVars, uartQ, crossed, held, garbled, bounds>>

----------------------------------------------------------------------------
(* The specification. *)

Init ==
  /\ status = "Idle" /\ upgrade_result = "Success" /\ result = None /\ upgrading = FALSE
  /\ dispatch = "recv" /\ flag = "Module" /\ segments = 0 /\ offset = 0
  /\ pool = "idle" /\ wait_count = 0
  /\ uartQ = << >>
  /\ reader = "read"
  /\ told = FALSE /\ crossed = FALSE /\ held = FALSE /\ mixed = FALSE /\ garbled = FALSE
  /\ ops = 0 /\ faults = 0 /\ reports = 0

Client == \E f \in {"Module", "Slave"}, n \in 0 .. MaxSegments : MqttFileUpgrade(f, n)
Pool == PoolStarts \/ PoolWakes \/ PoolTimesOut \/ PoolQueryReturns
Uart == SegmentAnswered \/ SegmentTimesOut \/ QueryAnswered \/ QueryTimesOut
Report == ReportArrives \/ UpgradeFinished

Next == Client \/ SegmentReturns \/ Pool \/ Uart \/ Report

Spec == Init /\ [][Next]_vars

\* A woken thread goes on, waits with a time limit end, the UART agent ends every request
\* and the reader finishes what it began. Nothing makes a client ask or the module report.
Fairness == WF_vars(SegmentReturns) /\ WF_vars(Pool) /\ WF_vars(Uart) /\ WF_vars(UpgradeFinished)

FairSpec == Spec /\ Fairness

----------------------------------------------------------------------------
(* Properties. *)

\* The types of the variables.
TypeOK ==
  /\ status \in {"Idle", "Upgrading", "Finished"}
  /\ upgrade_result \in {"Success", "FileError", "TransferFailed", "OtherError"}
  /\ result \in Results \cup {None}
  /\ upgrading \in BOOLEAN
  /\ dispatch \in {"recv", "wait"} /\ flag \in {"Module", "Slave"}
  /\ segments \in 0 .. MaxSegments /\ offset \in 0 .. MaxSegments - 1
  /\ pool \in {"idle", "queued", "wait", "query", "spin"} /\ wait_count \in 0 .. WaitRounds - 1
  /\ uartQ \in Seq(0 .. Query)
  /\ reader \in {"read", "finish", "dead"}
  /\ told \in BOOLEAN /\ crossed \in BOOLEAN /\ held \in BOOLEAN /\ mixed \in BOOLEAN /\ garbled \in BOOLEAN
  /\ ops \in 0 .. MaxOps /\ faults \in 0 .. MaxFaults /\ reports \in 0 .. MaxReports

\* There is one upgrade at a time, either in the dispatcher or in the pool, and the flag that
\* refuses another one says so as long as it lasts, on every way out of it.
OneUpgrade ==
  /\ upgrading <=> (dispatch = "wait" \/ pool # "idle")
  /\ dispatch = "wait" => pool = "idle"

\* An upgrade counts as a success only by a report that came since the pool thread took it
\* over: what an earlier upgrade left in the mailbox, or a report of the transfer that was
\* noted before, does not make it one. There is one exception, and no other: the reader
\* checked is_upgrading for an older report, even one of an earlier upgrade, and notes it as
\* the end only after the thread has started (the lock is free in between).
SuccessIsReported ==
  [][upgrading /\ ~upgrading' /\ upgrade_result' = "Success" => told \/ crossed]_vars

\* What the dispatcher finds is the answer to the segment it sent last, also after upgrades
\* that failed at any point, as long as no report was ever put in the same mailbox.
AnswerIsCurrent == dispatch = "wait" /\ result # None /\ ~mixed => result.of = offset

\* An upgrade ends, whatever is denied or lost on the way and wherever reports fall, except
\* that its thread waits for ever for a running status, never gives up the lock after a
\* result of the transfer was still to come, or waits for an answer that did not parse.
UpgradeEnds == upgrading ~> (~upgrading \/ pool \in {"query", "spin"} \/ garbled)
=============================================================================
