----------------------------- MODULE RouteCtrl -----------------------------
(***************************************************************************)
(* Route control (src/src/service/route_ctrl.rs): pausing and resuming the *)
(* module's own metering. A monitor node or broadcast request pauses it    *)
(* and a timer resumes it later; an MQTT client may pause, resume or       *)
(* restart it. A thread that sends such a command waits, without a time    *)
(* limit, on one condition variable for the one result mailbox.            *)
(*                                                                         *)
(* The MQTT dispatcher and the timer send commands; the UART reader posts  *)
(* results. The wait releases the lock, so the others go on meanwhile. The *)
(* UART agent is the queue it is for its clients: one request at a time is *)
(* answered or times out.                                                  *)
(***************************************************************************)
EXTENDS Naturals, Sequences

CONSTANTS
  ClientOps,   \* what MQTT clients send, a subset of Commands
  MaxOps,      \* bound on the messages the dispatcher takes
  MaxDenied,   \* bound on the commands the module denies
  MaxUnanswered,  \* bound on the requests that time out or are badly answered
  None

Commands == {"Pause", "Resume", "Restart"}

\* Requests that pause the metering first: a broadcast, and a monitor node request, for whose
\* answer the dispatcher waits. (A monitorNodeDelay request ends with the same answer.)
Work == {"broadcast", "monitor"}

ASSUME OpsAssumption == ClientOps \subseteq Commands
ASSUME BoundsAssumption == MaxOps \in Nat /\ MaxDenied \in Nat /\ MaxUnanswered \in Nat
ASSUME NoneAssumption == None \notin Commands \cup Work \cup {"ok", "err"}

VARIABLES
  state,          \* MeteringState: what the service believes, "Resume" or "Pause"
  resume_timer,   \* MeteringState: "none", "armed", or "spent" once its callback started
  result,         \* MeteringState: the mailbox
  dispatch,       \* dispatcher: "recv", "wait" for a result, "work" for a monitor node answer
  op, purpose,    \* dispatcher: the command it waits for; for whom it pauses, or None
  timer,          \* timer thread: "idle", "fired", "wait"
  uartQ,          \* the requests with the UART agent
  renewing,       \* reader: it told the dispatcher and will now renew the timer
  module,         \* whether the module meters: "Resume" or "Pause" (environment)
  pausedBy,       \* "client" or "service": who paused last (history)
  crossed,        \* a resume callback was under way when a client's pause took effect (history)
  overlapped,     \* both threads waited at the mailbox at the same time (history)
  ops, denied, unanswered

faults == <<denied, unanswered>>
meteringState == <<state, resume_timer, result>>
dispatchVars == <<dispatch, op, purpose>>
vars == <<meteringState, dispatchVars, timer, uartQ, renewing, module, pausedBy, crossed, overlapped,
          ops, faults>>

----------------------------------------------------------------------------
(* The dispatcher. *)

TakeMessage ==
  /\ dispatch = "recv" /\ ops < MaxOps
  /\ ops' = ops + 1

\* An operation that succeeded: restart counts as resume, and there is no timer any more.
\* Mutant: the timer of an earlier automatic pause stays.
FinishClientKeepsTimer(c) ==
  /\ state' = IF c = "Restart" THEN "Resume" ELSE c
  /\ pausedBy' = IF c = "Pause" THEN "client" ELSE pausedBy
  /\ crossed' = IF c = "Pause" THEN timer # "idle" ELSE crossed
  /\ UNCHANGED resume_timer
FinishClient(c) ==
  /\ state' = IF c = "Restart" THEN "Resume" ELSE c
  /\ pausedBy' = IF c = "Pause" THEN "client" ELSE pausedBy
  /\ crossed' = IF c = "Pause" THEN timer # "idle" ELSE crossed
  /\ resume_timer' = "none"

\* mqtt_operating_metering, up to its wait.
ClientOperates(c) ==
  /\ TakeMessage
  /\ \/ /\ c = state
        /\ FinishClient(c)
        /\ UNCHANGED <<dispatchVars, uartQ, overlapped>>
     \/ /\ c # state
        /\ uartQ' = Append(uartQ, c)
        /\ dispatch' = "wait" /\ op' = c /\ purpose' = None
        /\ overlapped' = (overlapped \/ timer = "wait")
        /\ UNCHANGED <<state, resume_timer, pausedBy, crossed>>
  /\ UNCHANGED <<result, timer, renewing, module, faults>>

\* What follows a successful automatic pause: the request that needs it.
SendWork(w) ==
  /\ uartQ' = Append(uartQ, w)
  /\ dispatch' = IF w = "broadcast" THEN "recv" ELSE "work"
  /\ op' = None /\ purpose' = None

\* update_resume_timer: only a timer that is there is renewed, also one that is spent.
Renewed(t) == IF t = "none" THEN "none" ELSE "armed"

\* auto_pause_metering for a request w, up to its wait.
AutoPause(w) ==
  /\ TakeMessage
  /\ \/ /\ state = "Pause"
        /\ resume_timer' = Renewed(resume_timer)
        /\ SendWork(w)
        /\ UNCHANGED overlapped
     \/ /\ state # "Pause"
        /\ uartQ' = Append(uartQ, "Pause")
        /\ dispatch' = "wait" /\ op' = "Pause" /\ purpose' = w
        /\ overlapped' = (overlapped \/ timer = "wait")
        /\ UNCHANGED resume_timer
  /\ UNCHANGED <<state, result, timer, renewing, module, pausedBy, crossed, faults>>

\* A pause that succeeded is followed by the timer. Mutant: without it.
FinishPauseNoTimer ==
  /\ state' = "Pause"
  /\ pausedBy' = "service"
  /\ UNCHANGED resume_timer
FinishPause ==
  /\ state' = "Pause"
  /\ pausedBy' = "service"
  /\ resume_timer' = "armed"

\* A result is looked at before the state is changed.
AnyResult(r) == TRUE     \* mutant of Ok
Ok(r) == r = "ok"

\* The dispatcher's wait_while ends: it takes whatever result is there.
DispatchWakes ==
  /\ dispatch = "wait" /\ result # None
  /\ result' = None
  /\ \/ /\ Ok(result) /\ purpose = None
        /\ FinishClient(op)
        /\ dispatch' = "recv" /\ op' = None
        /\ UNCHANGED <<purpose, uartQ>>
     \/ /\ Ok(result) /\ purpose # None
        /\ FinishPause
        /\ SendWork(purpose)
        /\ UNCHANGED crossed
     \/ /\ ~Ok(result)
        /\ dispatch' = "recv" /\ op' = None /\ purpose' = None
        /\ UNCHANGED <<state, resume_timer, uartQ, pausedBy, crossed>>
  /\ UNCHANGED <<timer, renewing, module, ops, faults, overlapped>>

----------------------------------------------------------------------------
(* The timer thread. *)

\* The callback of the resume timer starts; the guard stays in resume_timer.
ResumeTimerFires ==
  /\ timer = "idle" /\ resume_timer = "armed"
  /\ timer' = "fired"
  /\ resume_timer' = "spent"
  /\ UNCHANGED <<state, result, dispatchVars, uartQ, renewing, module, pausedBy, crossed, ops, faults, overlapped>>

\* auto_resume_metering has the lock.
AutoResume ==
  /\ timer = "fired"
  /\ \/ /\ state = "Resume"
        /\ timer' = "idle"
        /\ UNCHANGED <<uartQ, overlapped>>
     \/ /\ state # "Resume"
        /\ timer' = "wait"
        /\ overlapped' = (overlapped \/ dispatch = "wait")
        /\ uartQ' = Append(uartQ, "Resume")
  /\ UNCHANGED <<meteringState, dispatchVars, renewing, module, pausedBy, crossed, ops, faults>>

\* Its wait_while ends. A resume that failed is logged, and nothing tries again.
TimerWakes ==
  /\ timer = "wait" /\ result # None
  /\ timer' = "idle"
  /\ result' = None
  /\ state' = IF Ok(result) THEN "Resume" ELSE state
  /\ UNCHANGED <<resume_timer, dispatchVars, uartQ, renewing, module, pausedBy, crossed, ops, faults, overlapped>>

----------------------------------------------------------------------------
(* The UART agent, its reader and the module. *)

\* The module obeys a command it confirms.
Obeyed(c) == CASE c = "Pause" -> "Pause" [] c \in {"Resume", "Restart"} -> "Resume"

\* uart_operate_metering: the result is posted over whatever the mailbox holds.
PostedIfOk(r) == IF r = "ok" THEN r ELSE result    \* mutant of Posted
Posted(r) == r

\* The answer to a command: the module obeyed, or denies it.
PostResult ==
  /\ uartQ # << >> /\ Head(uartQ) \in Commands /\ ~renewing
  /\ uartQ' = Tail(uartQ)
  /\ \/ /\ result' = Posted("ok")
        /\ module' = Obeyed(Head(uartQ))
        /\ UNCHANGED denied
     \/ /\ denied < MaxDenied /\ denied' = denied + 1
        /\ result' = Posted("err")
        /\ UNCHANGED module
  /\ UNCHANGED <<state, resume_timer, dispatchVars, timer, renewing, pausedBy, crossed, ops, unanswered, overlapped>>

\* The command times out, which the default handler tells an MQTT client or plc_init of, or
\* the confirmation does not parse: no result is posted. The module may have obeyed.
CommandUnanswered ==
  /\ unanswered < MaxUnanswered /\ unanswered' = unanswered + 1
  /\ uartQ # << >> /\ Head(uartQ) \in Commands /\ ~renewing
  /\ uartQ' = Tail(uartQ)
  /\ module' \in {module, Obeyed(Head(uartQ))}
  /\ UNCHANGED <<meteringState, dispatchVars, timer, renewing, pausedBy, crossed, ops, denied, overlapped>>

\* A broadcast is answered: the timer is renewed. The answer to a monitor node request wakes
\* the dispatcher first.
WorkAnswered ==
  /\ uartQ # << >> /\ Head(uartQ) \in Work /\ ~renewing
  /\ uartQ' = Tail(uartQ)
  /\ \/ /\ Head(uartQ) = "broadcast"
        /\ resume_timer' = Renewed(resume_timer)
        /\ UNCHANGED <<dispatch, renewing>>
     \/ /\ Head(uartQ) = "monitor"
        /\ dispatch' = "recv"
        /\ renewing' = TRUE
        /\ UNCHANGED resume_timer
  /\ UNCHANGED <<state, result, op, purpose, timer, module, pausedBy, crossed, ops, faults, overlapped>>

\* uart_response_update_resume_timer after a monitor node answer.
Renew ==
  /\ renewing
  /\ renewing' = FALSE
  /\ resume_timer' = Renewed(resume_timer)
  /\ UNCHANGED <<state, result, dispatchVars, timer, uartQ, module, pausedBy, crossed, ops, faults, overlapped>>

\* A broadcast or a monitor node request times out; for the latter
\* uart_monitor_node_timeout wakes the dispatcher.
WorkTimesOut ==
  /\ unanswered < MaxUnanswered /\ unanswered' = unanswered + 1
  /\ uartQ # << >> /\ Head(uartQ) \in Work
  /\ uartQ' = Tail(uartQ)
  /\ dispatch' = IF Head(uartQ) = "monitor" THEN "recv" ELSE dispatch
  /\ UNCHANGED <<meteringState, op, purpose, timer, renewing, module, pausedBy, crossed, ops, denied, overlapped>>

\* The answer to a monitor node request does not parse, or is not the 14H-F3 read that a
\* monitorNodeDelay request waits for: nobody wakes the dispatcher.
WorkBadlyAnswered ==
  /\ unanswered < MaxUnanswered /\ unanswered' = unanswered + 1
  /\ uartQ # << >> /\ Head(uartQ) = "monitor" /\ ~renewing
  /\ uartQ' = Tail(uartQ)
  /\ UNCHANGED <<meteringState, dispatchVars, timer, renewing, module, pausedBy, crossed, ops, denied, overlapped>>

----------------------------------------------------------------------------
(* The specification. *)

Init ==
  /\ state = "Resume" /\ resume_timer = "none" /\ result = None
  /\ dispatch = "recv" /\ op = None /\ purpose = None
  /\ timer = "idle"
  /\ uartQ = << >>
  /\ renewing = FALSE
  /\ module = "Resume"
  /\ pausedBy = "service" /\ crossed = FALSE
  /\ overlapped = FALSE
  /\ ops = 0 /\ denied = 0 /\ unanswered = 0

Dispatcher == (\E c \in ClientOps : ClientOperates(c)) \/ (\E w \in Work : AutoPause(w)) \/ DispatchWakes
TimerThread == ResumeTimerFires \/ AutoResume \/ TimerWakes
Uart == \/ PostResult \/ CommandUnanswered
        \/ WorkAnswered \/ Renew \/ WorkTimesOut \/ WorkBadlyAnswered

Next == Dispatcher \/ TimerThread \/ Uart

Spec == Init /\ [][Next]_vars

\* A thread that is woken goes on, the timer fires when its time has come, and the UART
\* agent ends every request (SerialRequestsEnd of UartAgent).
Fairness == WF_vars(DispatchWakes) /\ WF_vars(TimerThread) /\ WF_vars(Uart)

FairSpec == Spec /\ Fairness

----------------------------------------------------------------------------
(* Properties. *)

\* The types of the variables.
TypeOK ==
  /\ state \in {"Resume", "Pause"}
  /\ resume_timer \in {"none", "armed", "spent"}
  /\ result \in {"ok", "err", None}
  /\ dispatch \in {"recv", "wait", "work"}
  /\ op \in Commands \cup {None}
  /\ purpose \in Work \cup {None}
  /\ timer \in {"idle", "fired", "wait"}
  /\ uartQ \in Seq(Commands \cup Work)
  /\ renewing \in BOOLEAN
  /\ module \in {"Resume", "Pause"}
  /\ pausedBy \in {"client", "service"} /\ crossed \in BOOLEAN /\ overlapped \in BOOLEAN
  /\ ops \in 0 .. MaxOps
  /\ denied \in 0 .. MaxDenied /\ unanswered \in 0 .. MaxUnanswered

Settled ==
  /\ dispatch # "wait" /\ timer # "wait"
  /\ \A i \in 1 .. Len(uartQ) : uartQ[i] \notin Commands

\* When no command is under way the service's state is the module's, whatever was denied and
\* although a command is sent on the strength of a state that may change before its answer.
\* It holds until the two threads wait at the same time: each may then take the result of
\* the other's command.
BeliefIsTrue == ~overlapped /\ Settled => state = module

\* An automatic pause has a resume timer; a client's pause has none, and no callback that is
\* about to end it, but for one: a callback that had started when the client's pause took
\* effect is not stopped by it, and ends the client's pause all the same. Whatever else
\* happens, and whatever is renewed afterwards, nothing but a client ends a client's pause.
PauseHasOwner ==
  state = "Pause" =>
    /\ resume_timer = "none" <=> pausedBy = "client"
    /\ pausedBy = "client" /\ timer # "idle" => crossed

\* Nobody waits for a result that will not come: a waiter has its command with the UART agent
\* or its result in the mailbox, until a command is left unanswered or two threads wait at once.
EveryWaiterIsServed ==
  (dispatch = "wait" \/ timer = "wait") /\ unanswered = 0 /\ ~overlapped
    => result # None \/ \E i \in 1 .. Len(uartQ) : uartQ[i] \in Commands

\* An automatic pause ends, or a client makes it its own, or the module denied or did not
\* answer a request, or two threads waited at once.
AutoPauseEnds ==
  (state = "Pause" /\ pausedBy = "service")
    ~> (state = "Resume" \/ pausedBy = "client" \/ denied + unanswered > 0 \/ overlapped)
=============================================================================
