------------------------------- MODULE Search -------------------------------
(***************************************************************************)
(* The meter search (src/src/service/identify_area.rs): a client starts it *)
(* with a message that the dispatcher hands to a thread pool; the closure  *)
(* asks the module to register nodes, passes on the nodes it reports, and  *)
(* ends when the module reports the end, when a client stops the search or *)
(* when the module, asked after ten minutes without news, says so.  The    *)
(* closures, the reader thread and the agent share IdentifyAreaInfo: a     *)
(* state, one result and a list of reports.                                *)
(*                                                                         *)
(* The UART agent is used by what it promises (RequestService).  The pause *)
(* before a search is RouteCtrl's; a file upgrade, whose query of the      *)
(* running status has its timeout posted here, is FileUpgrade's.           *)
(***************************************************************************)
EXTENDS Integers, Sequences, FiniteSets, SequencesExt

CONSTANTS
  Searches,     \* clients' messages that start a search
  Stops,        \* clients' messages that stop it
  Threads,      \* ThreadPool::new(2)
  MaxReports,   \* bound: reports of nodes
  MaxQuiet,     \* bound: periods of ten minutes without news
  MaxStray      \* bound: timeouts of the running status query of a file upgrade

ASSUME SearchAssumption ==
  /\ Searches \cap Stops = {}
  /\ Threads # {}
  /\ MaxReports \in Nat /\ MaxQuiet \in Nat /\ MaxStray \in Nat

VARIABLES
  state,      \* IdentifyAreaInfo.state
  result,     \* IdentifyAreaInfo.result
  reports,    \* IdentifyAreaInfo.report_info
  pool,       \* closures that wait for a thread of the pool
  work,       \* what each thread does: its search and where it is
  uart,       \* requests with the UART agent, the first one is at the module
  reader,     \* the reader thread: "running", or "ended" by a panic
  searching,  \* the module searches
  asked,      \* messages sent by clients
  told,       \* history: what the client of a message was told
  reported,   \* history: the reports of the module, in order
  published,  \* history: the reports passed on to clients, in order
  confirmed,  \* history: searches that the module confirmed
  stray,      \* history: a result was posted that belongs to no search
  quiet,      \* number of periods without news
  overdue     \* number of timeouts of a file upgrade's query

vars == <<state, result, reports, pool, work, uart, reader, searching, asked, told,
          reported, published, confirmed, stray, quiet, overdue>>

State == {"Running", "Finished", "Canceled", "None"}
Result == {"none", "ok", "err"}
Free == [search |-> "none", at |-> "free"]
At(t, place) == work[t].at = place
Busy == {t \in Threads : work[t] # Free}

(* The values of the shared IdentifyAreaInfo, the threads and the line. *)
TypeOK ==
  /\ state \in State
  /\ result \in Result
  /\ reports \in Seq(1..MaxReports)
  /\ pool \in Seq(Searches)
  /\ work \in [Threads -> {Free} \cup [search : Searches, at : {"register", "loop", "status"}]]
  /\ uart \in Seq([for : Searches, what : {"register", "status"}] \cup [for : Stops, what : {"stop"}])
  /\ reader \in {"running", "ended"}
  /\ searching \in BOOLEAN
  /\ asked \subseteq Searches \cup Stops
  /\ told \in [Searches \cup Stops -> {"nothing", "success", "failure"}]
  /\ reported \in Seq(1..MaxReports) /\ published \in Seq(1..MaxReports)
  /\ confirmed \subseteq Searches
  /\ stray \in BOOLEAN
  /\ quiet \in 0..MaxQuiet
  /\ overdue \in 0..MaxStray

Init ==
  /\ state = "None"
  /\ result = "none"
  /\ reports = <<>>
  /\ pool = <<>>
  /\ work = [t \in Threads |-> Free]
  /\ uart = <<>>
  /\ reader = "running"
  /\ searching = FALSE
  /\ asked = {}
  /\ told = [m \in Searches \cup Stops |-> "nothing"]
  /\ reported = <<>>
  /\ published = <<>>
  /\ confirmed = {}
  /\ stray = FALSE
  /\ quiet = 0
  /\ overdue = 0

info == <<state, result, reports>>
history == <<reported, published, confirmed, stray>>

---------------------------------------------------------------------------
(* The dispatcher. *)

Tell(m, what) == told' = [told EXCEPT ![m] = what]

\* a request with a bad start time is refused, one without a pause is dropped silently
mqtt_active_slave_node_register(s) ==
  /\ s \notin asked
  /\ asked' = asked \cup {s}
  /\ \/ pool' = Append(pool, s) /\ UNCHANGED told
     \/ Tell(s, "failure") /\ UNCHANGED pool
     \/ UNCHANGED <<pool, told>>
  /\ UNCHANGED <<info, work, uart, reader, searching, history, quiet, overdue>>

mqtt_stop_slave_node_register(m) ==
  /\ m \notin asked
  /\ asked' = asked \cup {m}
  /\ uart' = Append(uart, [for |-> m, what |-> "stop"])
  /\ UNCHANGED <<info, pool, work, reader, searching, told, history, quiet, overdue>>

---------------------------------------------------------------------------
(* The closure on a thread of the pool, from one wait to the next. *)

Goes(t, s, place) == work' = [work EXCEPT ![t] = [search |-> s, at |-> place]]

\* mutant: a return that leaves the state as it is
EndsAsIs(t) == work' = [work EXCEPT ![t] = Free] /\ UNCHANGED state

\* every return of a search that began
Ends(t) == work' = [work EXCEPT ![t] = Free] /\ state' = "None"

\* mutant: the loop goes on whatever the state
LoopAgain(t) == Goes(t, work[t].search, "loop") /\ UNCHANGED state

\* the head of the loop
LoopHead(t) ==
  \/ state = "Running" /\ Goes(t, work[t].search, "loop") /\ UNCHANGED state
  \/ state # "Running" /\ Ends(t)

Begin(t) ==
  /\ work[t] = Free
  /\ pool # <<>>
  /\ pool' = Tail(pool)
  /\ LET s == Head(pool)
     IN \/ /\ state = "Running"
           /\ Tell(s, "failure")
           /\ UNCHANGED <<state, work, uart>>
        \/ /\ state # "Running"
           /\ state' = "Running"
           /\ uart' = Append(uart, [for |-> s, what |-> "register"])
           /\ Goes(t, s, "register")
           /\ UNCHANGED told
  /\ UNCHANGED <<result, reports, reader, searching, asked, history, quiet, overdue>>

\* the end of the first wait; the loop is not entered when the state has changed meanwhile
Registered(t) ==
  /\ At(t, "register")
  /\ result # "none"
  /\ result' = "none"
  /\ \/ result = "ok" /\ Tell(work[t].search, "success") /\ LoopHead(t)
     \/ result = "err" /\ Tell(work[t].search, "failure") /\ Ends(t)
  /\ UNCHANGED <<reports, pool, uart, reader, searching, asked, history, quiet, overdue>>

PassOn(t) ==
  /\ At(t, "loop")
  /\ reports # <<>>
  /\ published' = published \o reports
  /\ reports' = <<>>
  /\ LoopHead(t)
  /\ UNCHANGED <<result, pool, uart, reader, searching, asked, told, reported, confirmed,
                 stray, quiet, overdue>>

\* the dropped result may be the one that another search waits for
DropResult(t) ==
  /\ At(t, "loop")
  /\ reports = <<>>
  /\ result # "none"
  /\ result' = "none"
  /\ LoopHead(t)
  /\ UNCHANGED <<reports, pool, uart, reader, searching, asked, told, reported, published,
                 confirmed, stray, quiet, overdue>>

\* wait_timeout_while ran out
AskStatus(t) ==
  /\ At(t, "loop")
  /\ reports = <<>>
  /\ result = "none"
  /\ quiet < MaxQuiet
  /\ quiet' = quiet + 1
  /\ uart' = Append(uart, [for |-> work[t].search, what |-> "status"])
  /\ Goes(t, work[t].search, "status")
  /\ UNCHANGED <<info, pool, reader, searching, asked, told, history, overdue>>

StatusKnown(t) ==
  /\ At(t, "status")
  /\ result # "none"
  /\ result' = "none"
  /\ LoopHead(t)
  /\ UNCHANGED <<reports, pool, uart, reader, searching, asked, told, reported, published,
                 confirmed, stray, quiet, overdue>>

---------------------------------------------------------------------------
(* The ends of the requests, by the reader thread or the agent. *)

First(what) == uart # <<>> /\ Head(uart).what = what
Message == Head(uart).for

\* uart_active_slave_node_register
RegisterConfirmed ==
  /\ First("register") /\ reader = "running"
  /\ uart' = Tail(uart)
  /\ result' = "ok"
  /\ searching' = TRUE
  /\ confirmed' = confirmed \cup {Message}
  /\ UNCHANGED <<state, reports, pool, work, reader, asked, told, reported, published,
                 stray, quiet, overdue>>

\* mutant: the answer is not looked at
RegisterDenialIgnored ==
  /\ First("register") /\ reader = "running"
  /\ uart' = Tail(uart)
  /\ result' = "ok"
  /\ UNCHANGED <<state, reports, pool, work, reader, searching, asked, told, history, quiet, overdue>>

RegisterDenied ==
  /\ First("register") /\ reader = "running"
  /\ uart' = Tail(uart)
  /\ result' = "err"
  /\ UNCHANGED <<state, reports, pool, work, reader, searching, asked, told, history, quiet, overdue>>

\* try_from(message.frame)? fails: nobody is notified
RegisterGarbled ==
  /\ First("register") /\ reader = "running"
  /\ uart' = Tail(uart)
  /\ UNCHANGED <<info, pool, work, reader, searching, asked, told, history, quiet, overdue>>

\* uart_active_slave_node_register_timeout; the module may search all the same
RegisterTimeout ==
  /\ First("register")
  /\ uart' = Tail(uart)
  /\ result' = "err"
  /\ searching' \in {searching, TRUE}
  /\ UNCHANGED <<state, reports, pool, work, reader, asked, told, history, quiet, overdue>>

\* uart_stop_slave_node_register: the state is changed before the answer is looked at
StopAnswered ==
  /\ First("stop") /\ reader = "running"
  /\ uart' = Tail(uart)
  /\ result' = "ok"
  /\ state' = "Canceled"
  /\ stray' = TRUE
  /\ \/ Tell(Message, "success") /\ searching' = FALSE
     \/ Tell(Message, "failure") /\ UNCHANGED searching
     \/ UNCHANGED <<told, searching>>
  /\ UNCHANGED <<reports, pool, work, reader, asked, reported, published, confirmed, quiet, overdue>>

\* default_timeout_handler
StopTimeout ==
  /\ First("stop")
  /\ uart' = Tail(uart)
  /\ Tell(Message, "failure")
  /\ UNCHANGED <<info, pool, work, reader, searching, asked, history, quiet, overdue>>

\* the origin key's function is no RouteQuery: expect() ends the reader
StatusAnswered ==
  /\ First("status") /\ reader = "running"
  /\ uart' = Tail(uart)
  /\ reader' = "ended"
  /\ UNCHANGED <<info, pool, work, searching, asked, told, history, quiet, overdue>>

StatusTimeout ==
  /\ First("status")
  /\ uart' = Tail(uart)
  /\ result' = "err"
  /\ stray' = TRUE
  /\ UNCHANGED <<state, reports, pool, work, reader, searching, asked, told, reported,
                 published, confirmed, quiet, overdue>>

---------------------------------------------------------------------------
(* The module's reports, and the timeout of another service's query. *)

\* mutant: a report replaces the ones before it
ReportReplaces ==
  /\ reader = "running"
  /\ searching
  /\ Len(reported) < MaxReports
  /\ LET r == Len(reported) + 1
     IN reported' = Append(reported, r) /\ reports' = <<r>>
  /\ UNCHANGED <<state, result, pool, work, uart, reader, searching, asked, told, published,
                 confirmed, stray, quiet, overdue>>

uart_slave_node_info_and_device_report ==
  /\ reader = "running"
  /\ searching
  /\ Len(reported) < MaxReports
  /\ LET r == Len(reported) + 1
     IN reported' = Append(reported, r) /\ reports' = Append(reports, r)
  /\ UNCHANGED <<state, result, pool, work, uart, reader, searching, asked, told, published,
                 confirmed, stray, quiet, overdue>>

uart_slave_work_status_report ==
  /\ reader = "running"
  /\ searching
  /\ searching' = FALSE
  /\ result' = "ok"
  /\ state' = "Finished"
  /\ stray' = TRUE
  /\ UNCHANGED <<reports, pool, work, uart, reader, asked, told, reported, published,
                 confirmed, quiet, overdue>>

\* todo!()
uart_slave_node_info_report ==
  /\ reader = "running"
  /\ searching
  /\ reader' = "ended"
  /\ UNCHANGED <<info, pool, work, uart, searching, asked, told, history, quiet, overdue>>

UpgradeStatusTimeout ==
  /\ overdue < MaxStray
  /\ overdue' = overdue + 1
  /\ stray' = TRUE
  /\ result' = "err"
  /\ UNCHANGED <<state, reports, pool, work, uart, reader, searching, asked, told, reported,
                 published, confirmed, quiet>>

Closure(t) ==
  \/ Begin(t)
  \/ Registered(t)
  \/ PassOn(t)
  \/ DropResult(t)
  \/ StatusKnown(t)

RequestEnds ==
  \/ RegisterConfirmed \/ RegisterDenied \/ RegisterGarbled \/ RegisterTimeout
  \/ StopAnswered \/ StopTimeout
  \/ StatusAnswered \/ StatusTimeout

Next ==
  \/ \E s \in Searches : mqtt_active_slave_node_register(s)
  \/ \E m \in Stops : mqtt_stop_slave_node_register(m)
  \/ \E t \in Threads : Closure(t) \/ AskStatus(t)
  \/ RequestEnds
  \/ uart_slave_node_info_and_device_report
  \/ uart_slave_work_status_report
  \/ uart_slave_node_info_report
  \/ UpgradeStatusTimeout

Spec ==
  /\ Init
  /\ [][Next]_vars
  /\ \A t \in Threads : WF_vars(Closure(t))
  /\ WF_vars(RequestEnds)

---------------------------------------------------------------------------
(* Properties. *)

(* The state is Running only while a closure is at work: otherwise every   *)
(* later search would be refused as already running (all returns of the    *)
(* closure reset the state).                                               *)
RunningHasSearcher == state = "Running" => Busy # {}

(* Every node that the module reports is passed on once and in order, or   *)
(* is still in the list, across searches that end, overlap or fail.        *)
ReportsAreKept == published \o reports = reported

(* A client is told that its search began only if the module confirmed     *)
(* that search, unless a stop, a report of the end or the timeout of a     *)
(* status query put a result in the mailbox that belongs to no search.     *)
SuccessIsEarned ==
  ~ stray => \A s \in Searches : told[s] = "success" => s \in confirmed

(* A search that the module or a client ended does end: the state leaves   *)
(* Finished or Canceled as long as a closure is there to see it.           *)
EndIsNoticed ==
  (state \in {"Finished", "Canceled"} /\ Busy # {}) ~> (state \in {"None", "Running"})

=============================================================================
