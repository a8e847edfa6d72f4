---------------------------- MODULE SearchProofs ----------------------------
(***************************************************************************)
(* Proofs about Search for every set of clients' messages, every size of   *)
(* the thread pool and all bounds: the shared state never claims a search  *)
(* that no closure runs, no report of a node is lost, and success is told  *)
(* only of a search that the module confirmed.                             *)
(***************************************************************************)
EXTENDS Search, SequenceTheorems, TLAPS

----------------------------------------------------------------------------
(* The inductive invariant. *)

Registers(i) == uart[i].what = "register"

\* As long as every result in the mailbox belongs to a search, there is one search at a
\* time: the state is Running while its closure is at work.
OneSearcher ==
  /\ \A t, u \in Busy : t = u
  /\ Busy # {} => state = "Running"

\* A request to register is the only one, and its closure waits for it at an empty mailbox.
RegisterIsAwaited ==
  /\ \A i \in 1 .. Len(uart) : Registers(i) =>
       /\ result = "none"
       /\ \E t \in Threads : work[t] = [search |-> uart[i].for, at |-> "register"]
  /\ \A i, j \in 1 .. Len(uart) : Registers(i) /\ Registers(j) => i = j

\* A result in the mailbox is that of the search whose closure waits for it.
ResultHasOwner ==
  /\ result # "none" => \E t \in Threads : At(t, "register")
  /\ result = "ok" => \A t \in Threads : At(t, "register") => work[t].search \in confirmed

EarnedInv ==
  ~ stray => OneSearcher /\ RegisterIsAwaited /\ ResultHasOwner

IInv ==
  /\ TypeOK
  /\ RunningHasSearcher
  /\ ReportsAreKept
  /\ EarnedInv
  /\ SuccessIsEarned

----------------------------------------------------------------------------
(* Facts about sequences. *)

\* Passing on the whole list, and putting a report behind it, keep what was passed on
\* followed by the list the same as what was reported.
LEMMA ListFacts ==
  ASSUME NEW S, NEW p \in Seq(S), NEW q \in Seq(S), NEW x \in S
  PROVE  /\ p \o q \in Seq(S)
         /\ (p \o q) \o << >> = p \o q
         /\ p \o Append(q, x) = Append(p \o q, x)
  OBVIOUS

----------------------------------------------------------------------------
(* Type correctness. *)

Places == {"register", "loop", "status"}
Requests == [for : Searches, what : {"register", "status"}] \cup [for : Stops, what : {"stop"}]

\* A thread that waits somewhere has a search.
LEMMA WorkFacts ==
  ASSUME TypeOK, NEW t \in Threads
  PROVE  /\ work[t] = Free \/ (work[t].search \in Searches /\ work[t].at \in Places)
         /\ work[t] # Free <=> work[t].at \in Places
         /\ work[t] # Free => work[t] = [search |-> work[t].search, at |-> work[t].at]
<1>1. work[t] \in {Free} \cup [search : Searches, at : Places]
  BY DEF TypeOK, Places
<1>2. CASE work[t] = Free
  BY <1>2 DEF Free, Places
<1>3. CASE work[t] \in [search : Searches, at : Places]
  BY <1>3 DEF Free, Places
<1> QED
  BY <1>1, <1>2, <1>3

\* A thread at one of the closure's waits has a search.
LEMMA AtWork ==
  ASSUME TypeOK, NEW t \in Threads, NEW p \in Places, At(t, p)
  PROVE  work[t] # Free /\ work[t].search \in Searches
  BY WorkFacts DEF At, Free, Places

\* Where the closure goes keeps the type of what the threads do.
LEMMA GoesFacts ==
  ASSUME TypeOK, NEW t \in Threads, NEW s \in Searches, NEW p \in Places
  PROVE  [work EXCEPT ![t] = [search |-> s, at |-> p]]
           \in [Threads -> {Free} \cup [search : Searches, at : Places]]
  BY DEF TypeOK, Places

\* The head of the loop goes on with its search while the state is Running, and otherwise
\* ends it and resets the state; the other threads are left alone.
LEMMA LoopHeadFacts ==
  ASSUME TypeOK, NEW t \in Threads, work[t] # Free, LoopHead(t)
  PROVE  /\ state' \in State
         /\ work' \in [Threads -> {Free} \cup [search : Searches, at : Places]]
         /\ \A u \in Threads \ {t} : work'[u] = work[u]
         /\ \/ state = "Running" /\ state' = state
               /\ work'[t] = [search |-> work[t].search, at |-> "loop"]
            \/ state # "Running" /\ state' = "None" /\ work'[t] = Free
<1>1. work[t].search \in Searches
  BY WorkFacts
<1>2. CASE state = "Running" /\ Goes(t, work[t].search, "loop") /\ UNCHANGED state
  BY <1>1, <1>2, GoesFacts DEF Goes, TypeOK, Places, State
<1>3. CASE state # "Running" /\ Ends(t)
  BY <1>3 DEF Ends, TypeOK, Places, State
<1> QED
  BY <1>2, <1>3 DEF LoopHead

\* Every step of a client, a closure, the reader or the agent keeps the types.
LEMMA TypeStep == TypeOK /\ [Next]_vars => TypeOK'
<1> SUFFICES ASSUME TypeOK, [Next]_vars PROVE TypeOK'
  OBVIOUS
<1> USE DEF info, history
<1>1. ASSUME NEW s \in Searches, mqtt_active_slave_node_register(s)
      PROVE  TypeOK'
  <2>1. told' \in [Searches \cup Stops -> {"nothing", "success", "failure"}]
    <3>1. s \in Searches \cup Stops
      OBVIOUS
    <3>2. told' = told \/ told' = [told EXCEPT ![s] = "failure"]
      BY <1>1 DEF mqtt_active_slave_node_register, Tell
    <3> QED
      BY <3>1, <3>2 DEF TypeOK
  <2>2. pool' \in Seq(Searches)
    <3>1. pool' = pool \/ pool' = Append(pool, s)
      BY <1>1 DEF mqtt_active_slave_node_register
    <3>2. pool \in Seq(Searches)
      BY DEF TypeOK
    <3>3. Append(pool, s) \in Seq(Searches)
      BY <3>2, AppendProperties
    <3> QED
      BY <3>1, <3>2, <3>3
  <2> QED
    BY <1>1, <2>1, <2>2 DEF mqtt_active_slave_node_register, TypeOK
<1>2. ASSUME NEW m \in Stops, mqtt_stop_slave_node_register(m)
      PROVE  TypeOK'
  BY <1>2 DEF mqtt_stop_slave_node_register, TypeOK
<1>3. ASSUME NEW t \in Threads, Begin(t)
      PROVE  TypeOK'
  <2>1. Head(pool) \in Searches /\ Tail(pool) \in Seq(Searches)
    BY <1>3, HeadTailProperties DEF Begin, TypeOK
  <2>2. [work EXCEPT ![t] = [search |-> Head(pool), at |-> "register"]]
          \in [Threads -> {Free} \cup [search : Searches, at : {"register", "loop", "status"}]]
    BY <2>1 DEF TypeOK
  <2>3. Append(uart, [for |-> Head(pool), what |-> "register"]) \in Seq(Requests)
    BY <2>1 DEF TypeOK, Requests
  <2> QED
    BY <1>3, <2>1, <2>2, <2>3 DEF Begin, Goes, Tell, TypeOK, State, Requests
<1>4. ASSUME NEW t \in Threads, Registered(t)
      PROVE  TypeOK'
  <2>1. work[t].search \in Searches /\ work[t] # Free
    BY <1>4, AtWork DEF Registered, Places
  <2>2. state' \in State /\ work' \in [Threads -> {Free} \cup [search : Searches, at : Places]]
    BY <1>4, <2>1, LoopHeadFacts DEF Registered, Ends, State, TypeOK, Places
  <2> QED
    BY <1>4, <2>1, <2>2 DEF Registered, Tell, TypeOK, Places, Result
<1>5. ASSUME NEW t \in Threads, PassOn(t)
      PROVE  TypeOK'
  <2>1. work[t] # Free
    BY <1>5 DEF PassOn, At, Free
  <2>2. published' \in Seq(1 .. MaxReports)
    BY <1>5, ConcatProperties DEF PassOn, TypeOK
  <2>3. state' \in State /\ work' \in [Threads -> {Free} \cup [search : Searches, at : Places]]
    BY <1>5, <2>1, LoopHeadFacts DEF PassOn
  <2> QED
    BY <1>5, <2>2, <2>3 DEF PassOn, TypeOK, Places
<1>6. ASSUME NEW t \in Threads, DropResult(t) \/ StatusKnown(t)
      PROVE  TypeOK'
  <2>1. work[t] # Free
    BY <1>6 DEF DropResult, StatusKnown, At, Free
  <2> QED
    BY <1>6, <2>1, LoopHeadFacts DEF DropResult, StatusKnown, TypeOK, Places, Result
<1>7. ASSUME NEW t \in Threads, AskStatus(t)
      PROVE  TypeOK'
  <2>1. work[t].search \in Searches
    BY <1>7, AtWork DEF AskStatus, Places
  <2>2. uart' \in Seq(Requests)
    BY <1>7, <2>1 DEF AskStatus, TypeOK, Requests
  <2> QED
    BY <1>7, <2>1, <2>2, GoesFacts, SearchAssumption DEF AskStatus, Goes, TypeOK, Places, Requests
<1>8. CASE RequestEnds
  <2>1. uart # << >> /\ uart' = Tail(uart)
    BY <1>8 DEF RequestEnds, RegisterConfirmed, RegisterDenied, RegisterGarbled, RegisterTimeout,
       StopAnswered, StopTimeout, StatusAnswered, StatusTimeout, First
  <2>2. uart' \in Seq(Requests) /\ Head(uart) \in Requests
    BY <2>1, HeadTailProperties DEF TypeOK, Requests
  <2>3. First("register") => Message \in Searches
    BY <2>1, <2>2 DEF First, Message, Requests
  <2>4. First("stop") => Message \in Stops
    BY <2>1, <2>2 DEF First, Message, Requests
  <2>5. CASE RegisterConfirmed \/ RegisterDenied \/ RegisterGarbled \/ RegisterTimeout
    BY <2>2, <2>3, <2>5 DEF RegisterConfirmed, RegisterDenied, RegisterGarbled, RegisterTimeout,
       TypeOK, Requests, Result
  <2>6. CASE StopAnswered \/ StopTimeout
    BY <2>2, <2>4, <2>6 DEF StopAnswered, StopTimeout, Tell, TypeOK, Requests, Result, State
  <2>7. CASE StatusAnswered \/ StatusTimeout
    BY <2>2, <2>7 DEF StatusAnswered, StatusTimeout, TypeOK, Requests, Result
  <2> QED
    BY <1>8, <2>5, <2>6, <2>7 DEF RequestEnds
<1>9. CASE uart_slave_node_info_and_device_report
  <2>1. Len(reported) + 1 \in 1 .. MaxReports
    BY <1>9, SearchAssumption DEF uart_slave_node_info_and_device_report, TypeOK
  <2> QED
    BY <1>9, <2>1 DEF uart_slave_node_info_and_device_report, TypeOK
<1>10. CASE uart_slave_work_status_report \/ uart_slave_node_info_report
  BY <1>10 DEF uart_slave_work_status_report, uart_slave_node_info_report, TypeOK, State, Result
<1>11. CASE UpgradeStatusTimeout
  BY <1>11, SearchAssumption DEF UpgradeStatusTimeout, TypeOK, Result
<1>12. CASE UNCHANGED vars
  BY <1>12 DEF vars, TypeOK
<1> QED
  BY <1>1, <1>2, <1>3, <1>4, <1>5, <1>6, <1>7, <1>8, <1>9, <1>10, <1>11, <1>12
  DEF Next, Closure

----------------------------------------------------------------------------
(* The state and the reports. *)

\* The initial state satisfies the invariant: nothing runs and nothing was reported.
LEMMA InitInv == Init => IInv
<1> SUFFICES ASSUME Init PROVE IInv
  OBVIOUS
<1>1. TypeOK
  <2>1. told \in [Searches \cup Stops -> {"nothing", "success", "failure"}]
    BY DEF Init
  <2>2. work \in [Threads -> {Free} \cup [search : Searches, at : {"register", "loop", "status"}]]
    BY DEF Init
  <2>3. /\ reports \in Seq(1 .. MaxReports) /\ reported \in Seq(1 .. MaxReports)
        /\ published \in Seq(1 .. MaxReports)
    BY EmptySeq DEF Init
  <2>4. pool \in Seq(Searches) /\ uart \in Seq(Requests)
    BY EmptySeq DEF Init
  <2>5. /\ state \in State /\ result \in Result /\ reader = "running"
        /\ searching = FALSE /\ asked = {} /\ confirmed = {} /\ stray = FALSE
        /\ quiet \in 0 .. MaxQuiet /\ overdue \in 0 .. MaxStray
    BY SearchAssumption DEF Init, State, Result
  <2> QED
    BY <2>1, <2>2, <2>3, <2>4, <2>5 DEF TypeOK, Requests
<1>2. Busy = {}
  BY DEF Init, Busy
<1> QED
  BY <1>1, <1>2 DEF Init, IInv, RunningHasSearcher, ReportsAreKept, EarnedInv, OneSearcher,
     RegisterIsAwaited, ResultHasOwner, SuccessIsEarned, At, Free, Registers

\* The state becomes Running only with a closure at work, and a closure that returns resets
\* it.
LEMMA RunningStep == TypeOK /\ RunningHasSearcher /\ [Next]_vars => RunningHasSearcher'
<1> SUFFICES ASSUME TypeOK, RunningHasSearcher, [Next]_vars, state' = "Running"
             PROVE  Busy' # {}
  BY DEF RunningHasSearcher
<1> USE DEF info
<1>1. ASSUME NEW t \in Threads, Begin(t)
      PROVE  Busy' # {}
  <2>1. CASE UNCHANGED <<state, work, uart>>
    BY <2>1 DEF RunningHasSearcher, Busy
  <2>2. CASE Goes(t, Head(pool), "register")
    <3>1. work'[t] = [search |-> Head(pool), at |-> "register"]
      BY <2>2 DEF Goes, TypeOK
    <3> QED
      BY <3>1 DEF Busy, Free
  <2> QED
    BY <1>1, <2>1, <2>2 DEF Begin
<1>2. ASSUME NEW t \in Threads, Registered(t) \/ PassOn(t) \/ DropResult(t) \/ StatusKnown(t)
      PROVE  Busy' # {}
  <2>1. work[t] # Free
    BY <1>2 DEF Registered, PassOn, DropResult, StatusKnown, At, Free
  <2>2. LoopHead(t)
    BY <1>2 DEF Registered, PassOn, DropResult, StatusKnown, Ends
  <2>3. work'[t] = [search |-> work[t].search, at |-> "loop"]
    BY <2>1, <2>2, LoopHeadFacts
  <2> QED
    BY <2>3 DEF Busy, Free
<1>3. ASSUME NEW t \in Threads, AskStatus(t)
      PROVE  Busy' # {}
  <2>1. work'[t] = [search |-> work[t].search, at |-> "status"]
    BY <1>3 DEF AskStatus, Goes, TypeOK
  <2> QED
    BY <2>1 DEF Busy, Free
<1>4. CASE UNCHANGED <<work, state>> \/ (UNCHANGED work /\ state' # "Running")
  BY <1>4 DEF RunningHasSearcher, Busy
<1>5. ASSUME \/ \E s \in Searches : mqtt_active_slave_node_register(s)
             \/ \E m \in Stops : mqtt_stop_slave_node_register(m)
             \/ RequestEnds
             \/ uart_slave_node_info_and_device_report \/ uart_slave_work_status_report
             \/ uart_slave_node_info_report \/ UpgradeStatusTimeout
             \/ UNCHANGED vars
      PROVE  UNCHANGED <<work, state>> \/ (UNCHANGED work /\ state' # "Running")
  BY <1>5 DEF mqtt_active_slave_node_register, mqtt_stop_slave_node_register, RequestEnds,
     RegisterConfirmed, RegisterDenied, RegisterGarbled, RegisterTimeout, StopAnswered, StopTimeout,
     StatusAnswered, StatusTimeout, uart_slave_node_info_and_device_report,
     uart_slave_work_status_report, uart_slave_node_info_report, UpgradeStatusTimeout, vars
<1> QED
  BY <1>1, <1>2, <1>3, <1>4, <1>5 DEF Next, Closure

\* A report goes behind the list, and the list leaves it as a whole.
LEMMA ReportsStep == TypeOK /\ ReportsAreKept /\ [Next]_vars => ReportsAreKept'
<1> SUFFICES ASSUME TypeOK, ReportsAreKept, [Next]_vars PROVE ReportsAreKept'
  OBVIOUS
<1> USE DEF info, history
<1>1. ASSUME NEW t \in Threads, PassOn(t)
      PROVE  ReportsAreKept'
  <2>1. (published \o reports) \o << >> = published \o reports
    BY ConcatProperties, ConcatEmptySeq DEF TypeOK
  <2> QED
    BY <1>1, <2>1 DEF PassOn, ReportsAreKept
<1>2. CASE uart_slave_node_info_and_device_report
  <2>1. Len(reported) + 1 \in 1 .. MaxReports
    BY <1>2, SearchAssumption DEF uart_slave_node_info_and_device_report, TypeOK
  <2>2. published \o Append(reports, Len(reported) + 1) = Append(published \o reports, Len(reported) + 1)
    BY <2>1, ListFacts DEF TypeOK
  <2> QED
    BY <1>2, <2>2 DEF uart_slave_node_info_and_device_report, ReportsAreKept
<1>3. CASE UNCHANGED <<reports, reported, published>>
  BY <1>3 DEF ReportsAreKept
<1>4. ASSUME \/ \E t \in Threads : Begin(t) \/ Registered(t) \/ DropResult(t) \/ StatusKnown(t) \/ AskStatus(t)
             \/ \E s \in Searches : mqtt_active_slave_node_register(s)
             \/ \E m \in Stops : mqtt_stop_slave_node_register(m)
             \/ RequestEnds
             \/ uart_slave_work_status_report
             \/ uart_slave_node_info_report \/ UpgradeStatusTimeout
             \/ UNCHANGED vars
      PROVE  UNCHANGED <<reports, reported, published>>
  BY <1>4 DEF Begin, Registered, DropResult, StatusKnown, AskStatus,
     mqtt_active_slave_node_register, mqtt_stop_slave_node_register, RequestEnds,
     RegisterConfirmed, RegisterDenied, RegisterGarbled, RegisterTimeout, StopAnswered, StopTimeout,
     StatusAnswered, StatusTimeout, uart_slave_work_status_report, uart_slave_node_info_report,
     UpgradeStatusTimeout, vars
<1> QED
  BY <1>1, <1>2, <1>3, <1>4 DEF Next, Closure

----------------------------------------------------------------------------
(* The owner of a result. *)

\* As long as no stray result was posted: requests and results keep their search.
LEMMA EarnedStep == IInv /\ [Next]_vars => EarnedInv' /\ SuccessIsEarned'
<1> SUFFICES ASSUME TypeOK, EarnedInv, SuccessIsEarned, [Next]_vars, ~ stray'
             PROVE  OneSearcher' /\ RegisterIsAwaited' /\ ResultHasOwner' /\ SuccessIsEarned'
  BY DEF IInv, EarnedInv, SuccessIsEarned
<1> USE DEF info, history
<1>0. /\ ~ stray
      /\ OneSearcher /\ RegisterIsAwaited /\ ResultHasOwner
      /\ \A s \in Searches : told[s] = "success" => s \in confirmed
  <2>1. ~ stray
    BY DEF Next, Closure, RequestEnds, mqtt_active_slave_node_register, mqtt_stop_slave_node_register,
       Begin, Registered, PassOn, DropResult, StatusKnown, AskStatus,
       RegisterConfirmed, RegisterDenied, RegisterGarbled, RegisterTimeout, StopAnswered, StopTimeout,
       StatusAnswered, StatusTimeout, uart_slave_node_info_and_device_report,
       uart_slave_work_status_report, uart_slave_node_info_report, UpgradeStatusTimeout, vars
  <2> QED
    BY <2>1 DEF EarnedInv, SuccessIsEarned
\* a stop joins the queue, a search joins the pool or is refused
<1>1. ASSUME NEW s \in Searches, mqtt_active_slave_node_register(s)
      PROVE  OneSearcher' /\ RegisterIsAwaited' /\ ResultHasOwner' /\ SuccessIsEarned'
  <2>1. told' = told \/ told' = [told EXCEPT ![s] = "failure"]
    BY <1>1 DEF mqtt_active_slave_node_register, Tell
  <2>2. SuccessIsEarned'
    <3>1. confirmed' = confirmed
      BY <1>1 DEF mqtt_active_slave_node_register
    <3>2. \A x \in Searches : told'[x] = "success" => told[x] = "success"
      BY <2>1 DEF TypeOK
    <3> QED
      BY <1>0, <3>1, <3>2 DEF SuccessIsEarned
  <2>3. UNCHANGED <<work, state, uart, result, confirmed>>
    BY <1>1 DEF mqtt_active_slave_node_register
  <2> QED
    BY <1>0, <2>2, <2>3 DEF OneSearcher, RegisterIsAwaited, ResultHasOwner, Busy, At, Registers
<1>2. ASSUME NEW m \in Stops, mqtt_stop_slave_node_register(m)
      PROVE  OneSearcher' /\ RegisterIsAwaited' /\ ResultHasOwner' /\ SuccessIsEarned'
  <2>1. UNCHANGED <<work, state, result, confirmed, told>>
    BY <1>2 DEF mqtt_stop_slave_node_register
  <2>2. RegisterIsAwaited'
    <3>1. /\ Len(uart') = Len(uart) + 1 /\ Len(uart) \in Nat
          /\ \A i \in 1 .. Len(uart) : uart'[i] = uart[i]
          /\ uart'[Len(uart) + 1] = [for |-> m, what |-> "stop"]
      BY <1>2, AppendProperties DEF mqtt_stop_slave_node_register, TypeOK
    <3>2. \A i \in 1 .. Len(uart') : Registers(i)' => i \in 1 .. Len(uart) /\ Registers(i)
      BY <3>1 DEF Registers
    <3> QED
      BY <1>0, <2>1, <3>1, <3>2 DEF RegisterIsAwaited
  <2> QED
    BY <1>0, <2>1, <2>2 DEF OneSearcher, ResultHasOwner, SuccessIsEarned, Busy, At
\* the closure
<1>3. ASSUME NEW t \in Threads, work[t] # Free
      PROVE  state = "Running" /\ \A u \in Threads \ {t} : work[u] = Free
  BY <1>0, <1>3 DEF OneSearcher, Busy
<1>4. ASSUME \A t \in Threads : ~ At(t, "register")
      PROVE  result = "none" /\ \A i \in 1 .. Len(uart) : ~ Registers(i)
  <2>1. result = "none"
    BY <1>0, <1>4 DEF ResultHasOwner
  <2>2. ASSUME NEW i \in 1 .. Len(uart), Registers(i)
        PROVE  FALSE
    <3>1. PICK t \in Threads : work[t] = [search |-> uart[i].for, at |-> "register"]
      BY <1>0, <2>2 DEF RegisterIsAwaited
    <3> QED
      BY <1>4, <3>1 DEF At
  <2> QED
    BY <2>1, <2>2
<1>5. ASSUME NEW t \in Threads, At(t, "loop") \/ At(t, "status")
      PROVE  /\ work[t] # Free
             /\ result = "none" /\ \A i \in 1 .. Len(uart) : ~ Registers(i)
  <2>1. work[t] # Free
    BY <1>5 DEF At, Free
  <2>2. \A u \in Threads : ~ At(u, "register")
    BY <1>3, <1>5, <2>1 DEF At, Free
  <2> QED
    BY <1>4, <2>1, <2>2
<1>6. ASSUME NEW t \in Threads, Begin(t)
      PROVE  OneSearcher' /\ RegisterIsAwaited' /\ ResultHasOwner' /\ SuccessIsEarned'
  <2>1. Head(pool) \in Searches
    BY <1>6, HeadTailProperties DEF Begin, TypeOK
  <2>2. CASE state = "Running" /\ Tell(Head(pool), "failure") /\ UNCHANGED <<state, work, uart>>
    <3>1. UNCHANGED <<work, state, uart, result, confirmed>>
      BY <1>6, <2>2 DEF Begin
    <3>2. \A x \in Searches : told'[x] = "success" => told[x] = "success"
      BY <2>1, <2>2 DEF TypeOK, Tell
    <3> QED
      BY <1>0, <3>1, <3>2 DEF OneSearcher, RegisterIsAwaited, ResultHasOwner, SuccessIsEarned,
         Busy, At, Registers
  <2>3. CASE /\ state # "Running"
             /\ state' = "Running"
             /\ uart' = Append(uart, [for |-> Head(pool), what |-> "register"])
             /\ Goes(t, Head(pool), "register")
             /\ UNCHANGED told
    <3>1. \A u \in Threads : work[u] = Free
      BY <1>3, <2>3
    <3>2. result = "none" /\ \A i \in 1 .. Len(uart) : ~ Registers(i)
      BY <1>4, <3>1 DEF At, Free
    <3>3. /\ work'[t] = [search |-> Head(pool), at |-> "register"]
          /\ \A u \in Threads \ {t} : work'[u] = Free
      BY <2>3, <3>1 DEF Goes, TypeOK
    <3>4. result' = "none" /\ confirmed' = confirmed /\ told' = told
      BY <1>6, <2>3, <3>2 DEF Begin
    <3>5. [for |-> Head(pool), what |-> "register"] \in Requests
      BY <2>1 DEF Requests
    <3>6. /\ Len(uart') = Len(uart) + 1 /\ Len(uart) \in Nat
          /\ \A i \in 1 .. Len(uart) : uart'[i] = uart[i]
          /\ uart'[Len(uart) + 1] = [for |-> Head(pool), what |-> "register"]
      BY <2>3, <3>5, AppendProperties DEF TypeOK, Requests
    <3>7. \A i \in 1 .. Len(uart') : Registers(i)' => i = Len(uart) + 1
      BY <3>2, <3>6 DEF Registers
    <3>8. RegisterIsAwaited'
      BY <3>3, <3>4, <3>6, <3>7 DEF RegisterIsAwaited
    <3>9. OneSearcher'
      BY <2>3, <3>3 DEF OneSearcher, Busy
    <3> QED
      BY <1>0, <3>4, <3>8, <3>9 DEF ResultHasOwner, SuccessIsEarned
  <2> QED
    BY <1>6, <2>2, <2>3 DEF Begin
<1>7. ASSUME NEW t \in Threads, Registered(t)
      PROVE  OneSearcher' /\ RegisterIsAwaited' /\ ResultHasOwner' /\ SuccessIsEarned'
  <2>1. work[t] # Free /\ work[t].search \in Searches
    BY <1>7, AtWork DEF Registered, Places
  <2>2. state = "Running" /\ \A u \in Threads \ {t} : work[u] = Free
    BY <1>3, <2>1
  <2>3. \A i \in 1 .. Len(uart) : ~ Registers(i)
    BY <1>0, <1>7 DEF Registered, RegisterIsAwaited
  <2>4. uart' = uart /\ result' = "none" /\ confirmed' = confirmed
    BY <1>7 DEF Registered
  <2>5. RegisterIsAwaited' /\ ResultHasOwner'
    BY <2>3, <2>4 DEF RegisterIsAwaited, ResultHasOwner, Registers
  <2>6. CASE result = "ok" /\ Tell(work[t].search, "success") /\ LoopHead(t)
    <3>1. work[t].search \in confirmed
      BY <1>0, <1>7, <2>6 DEF Registered, ResultHasOwner
    <3>2. \A x \in Searches : told'[x] = "success" => told[x] = "success" \/ x = work[t].search
      BY <2>6 DEF Tell, TypeOK
    <3>3. OneSearcher'
      BY <2>1, <2>2, <2>6, LoopHeadFacts DEF OneSearcher, Busy
    <3> QED
      BY <1>0, <2>4, <2>5, <3>1, <3>2, <3>3 DEF SuccessIsEarned
  <2>7. CASE result = "err" /\ Tell(work[t].search, "failure") /\ Ends(t)
    <3>1. \A x \in Searches : told'[x] = "success" => told[x] = "success"
      BY <2>1, <2>7 DEF Tell, TypeOK
    <3>2. \A u \in Threads : work'[u] = Free
      BY <2>2, <2>7 DEF Ends, TypeOK
    <3> QED
      BY <1>0, <2>4, <2>5, <3>1, <3>2 DEF SuccessIsEarned, OneSearcher, Busy
  <2> QED
    BY <1>7, <2>6, <2>7 DEF Registered
<1>8. ASSUME NEW t \in Threads, PassOn(t)
      PROVE  OneSearcher' /\ RegisterIsAwaited' /\ ResultHasOwner' /\ SuccessIsEarned'
  <2>1. work[t] # Free /\ result = "none" /\ \A i \in 1 .. Len(uart) : ~ Registers(i)
    BY <1>5, <1>8 DEF PassOn
  <2>2. state = "Running" /\ \A u \in Threads \ {t} : work[u] = Free
    BY <1>3, <2>1
  <2>3. UNCHANGED <<uart, result, told, confirmed>>
    BY <1>8 DEF PassOn
  <2>4. OneSearcher'
    BY <1>8, <2>1, <2>2, LoopHeadFacts DEF PassOn, OneSearcher, Busy
  <2> QED
    BY <1>0, <2>1, <2>3, <2>4 DEF RegisterIsAwaited, ResultHasOwner, SuccessIsEarned, Registers
<1>9. ASSUME NEW t \in Threads, DropResult(t) \/ StatusKnown(t)
      PROVE  FALSE
  BY <1>5, <1>9 DEF DropResult, StatusKnown
<1>10. ASSUME NEW t \in Threads, AskStatus(t)
       PROVE  OneSearcher' /\ RegisterIsAwaited' /\ ResultHasOwner' /\ SuccessIsEarned'
  <2>1. work[t] # Free /\ result = "none" /\ \A i \in 1 .. Len(uart) : ~ Registers(i)
    BY <1>5, <1>10 DEF AskStatus
  <2>2. state = "Running" /\ \A u \in Threads \ {t} : work[u] = Free
    BY <1>3, <2>1
  <2>3. UNCHANGED <<state, result, told, confirmed>>
    BY <1>10 DEF AskStatus
  <2>4. \A u \in Threads \ {t} : work'[u] = Free
    BY <1>10, <2>2 DEF AskStatus, Goes, TypeOK
  <2>5. [for |-> work[t].search, what |-> "status"] \in Requests
    BY <1>10, AtWork DEF AskStatus, Places, Requests
  <2>6. /\ Len(uart') = Len(uart) + 1 /\ Len(uart) \in Nat
        /\ \A i \in 1 .. Len(uart) : uart'[i] = uart[i]
        /\ uart'[Len(uart) + 1] = [for |-> work[t].search, what |-> "status"]
    BY <1>10, <2>5, AppendProperties DEF AskStatus, TypeOK, Requests
  <2>7. \A i \in 1 .. Len(uart') : ~ Registers(i)'
    BY <2>1, <2>6 DEF Registers
  <2>8. OneSearcher'
    BY <2>2, <2>3, <2>4 DEF OneSearcher, Busy
  <2> QED
    BY <1>0, <2>1, <2>3, <2>7, <2>8 DEF RegisterIsAwaited, ResultHasOwner, SuccessIsEarned
\* the ends of the requests
<1>11. CASE RequestEnds
  <2>1. uart # << >> /\ uart' = Tail(uart) /\ work' = work
    BY <1>11 DEF RequestEnds, RegisterConfirmed, RegisterDenied, RegisterGarbled, RegisterTimeout,
       StopAnswered, StopTimeout, StatusAnswered, StatusTimeout, First
  <2>2. /\ Head(uart) = uart[1] /\ Len(uart) \in Nat \ {0} /\ Len(uart') = Len(uart) - 1
        /\ \A i \in 1 .. Len(uart') : uart'[i] = uart[i + 1]
        /\ Head(uart) \in Requests
    BY <2>1, HeadTailProperties DEF TypeOK, Requests
  <2>3. \A i \in 1 .. Len(uart') : Registers(i)' => i + 1 \in 1 .. Len(uart) /\ Registers(i + 1)
    BY <2>2 DEF Registers
  <2>4. CASE RegisterConfirmed \/ RegisterDenied \/ RegisterGarbled \/ RegisterTimeout
    <3>1. 1 \in 1 .. Len(uart) /\ Registers(1)
      <4>1. First("register")
        BY <2>4 DEF RegisterConfirmed, RegisterDenied, RegisterGarbled, RegisterTimeout
      <4> QED
        BY <2>2, <4>1 DEF First, Registers
    <3>2. \A i \in 1 .. Len(uart') : ~ Registers(i)'
      BY <1>0, <2>2, <2>3, <3>1 DEF RegisterIsAwaited
    <3>3. PICK t \in Threads : work[t] = [search |-> uart[1].for, at |-> "register"]
      BY <1>0, <3>1 DEF RegisterIsAwaited
    <3>4. work[t] # Free /\ At(t, "register") /\ work[t].search = Message
      BY <2>2, <3>3 DEF Free, At, Message
    <3>5. \A u \in Threads \ {t} : ~ At(u, "register")
      BY <1>3, <3>4 DEF At, Free
    <3>6. /\ result' \in {result, "err"} \/ (result' = "ok" /\ confirmed' = confirmed \cup {Message})
          /\ confirmed \subseteq confirmed'
          /\ UNCHANGED <<told, state>>
      BY <2>4 DEF RegisterConfirmed, RegisterDenied, RegisterGarbled, RegisterTimeout
    <3>7. result = "none"
      BY <1>0, <3>1 DEF RegisterIsAwaited
    <3>8. ResultHasOwner'
      BY <2>1, <3>4, <3>5, <3>6, <3>7 DEF ResultHasOwner, At
    <3>9. OneSearcher' /\ SuccessIsEarned'
      BY <1>0, <2>1, <3>6 DEF OneSearcher, Busy, SuccessIsEarned
    <3> QED
      BY <3>2, <3>8, <3>9 DEF RegisterIsAwaited
  <2>5. CASE StopTimeout \/ StatusAnswered
    <3>1. UNCHANGED <<state, result, confirmed>>
      BY <2>5 DEF StopTimeout, StatusAnswered
    <3>2. told' = told \/ told' = [told EXCEPT ![Message] = "failure"]
      BY <2>5 DEF StopTimeout, StatusAnswered, Tell
    <3>3. \A x \in Searches : told'[x] = "success" => told[x] = "success"
      BY <3>2 DEF TypeOK
    <3>4. RegisterIsAwaited'
      <4>1. \A i \in 1 .. Len(uart') : Registers(i)' =>
              result = "none" /\ \E t \in Threads : work[t] = [search |-> uart[i + 1].for, at |-> "register"]
        BY <1>0, <2>3 DEF RegisterIsAwaited
      <4>2. \A i, j \in 1 .. Len(uart') : Registers(i)' /\ Registers(j)' => i + 1 = j + 1
        BY <1>0, <2>3 DEF RegisterIsAwaited
      <4> QED
        BY <2>1, <2>2, <3>1, <4>1, <4>2 DEF RegisterIsAwaited
    <3> QED
      BY <1>0, <2>1, <3>1, <3>3, <3>4 DEF OneSearcher, ResultHasOwner, SuccessIsEarned, Busy, At
  <2>6. CASE StopAnswered \/ StatusTimeout
    BY <2>6 DEF StopAnswered, StatusTimeout
  <2> QED
    BY <1>11, <2>4, <2>5, <2>6 DEF RequestEnds
\* the rest leaves searches alone or posts a stray result
<1>12. CASE \/ uart_slave_node_info_and_device_report \/ uart_slave_node_info_report
            \/ UNCHANGED vars
  <2>1. UNCHANGED <<work, state, uart, result, confirmed, told>>
    BY <1>12 DEF uart_slave_node_info_and_device_report, uart_slave_node_info_report, vars
  <2> QED
    BY <1>0, <2>1 DEF OneSearcher, RegisterIsAwaited, ResultHasOwner, SuccessIsEarned, Busy, At,
       Registers
<1>13. CASE uart_slave_work_status_report \/ UpgradeStatusTimeout
  BY <1>13 DEF uart_slave_work_status_report, UpgradeStatusTimeout
<1> QED
  BY <1>1, <1>2, <1>6, <1>7, <1>8, <1>9, <1>10, <1>11, <1>12, <1>13 DEF Next, Closure

----------------------------------------------------------------------------
(* The theorems. *)

\* The inductive invariant holds of every behaviour.
THEOREM Invariance == Spec => []IInv
<1>1. Init => IInv
  BY InitInv
<1>2. IInv /\ [Next]_vars => IInv'
  BY TypeStep, RunningStep, ReportsStep, EarnedStep DEF IInv
<1> QED
  BY <1>1, <1>2, PTL DEF Spec

\* The shared IdentifyAreaInfo, the pool and the requests have their types throughout.
THEOREM TypeCorrect == Spec => []TypeOK
<1>1. IInv => TypeOK
  BY DEF IInv
<1> QED
  BY <1>1, Invariance, PTL

\* A state of Running has a closure at work, with any number of threads: no return of the
\* closure leaves a search behind that would refuse all later ones.
THEOREM SearcherExists == Spec => []RunningHasSearcher
<1>1. IInv => RunningHasSearcher
  BY DEF IInv
<1> QED
  BY <1>1, Invariance, PTL

\* No report of the module is lost, repeated or reordered on its way to the clients.
THEOREM NoReportLost == Spec => []ReportsAreKept
<1>1. IInv => ReportsAreKept
  BY DEF IInv
<1> QED
  BY <1>1, Invariance, PTL

\* Until a stray result is posted, a search that is said to have begun was confirmed.
THEOREM SuccessEarned == Spec => []SuccessIsEarned
<1>1. IInv => SuccessIsEarned
  BY DEF IInv
<1> QED
  BY <1>1, Invariance, PTL

=============================================================================
