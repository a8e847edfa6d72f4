-------------------------- MODULE ConcurrentMeter --------------------------
(***************************************************************************)
(* The concurrent meter reading service (src/src/service/                  *)
(* concurrent_meter.rs): one SampleCache for each meter address, with the  *)
(* request that waits for the module and the queue of those behind it.     *)
(*                                                                         *)
(* Three threads work on the mutex-protected cache: the MQTT dispatcher,   *)
(* which receives requests; the UART reader, which handles answers; and    *)
(* the timer, which handles timeouts and ages idle caches. The UART agent  *)
(* is seen as UartAgent specifies it: a request sent to it is answered,    *)
(* times out or is lost, and only one of the three. The timer is the one   *)
(* Timer of the service, whose thread also runs callbacks of route control *)
(* that may never return.                                                  *)
(***************************************************************************)
EXTENDS Naturals, Sequences, FiniteSets

CONSTANTS
  Msgs,              \* MQTT requests, each for one address, sent once
  Addrs,             \* acqAddr of the meters
  concurrent_addr,   \* meter_config: limit of addresses at work
  cache_queue_size,  \* meter_config: limit of the requests that wait for an address
  MaxFaults,         \* bound on the requests that are lost or answered with a bad body
  None

ASSUME LimitsAssumption == concurrent_addr \in Nat \ {0} /\ cache_queue_size \in Nat
ASSUME MaxFaultsAssumption == MaxFaults \in Nat
ASSUME NoneAssumption == None \notin Msgs \cup Addrs

VARIABLES
  addr,                       \* per request: its address
  status,                     \* per request: how far it got (history)
  present,                    \* the keys of sample_cache
  is_waiting_response,        \* per address, as the next one the SampleCache
  msg_cache_queue,
  accepted, started,          \* per address: requests accepted, requests sent on, in order (history)
  reused,                     \* addresses at work that had an idle cache before (history)
  metering,                   \* the AtomicBool shared with monitor_node and data_transfer
  dispatch,                   \* dispatcher: "recv", or "exclusive" while it waits for another service
  handling,                   \* per handler thread: the request it reported on
  blocked,                    \* a callback of route control blocks the timer's thread for ever
  faults                      \* requests lost or badly answered so far

cacheVars == <<present, is_waiting_response, msg_cache_queue>>
history == <<accepted, started, reused>>
dispatchVars == <<metering, dispatch>>
vars == <<addr, status, cacheVars, history, dispatchVars, handling, blocked, faults>>

Threads == {"reader", "timer"}

\* "flight": with the UART agent; "reported": its answer or its timeout was published.
Statuses == {"unused", "rejected", "queued", "flight", "reported", "badBody", "lost"}

----------------------------------------------------------------------------
(* The cache. *)

\* Addresses that wait for an answer or have requests behind it.
Busy(a) == a \in present /\ (is_waiting_response[a] \/ msg_cache_queue[a] # << >>)

concurrent_addr_num == Cardinality({a \in Addrs : Busy(a)})

\* mqtt_meter_reading_handler and is_waiting_response = true: m goes to the UART agent.
Start(m, a) ==
  /\ started' = [started EXCEPT ![a] = Append(@, m)]
  /\ is_waiting_response' = [is_waiting_response EXCEPT ![a] = TRUE]

\* An address that is not in the map is refused when enough others are busy.
AddrLimitOff(a) == a \notin present /\ concurrent_addr_num > concurrent_addr   \* mutant of AddrLimit
AddrLimit(a) == a \notin present /\ concurrent_addr_num >= concurrent_addr

\* handle_waiting_cache.
QueueLimitOff(a) == Len(msg_cache_queue[a]) > cache_queue_size   \* mutant of QueueLimit
QueueLimit(a) == Len(msg_cache_queue[a]) >= cache_queue_size

\* Whether a request joins the queue or goes out at once.
WaitsOnlyForMetering(a) == metering                             \* mutant of MustWait
MustWait(a) == is_waiting_response[a] \/ metering

----------------------------------------------------------------------------
(* The MQTT dispatcher. *)

\* History: an idle cache that is still there is put to work past the limit.
Reuse(a) == reused' = IF a \in present /\ ~Busy(a) THEN reused \cup {a} ELSE reused

\* mqtt_concurrent_meter_reading: a request is refused, queued or sent on, and replied to.
\* Insertion of a new SampleCache starts from the empty one an absent address has here.
Receive(m, a) ==
  /\ dispatch = "recv" /\ status[m] = "unused"
  /\ addr' = [addr EXCEPT ![m] = a]
  /\ \/ /\ AddrLimit(a)
        /\ status' = [status EXCEPT ![m] = "rejected"]
        /\ UNCHANGED <<cacheVars, history>>
     \/ /\ ~AddrLimit(a)
        /\ present' = present \cup {a}
        /\ \/ /\ MustWait(a) /\ QueueLimit(a)
              /\ status' = [status EXCEPT ![m] = "rejected"]
              /\ UNCHANGED <<is_waiting_response, msg_cache_queue, history>>
           \/ /\ MustWait(a) /\ ~QueueLimit(a)
              /\ Reuse(a)
              /\ msg_cache_queue' = [msg_cache_queue EXCEPT ![a] = Append(@, m)]
              /\ accepted' = [accepted EXCEPT ![a] = Append(@, m)]
              /\ status' = [status EXCEPT ![m] = "queued"]
              /\ UNCHANGED <<is_waiting_response, started>>
           \/ /\ ~MustWait(a)
              /\ Reuse(a)
              /\ Start(m, a)
              /\ accepted' = [accepted EXCEPT ![a] = Append(@, m)]
              /\ status' = [status EXCEPT ![m] = "flight"]
              /\ UNCHANGED msg_cache_queue
  /\ UNCHANGED <<dispatchVars, handling, blocked, faults>>

\* with_metering of the monitor node and data transfer requests: the dispatcher sets the
\* flag and waits for the answer of another service.
BeginExclusive ==
  /\ dispatch = "recv"
  /\ dispatch' = "exclusive"
  /\ metering' = TRUE
  /\ UNCHANGED <<addr, status, cacheVars, history, handling, blocked, faults>>

\* It clears the flag and calls handle_cache_request, which starts the first request of
\* every queue whose address does not wait.
EndExclusive ==
  /\ dispatch = "exclusive"
  /\ dispatch' = "recv"
  /\ metering' = FALSE
  /\ LET Starts == {a \in present : ~is_waiting_response[a] /\ msg_cache_queue[a] # << >>} IN
       /\ is_waiting_response' = [a \in Addrs |-> is_waiting_response[a] \/ a \in Starts]
       /\ msg_cache_queue' = [a \in Addrs |-> IF a \in Starts THEN Tail(msg_cache_queue[a])
                                                              ELSE msg_cache_queue[a]]
       /\ started' = [a \in Addrs |-> IF a \in Starts THEN Append(started[a], Head(msg_cache_queue[a]))
                                                      ELSE started[a]]
       /\ status' = [m \in Msgs |-> IF \E a \in Starts : m = Head(msg_cache_queue[a])
                                    THEN "flight" ELSE status[m]]
  /\ UNCHANGED <<addr, present, accepted, reused, handling, blocked, faults>>

----------------------------------------------------------------------------
(* The reader and the timer. *)

\* The timer runs nothing behind a callback that does not return.
CanRun(t) == ~(t = "timer" /\ blocked)

\* uart_meter_reading with an answer that parses, or uart_meter_reading_timeout: the client
\* is sent the report, and the lock is not yet taken.
Report(t, m) ==
  /\ CanRun(t) /\ handling[t] = None /\ status[m] = "flight"
  /\ status' = [status EXCEPT ![m] = "reported"]
  /\ handling' = [handling EXCEPT ![t] = m]
  /\ UNCHANGED <<addr, cacheVars, history, dispatchVars, blocked, faults>>

\* handle_next_request of both: the queue's first request goes out, or the address stops
\* waiting. (An address without a cache has an empty one here: nothing happens to it.)
NextRequestSkipped(t) ==   \* mutant of NextRequest
  /\ CanRun(t) /\ handling[t] # None
  /\ handling' = [handling EXCEPT ![t] = None]
  /\ UNCHANGED <<addr, status, cacheVars, history, dispatchVars, blocked, faults>>
NextRequest(t) ==
  /\ CanRun(t) /\ handling[t] # None
  /\ LET a == addr[handling[t]] IN
       \/ /\ msg_cache_queue[a] # << >>
          /\ Start(Head(msg_cache_queue[a]), a)
          /\ msg_cache_queue' = [msg_cache_queue EXCEPT ![a] = Tail(@)]
          /\ status' = [status EXCEPT ![Head(msg_cache_queue[a])] = "flight"]
          /\ UNCHANGED reused
       \/ /\ msg_cache_queue[a] = << >>
          /\ is_waiting_response' = [is_waiting_response EXCEPT ![a] = FALSE]
          /\ reused' = reused \ {a}
          /\ UNCHANGED <<msg_cache_queue, started, status>>
  /\ handling' = [handling EXCEPT ![t] = None]
  /\ UNCHANGED <<addr, present, accepted, dispatchVars, blocked, faults>>

\* uart_response_handler fails on the body of the answer: its error leaves
\* uart_meter_reading before the report and before handle_next_request.
BadBody(m) ==
  /\ faults < MaxFaults /\ faults' = faults + 1
  /\ handling["reader"] = None /\ status[m] = "flight"
  /\ status' = [status EXCEPT ![m] = "badBody"]
  /\ UNCHANGED <<addr, cacheVars, history, dispatchVars, handling, blocked>>

\* The UART agent forgets the request: its write failed, its entry was replaced by one of
\* the same sequence number, or the thread that would handle its end is dead.
Lose(m) ==
  /\ faults < MaxFaults /\ faults' = faults + 1
  /\ status[m] = "flight"
  /\ status' = [status EXCEPT ![m] = "lost"]
  /\ UNCHANGED <<addr, cacheVars, history, dispatchVars, handling, blocked>>

\* The repeating timer drops caches that are idle and old; how old a cache is when the
\* timer fires is not modelled, so any idle ones may go.
MayAgeAny(a) == TRUE    \* mutant of MayAge
MayAge(a) == ~is_waiting_response[a] /\ msg_cache_queue[a] = << >>

Age ==
  /\ CanRun("timer") /\ handling["timer"] = None
  /\ \E S \in SUBSET {a \in present : MayAge(a)} \ {{}} :
       /\ present' = present \ S
       /\ is_waiting_response' = [a \in Addrs |-> is_waiting_response[a] /\ a \notin S]
       /\ msg_cache_queue' = [a \in Addrs |-> IF a \in S THEN << >> ELSE msg_cache_queue[a]]
  /\ UNCHANGED <<addr, status, history, dispatchVars, handling, blocked, faults>>

\* route_ctrl's resume callback runs on the timer's thread and waits for the answer to its
\* command without a limit; it is never told of the command's timeout.
TimerBlocks ==
  /\ ~blocked /\ handling["timer"] = None
  /\ blocked' = TRUE
  /\ UNCHANGED <<addr, status, cacheVars, history, dispatchVars, handling, faults>>

----------------------------------------------------------------------------
(* The specification. *)

Init ==
  /\ addr = [m \in Msgs |-> None]
  /\ status = [m \in Msgs |-> "unused"]
  /\ present = {}
  /\ is_waiting_response = [a \in Addrs |-> FALSE]
  /\ msg_cache_queue = [a \in Addrs |-> << >>]
  /\ accepted = [a \in Addrs |-> << >>]
  /\ started = [a \in Addrs |-> << >>]
  /\ reused = {}
  /\ metering = FALSE
  /\ dispatch = "recv"
  /\ handling = [t \in Threads |-> None]
  /\ blocked = FALSE
  /\ faults = 0

Dispatcher == (\E m \in Msgs, a \in Addrs : Receive(m, a)) \/ BeginExclusive \/ EndExclusive
Handler(t) == (\E m \in Msgs : Report(t, m)) \/ NextRequest(t)
Faulty == \E m \in Msgs : BadBody(m) \/ Lose(m)

Next == Dispatcher \/ (\E t \in Threads : Handler(t)) \/ Faulty \/ Age \/ TimerBlocks

Spec == Init /\ [][Next]_vars

\* A request with the UART agent times out at the latest 60 s later, unless the timer's thread
\* is blocked (ConcurrentCustody of UartAgent says that its entry and its guard are there till
\* then), and a handler that sent its report goes on to the next request. Nothing makes the
\* timer's thread block.
Fairness ==
  /\ WF_vars(Handler("timer"))
  /\ WF_vars(NextRequest("reader"))

FairSpec == Spec /\ Fairness

----------------------------------------------------------------------------
(* Properties. *)

\* The types of the variables; a queue never exceeds its limit.
TypeOK ==
  /\ addr \in [Msgs -> Addrs \cup {None}]
  /\ status \in [Msgs -> Statuses]
  /\ present \subseteq Addrs
  /\ is_waiting_response \in [Addrs -> BOOLEAN]
  /\ msg_cache_queue \in [Addrs -> Seq(Msgs)]
  /\ \A a \in Addrs : Len(msg_cache_queue[a]) <= cache_queue_size
  /\ accepted \in [Addrs -> Seq(Msgs)]
  /\ started \in [Addrs -> Seq(Msgs)]
  /\ reused \subseteq Addrs
  /\ metering \in BOOLEAN
  /\ dispatch \in {"recv", "exclusive"}
  /\ handling \in [Threads -> Msgs \cup {None}]
  /\ blocked \in BOOLEAN
  /\ faults \in 0 .. MaxFaults

\* The requests for a that are with the UART agent or whose handler has not yet taken the lock.
Open(a) == {m \in Msgs : addr[m] = a /\ (status[m] = "flight" \/ \E t \in Threads : handling[t] = m)}

\* The module gets one request at a time for an address, and as long as one is open the
\* address waits: neither the dispatcher nor the aging timer nor the other handler thread
\* lets a second one through.
OneOpenRequest ==
  \A a \in Addrs :
    /\ \A m, n \in Open(a) : m = n
    /\ Open(a) # {} => a \in present /\ is_waiting_response[a]

\* Accepted requests of an address go out in the order they came, each once, and none is
\* forgotten when a cache is aged or created again.
InOrder == \A a \in Addrs : started[a] \o msg_cache_queue[a] = accepted[a]

\* No more addresses are at work than the configuration allows, but for those whose idle
\* cache was still in the map: the limit is checked only when a cache is made.
AddressesAreLimited == Cardinality({a \in Addrs : Busy(a)} \ reused) <= concurrent_addr

\* Every accepted request is reported on, with an answer or a timeout. There are two ways out:
\* a request for its address was lost or badly answered, and that address waits for ever; or
\* a resume of route control blocks the thread of the shared timer, and what the module does
\* not answer never times out.
AcceptedAreReported ==
  \A m \in Msgs :
    (status[m] \in {"queued", "flight"})
      ~> \/ status[m] = "reported"
         \/ \E n \in Msgs : addr[n] = addr[m] /\ status[n] \in {"badBody", "lost"}
         \/ blocked

=============================================================================
