----------------------------- MODULE UartAgent -----------------------------
(***************************************************************************)
(* The UART agent (src/src/uart_agent.rs): the three threads that share    *)
(* the mutex-protected UartReqInfo, and the timer thread that runs the     *)
(* timeouts of concurrent requests.                                        *)
(*                                                                         *)
(*   agent   takes one serial request at a time from uart_msg, puts it in  *)
(*           req_info, writes it and waits for the slot to become empty or *)
(*           for the timeout;                                              *)
(*   conc    takes concurrent meter readings, writes them and files them   *)
(*           in concurrent_req_info under their sequence number;           *)
(*   reader  reads a frame, finds under the lock the request that it       *)
(*           answers and, outside the lock, calls the handler;             *)
(*   timer   runs the callback of a concurrent request that timed out. It  *)
(*           is the Timer of the whole service and runs the callbacks of   *)
(*           the meter cache and of route control too.                     *)
(*                                                                         *)
(* A critical section is one action: no other thread sees its middle. The  *)
(* module on the serial line is the environment: it may answer a written   *)
(* request late, twice or never, in any order, and report by itself.       *)
(***************************************************************************)
EXTENDS Naturals, Sequences

CONSTANTS
  Requests,     \* identities of the requests that are followed; each is used once
  Replies,      \* identities of the replies the reader sends; each is used once
  SeqMod,       \* number of sequence numbers: 256, SEQ is an AtomicU8
  CounterMod,   \* number of values of consecutive_timeouts: 256, also an AtomicU8
  None          \* Option::None

ASSUME SeqModAssumption == SeqMod \in Nat \ {0}
ASSUME CounterModAssumption == CounterMod \in Nat \ {0}
ASSUME IdsAssumption ==
  /\ Requests \cap Replies = {}
  /\ None \notin Requests \cup Replies \cup (0 .. SeqMod - 1)

VARIABLES
  SEQ,                   \* next frame sequence number
  kind, seq,             \* per request: what it is and its sequence number (ReqInfo)
  status,                \* per request: how far it got (history)
  answeredBy,            \* per request: what the frame that ended it answers (history)
  uartCh, concurrentCh,  \* the two mpsc channels
  req_info,              \* the slot of the serial request
  concurrent_req_info,   \* concurrent requests by sequence number, each with its guard
  poisoned,              \* the mutex is poisoned
  sent,                  \* requests whose frame was written to the line
  agent, cur,            \* agent thread: "recv", "wait" or "dead"; what it waits for (history)
  conc,                  \* concurrent thread: "recv" or "dead"
  reader, hand, frame,   \* reader thread: "read", "handle" or "dead"; what it handles
  firing,                \* sequence number whose callback the timer thread runs
  timer,                 \* timer thread: "alive", "blocked" or "dead"
  consecutive_timeouts

reqVars == <<SEQ, kind, seq>>
history == <<status, answeredBy>>
lockVars == <<req_info, concurrent_req_info, poisoned>>
agentVars == <<agent, cur, consecutive_timeouts>>
readerVars == <<reader, hand, frame>>
timerVars == <<firing, timer>>
vars == <<reqVars, history, uartCh, concurrentCh, lockVars, sent,
          agentVars, conc, readerVars, timerVars>>

----------------------------------------------------------------------------
(* Requests. *)

Ids == Requests \cup Replies
Seqs == 0 .. SeqMod - 1

\* What a service may put on the uart_msg channel by itself: an internal request
\* (plc_init, node loading, route control), one for an MQTT client, a monitorNodeDelay
\* request and a running-status query; the last two carry an origin_req_key.
RequestKinds == {"init", "mqtt", "delay", "query"}

\* What the reader's handler puts there: the reply to a 14H-F3 read of the module,
\* which carries the origin_req_key, and every other reply to a report.
ReplyKinds == {"forward", "confirm"}

SerialKinds == RequestKinds \cup ReplyKinds
Kinds == SerialKinds \cup {"meter"}

\* None is no kind: that of an identity that is not in use yet.
ASSUME NoneAssumption == None \notin Kinds

HasOrigin(r) == kind[r] \in {"delay", "query", "forward"}

\* The agent's is_response: a master response that has no origin_req_key.
IsResponse(r) == kind[r] = "confirm"

\* How a request may end: its waiter is told of the answer, the handler gives up without
\* telling it, the handler panics, it times out, or (a concurrent one) nobody knows of it any
\* more. A reply that went out is "confirmed"; nobody waits for it.
Final == {"answered", "dropped", "panicked", "timeout", "lost"}
Statuses == {"unused", "queued", "written", "confirmed"} \cup Final

\* What SEQ may be when a request takes its number. Since the one of Requests before it any
\* number of others may have taken theirs that are not followed here: they were answered in
\* the meantime, as readings may be while anything else is open, and only advanced SEQ.
NextNumbers == {s \in Seqs : s = SEQ \/ \E q \in Requests : status[q] # "unused"}

\* Frame::new_request: the frame takes the next value of SEQ.
NewRequest(r, k) ==
  /\ status[r] = "unused"
  /\ kind' = [kind EXCEPT ![r] = k]
  /\ \E s \in NextNumbers :
       /\ seq' = [seq EXCEPT ![r] = s]
       /\ SEQ' = (s + 1) % SeqMod
  /\ status' = [status EXCEPT ![r] = "queued"]

----------------------------------------------------------------------------
(* Services send requests to the two channels. *)

SubmitSerial(r, k) ==
  /\ NewRequest(r, k)
  /\ uartCh' = Append(uartCh, r)
  /\ UNCHANGED <<answeredBy, concurrentCh, lockVars, sent, agentVars, conc, readerVars, timerVars>>

SubmitMeter(r) ==
  /\ NewRequest(r, "meter")
  /\ concurrentCh' = Append(concurrentCh, r)
  /\ UNCHANGED <<answeredBy, uartCh, lockVars, sent, agentVars, conc, readerVars, timerVars>>

----------------------------------------------------------------------------
(* The agent thread. *)

\* write_request: the frame reaches the line, or an error is only logged.
Write(r) == sent' = sent \cup {r} \/ UNCHANGED sent

\* *lock = Some(req): whatever the slot held is replaced.
PutIfEmpty(r) == req_info' = IF req_info = None THEN r ELSE req_info  \* mutant of FillSlot
FillSlot(r) == req_info' = r

\* Takes the next request, fills the slot and writes. A response is not waited for:
\* the thread goes on to the next message and leaves the slot as it is.
AgentSend ==
  /\ agent = "recv" /\ ~poisoned /\ uartCh # << >>
  /\ LET r == Head(uartCh) IN
       /\ uartCh' = Tail(uartCh)
       /\ FillSlot(r)
       /\ Write(r)
       /\ IF IsResponse(r)
          THEN /\ status' = [status EXCEPT ![r] = "confirmed"]
               /\ UNCHANGED <<agent, cur>>
          ELSE /\ status' = [status EXCEPT ![r] = "written"]
               /\ agent' = "wait"
               /\ cur' = r
  /\ UNCHANGED <<reqVars, answeredBy, concurrentCh, concurrent_req_info, poisoned,
                 consecutive_timeouts, conc, readerVars, timerVars>>

\* Mutant of AgentAnswered: wait_timeout returns on a spurious wakeup.
AgentWakesUp ==
  /\ agent = "wait" /\ ~poisoned
  /\ agent' = "recv"
  /\ cur' = None
  /\ consecutive_timeouts' = 0
  /\ UNCHANGED <<reqVars, history, uartCh, concurrentCh, lockVars, sent, conc,
                 readerVars, timerVars>>

\* wait_timeout_while returned because the reader emptied the slot.
AgentAnswered ==
  /\ agent = "wait" /\ ~poisoned /\ req_info = None
  /\ agent' = "recv"
  /\ cur' = None
  /\ consecutive_timeouts' = 0
  /\ UNCHANGED <<reqVars, history, uartCh, concurrentCh, lockVars, sent, conc,
                 readerVars, timerVars>>

\* fetch_add on an AtomicU8 wraps around.
CountUnbounded(n) == n + 1                  \* mutant of CountTimeout
CountTimeout(n) == (n + 1) % CounterMod

\* Mutants of AgentTimeout: wait_while never gives up; the slot is read and not taken.
AgentWaitsForever == agent = "wait" /\ UNCHANGED vars
AgentTimeoutKeepsSlot ==
  /\ agent = "wait" /\ ~poisoned /\ req_info # None
  /\ status' = [status EXCEPT ![req_info] = "timeout"]
  /\ agent' = "recv"
  /\ cur' = None
  /\ consecutive_timeouts' = CountTimeout(consecutive_timeouts)
  /\ UNCHANGED <<reqVars, answeredBy, uartCh, concurrentCh, lockVars, sent, conc, readerVars,
                 timerVars>>

\* It returned because time is up (MAX_RETRY is 1: no second attempt): the request is
\* taken and handle_timeout runs with the lock held.
AgentTimeout ==
  /\ agent = "wait" /\ ~poisoned /\ req_info # None
  /\ status' = [status EXCEPT ![req_info] = "timeout"]
  /\ req_info' = None
  /\ agent' = "recv"
  /\ cur' = None
  /\ consecutive_timeouts' = CountTimeout(consecutive_timeouts)
  /\ UNCHANGED <<reqVars, answeredBy, uartCh, concurrentCh, concurrent_req_info, poisoned,
                 sent, conc, readerVars, timerVars>>

\* lock().unwrap() and wait_timeout_while().unwrap() panic on a poisoned mutex.
AgentDies ==
  /\ poisoned
  /\ agent = "wait" \/ (agent = "recv" /\ uartCh # << >>)
  /\ agent' = "dead"
  /\ UNCHANGED <<reqVars, history, uartCh, concurrentCh, lockVars, sent, cur,
                 consecutive_timeouts, conc, readerVars, timerVars>>

----------------------------------------------------------------------------
(* The concurrent thread. *)

\* insert: an entry of the same number is replaced.
FileIfVacant(m, r) == IF m[seq[r]] = None THEN [m EXCEPT ![seq[r]] = r] ELSE m  \* mutant of File
File(m, r) == [m EXCEPT ![seq[r]] = r]

\* Arms the timer, writes and files the request with its guard. An entry of the same
\* number is replaced, which drops its guard. After a write error neither the request
\* nor the guard is kept. (The timeout is much longer than this critical section.)
ConcurrentSend ==
  /\ conc = "recv" /\ ~poisoned /\ concurrentCh # << >>
  /\ concurrentCh' = Tail(concurrentCh)
  /\ LET r == Head(concurrentCh)
         old == concurrent_req_info[seq[r]] IN
       \/ /\ sent' = sent \cup {r}
          /\ concurrent_req_info' = File(concurrent_req_info, r)
          /\ status' = [q \in Ids |-> IF q = r THEN "written"
                                           ELSE IF q = old THEN "lost" ELSE status[q]]
       \/ /\ status' = [status EXCEPT ![r] = "lost"]
          /\ UNCHANGED <<sent, concurrent_req_info>>
  /\ UNCHANGED <<reqVars, answeredBy, uartCh, req_info, poisoned, agentVars, conc,
                 readerVars, timerVars>>

ConcurrentDies ==
  /\ poisoned /\ conc = "recv" /\ concurrentCh # << >>
  /\ conc' = "dead"
  /\ UNCHANGED <<reqVars, history, uartCh, concurrentCh, lockVars, sent, agentVars,
                 readerVars, timerVars>>

----------------------------------------------------------------------------
(* The timer thread. *)

\* The timer's thread finds a schedule due, its guard not dropped, and starts the callback.
TimerFires(s) ==
  /\ timer = "alive" /\ firing = None /\ concurrent_req_info[s] # None
  /\ firing' = s
  /\ UNCHANGED <<reqVars, history, uartCh, concurrentCh, lockVars, sent, agentVars,
                 conc, readerVars, timer>>

\* route_ctrl's resume callback runs on the same thread and waits there for the answer to
\* its command, for ever when the command times out: nothing else of the timer runs any more.
TimerBlocks ==
  /\ timer = "alive" /\ firing = None
  /\ timer' = "blocked"
  /\ UNCHANGED <<reqVars, history, uartCh, concurrentCh, lockVars, sent, agentVars, conc,
                 readerVars, firing>>

\* remove: the entry of that number.
RemoveAll(m, s) == [t \in Seqs |-> None]   \* mutant of Remove: clear
Remove(m, s) == [m EXCEPT ![s] = None]

\* The callback removes whatever the map now holds under its number, and handles the
\* timeout outside the lock.
ConcurrentTimeout ==
  /\ timer = "alive" /\ firing # None /\ ~poisoned
  /\ concurrent_req_info[firing] # None
  /\ status' = [status EXCEPT ![concurrent_req_info[firing]] = "timeout"]
  /\ concurrent_req_info' = Remove(concurrent_req_info, firing)
  /\ firing' = None
  /\ UNCHANGED <<reqVars, answeredBy, uartCh, concurrentCh, req_info, poisoned, sent,
                 agentVars, conc, readerVars, timer>>

\* remove(&seq).unwrap() finds no entry: the callback panics while it holds the lock.
\* On a lock that is poisoned already, lock().unwrap() panics.
CallbackPanics ==
  /\ timer = "alive" /\ firing # None
  /\ poisoned \/ concurrent_req_info[firing] = None
  /\ poisoned' = TRUE
  /\ timer' = "dead"
  /\ UNCHANGED <<reqVars, history, uartCh, concurrentCh, req_info, concurrent_req_info,
                 sent, agentVars, conc, readerVars, firing>>

----------------------------------------------------------------------------
(* The reader thread. *)

\* A frame of the module: the answer to a request it received, with a body the service
\* parses or not, or a report: a 14H-F3 read, or any other report, which is replied to.
Answers == [what : {"answer", "badAnswer"}, seq : Seqs, of : Ids]
Reports == [what : {"event", "delayRead"}, seq : Seqs, of : {None}]

IsReport(f) == f.what \in {"event", "delayRead"}

\* The frames the module may send now. A written request may be answered at any later
\* time and more than once. Its reports carry its own sequence numbers; their number is
\* bounded by that of the replies.
Incoming ==
  {[what |-> w, seq |-> seq[r], of |-> r] :
     w \in {"answer", "badAnswer"}, r \in {q \in sent : kind[q] # "confirm"}}
  \cup {f \in Reports : \E n \in Replies : status[n] = "unused"}

\* A report is new unless the slot holds a request with an origin_req_key.
IsNewReport(f) == IsReport(f) /\ ~(req_info # None /\ HasOrigin(req_info))

MatchesConcurrent(f) == ~IsNewReport(f) /\ concurrent_req_info[f.seq] # None

\* Mutant of MatchesSerial: the sequence number is not compared.
MatchesAnySerial(f) == ~IsNewReport(f) /\ ~MatchesConcurrent(f) /\ req_info # None

MatchesSerial(f) ==
  /\ ~IsNewReport(f) /\ ~MatchesConcurrent(f)
  /\ req_info # None /\ f.seq = seq[req_info]

\* The locked half of the loop body; a frame that matches nothing is logged and skipped.
ReadFrame(f) ==
  /\ reader = "read" /\ ~poisoned /\ f \in Incoming
  /\ \/ /\ IsNewReport(f)
        /\ hand' = None
        /\ UNCHANGED <<req_info, concurrent_req_info>>
     \/ /\ MatchesConcurrent(f)
        /\ hand' = concurrent_req_info[f.seq]
        /\ concurrent_req_info' = Remove(concurrent_req_info, f.seq)
        /\ UNCHANGED req_info
     \/ /\ MatchesSerial(f)
        /\ hand' = req_info
        /\ req_info' = None
        /\ UNCHANGED concurrent_req_info
  /\ reader' = "handle"
  /\ frame' = f
  /\ UNCHANGED <<reqVars, history, uartCh, concurrentCh, poisoned, sent, agentVars, conc,
                 timerVars>>

\* The handler's arm for request r and frame f. A report is dispatched on the key of the
\* request it was matched with, which only the monitorNodeDelay request and its 14H-F3
\* read have an arm for. An answer to that request has no arm. The arm of a running-status
\* query panics, and so does that of a reply nobody waits for. A body that does not parse
\* ends the arm early, which an init request's waiter may still be told.
HandlerOutcomes(r, f) ==
  IF IsReport(f) THEN {IF kind[r] = "delay" /\ f.what = "delayRead" THEN "answered" ELSE "dropped"}
  ELSE IF kind[r] \in {"query", "confirm"} THEN {"panicked"}
  ELSE IF kind[r] = "delay" THEN {"dropped"}
  ELSE IF f.what = "answer" THEN {"answered"}
  ELSE IF kind[r] = "init" THEN {"answered", "dropped"}
  ELSE {"dropped"}

\* Frame::new_response: the reply n carries the sequence number of the frame it replies to.
NewReply(n, k) ==
  /\ kind' = [kind EXCEPT ![n] = k]
  /\ seq' = [seq EXCEPT ![n] = frame.seq]
  /\ uartCh' = Append(uartCh, n)
  /\ UNCHANGED SEQ

\* The handler for a new report: an event is confirmed, a 14H-F3 read that nobody asked
\* for is an error that is logged.
HandleReport ==
  /\ reader = "handle" /\ hand = None
  /\ \/ /\ frame.what = "event"
        /\ \E n \in Replies :
             /\ status[n] = "unused"
             /\ status' = [status EXCEPT ![n] = "queued"]
             /\ NewReply(n, "confirm")
     \/ /\ frame.what = "delayRead"
        /\ UNCHANGED <<status, reqVars, uartCh>>
  /\ reader' = "read"
  /\ frame' = None
  /\ UNCHANGED <<answeredBy, concurrentCh, lockVars, sent, agentVars, conc, hand, timerVars>>

\* The handler for a frame that was matched with the request in hand. The 14H-F3 read of a
\* monitorNodeDelay request also sends the reply that is waited for as a request.
HandleAnswer ==
  /\ reader = "handle" /\ hand # None
  /\ \E o \in HandlerOutcomes(hand, frame) :
       /\ answeredBy' = [answeredBy EXCEPT ![hand] = frame.of]
       /\ reader' = IF o = "panicked" THEN "dead" ELSE "read"
       /\ IF o = "answered" /\ kind[hand] = "delay"
          THEN \E n \in Replies :
                 /\ status[n] = "unused"
                 /\ status' = [status EXCEPT ![n] = "queued", ![hand] = o]
                 /\ NewReply(n, "forward")
          ELSE /\ status' = [status EXCEPT ![hand] = o]
               /\ UNCHANGED <<reqVars, uartCh>>
  /\ hand' = None
  /\ frame' = None
  /\ UNCHANGED <<concurrentCh, lockVars, sent, agentVars, conc, timerVars>>

\* read_response fails (the port is closed, its read times out, a frame does not parse),
\* a report whose body does not parse reaches unreachable!(), or the lock is poisoned.
ReaderStops ==
  /\ reader = "read"
  /\ reader' = "dead"
  /\ UNCHANGED <<reqVars, history, uartCh, concurrentCh, lockVars, sent, agentVars, conc,
                 hand, frame, timerVars>>

----------------------------------------------------------------------------
(* The specification. *)

Init ==
  /\ SEQ = 0
  /\ kind = [r \in Ids |-> None]
  /\ seq = [r \in Ids |-> 0]
  /\ status = [r \in Ids |-> "unused"]
  /\ answeredBy = [r \in Ids |-> None]
  /\ uartCh = << >>
  /\ concurrentCh = << >>
  /\ req_info = None
  /\ concurrent_req_info = [s \in Seqs |-> None]
  /\ poisoned = FALSE
  /\ sent = {}
  /\ agent = "recv"
  /\ cur = None
  /\ conc = "recv"
  /\ reader = "read"
  /\ hand = None
  /\ frame = None
  /\ firing = None
  /\ timer = "alive"
  /\ consecutive_timeouts = 0

Submit == \E r \in Requests : (\E k \in RequestKinds : SubmitSerial(r, k)) \/ SubmitMeter(r)
AgentThread == AgentSend \/ AgentAnswered \/ AgentTimeout \/ AgentDies
ConcurrentThread == ConcurrentSend \/ ConcurrentDies
TimerThread == (\E s \in Seqs : TimerFires(s)) \/ ConcurrentTimeout \/ CallbackPanics
ReaderThread == (\E f \in Incoming : ReadFrame(f)) \/ HandleReport \/ HandleAnswer \/ ReaderStops

Next == Submit \/ AgentThread \/ ConcurrentThread \/ TimerThread \/ TimerBlocks \/ ReaderThread

Spec == Init /\ [][Next]_vars

\* Every thread that can go on does: recv returns a message that is there, the waits of the
\* agent end at the latest when their timeout has passed, the timer runs what is due unless a
\* callback of route control blocks its thread (TimerBlocks), and a handler returns. Nothing
\* makes a service send, the module answer, the port fail or the timer's thread block.
Fairness ==
  /\ WF_vars(AgentThread)
  /\ WF_vars(ConcurrentThread)
  /\ WF_vars(TimerThread)
  /\ WF_vars(HandleReport \/ HandleAnswer)

FairSpec == Spec /\ Fairness

----------------------------------------------------------------------------
(* Properties. *)

\* The types of the variables, and that the reader has a frame exactly while it handles one.
TypeOK ==
  /\ SEQ \in Seqs
  /\ kind \in [Ids -> Kinds \cup {None}]
  /\ seq \in [Ids -> Seqs]
  /\ status \in [Ids -> Statuses]
  /\ answeredBy \in [Ids -> Ids \cup {None}]
  /\ uartCh \in Seq(Ids)
  /\ concurrentCh \in Seq(Ids)
  /\ req_info \in Ids \cup {None}
  /\ concurrent_req_info \in [Seqs -> Ids \cup {None}]
  /\ poisoned \in BOOLEAN
  /\ sent \subseteq Ids
  /\ agent \in {"recv", "wait", "dead"}
  /\ cur \in Ids \cup {None}
  /\ conc \in {"recv", "dead"}
  /\ reader \in {"read", "handle", "dead"}
  /\ hand \in Ids \cup {None}
  /\ reader = "handle" => frame \in Answers \cup Reports
  /\ reader # "handle" => frame = None /\ hand = None
  /\ firing \in Seqs \cup {None}
  /\ timer \in {"alive", "blocked", "dead"}
  /\ consecutive_timeouts \in 0 .. CounterMod - 1

\* While the agent waits, the slot holds the request it waits for or nothing: neither a
\* reply nor another request can be timed out in its place, nor be taken for it.
SlotIsCurrent == agent = "wait" => req_info \in {cur, None}

\* No serial request is forgotten: once it was written (or its write failed) somebody is
\* always responsible for it, the agent that waits for it or the reader that handles its
\* answer, so it cannot be replaced in the slot before it has an outcome.
SerialCustody ==
  \A r \in Ids :
    (status[r] = "written" /\ kind[r] # "meter" /\ ~poisoned)
      => \/ agent = "wait" /\ cur = r /\ req_info = r
         \/ reader = "handle" /\ hand = r

\* The same for a concurrent request: its entry with the guard of its timeout, or the reader.
ConcurrentCustody ==
  \A r \in Ids :
    (status[r] = "written" /\ kind[r] = "meter")
      => \/ concurrent_req_info[seq[r]] = r
         \/ reader = "handle" /\ hand = r

\* A request has one outcome: what was answered never times out as well, what timed out is
\* not answered by a late or a duplicate frame, whatever the order of the four threads.
OneOutcome == [][\A r \in Ids : status[r] \in Final => status'[r] = status[r]]_vars

\* A request is answered by the module's answer to it, as long as no other request has its
\* sequence number: a late or a second answer to an earlier request, or to the reply to a
\* 14H-F3 read, which shares its request's number, is not taken for its own.
NumberIsOwn(r) == \A q \in Requests \ {r} : status[q] # "unused" => seq[q] # seq[r]

AnswersAreOwn ==
  \A r \in Ids :
    (status[r] = "answered" /\ kind[r] \in {"init", "mqtt", "meter"} /\ NumberIsOwn(r))
      => answeredBy[r] = r

\* Every message on the serial channel ends: it is answered, times out or is a reply that
\* went out, unless the mutex is poisoned. The reader may have stopped long before.
SerialRequestsEnd ==
  \A r \in Ids : (status[r] = "queued" /\ kind[r] # "meter") ~> (status[r] \in Final \cup {"confirmed"} \/ poisoned)
=============================================================================
