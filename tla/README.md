# A TLA+ model of plc_service_rust

`plc_service_rust` is a service between MQTT client applications and a power-line
communication (PLC) module on a serial line (protocol Q/GDW 10376.2). This directory holds
TLA+ modules translated from its source (`src/src/`), TLC configurations that check them on
small instances, and proofs that TLAPS checks. `PROJECT.json` maps every definition to the
source lines it stands for, every property to a mutant of the code that breaks it, and lists
the hazards the properties are for.

## 1. Inventory

### Threads and what joins them

| thread | code | takes | shares |
|---|---|---|---|
| UART agent | `uart_agent.rs` `start` | `uart_msg` channel, one request at a time | `UartReqInfo` (mutex, condvar) |
| concurrent sender | `uart_agent.rs` | `concurrent_msg` channel | `UartReqInfo` |
| UART reader | `uart_agent.rs`, `uart_handler.rs` | frames of the serial port | `UartReqInfo`, then each service's state |
| timer | `timer` crate | due callbacks: concurrent timeouts, aging, automatic resume | `UartReqInfo`, services |
| MQTT receiver | `mqtt_handler.rs` | messages of clients, checked against their schema | `PriorityQueue` |
| MQTT dispatcher | `mqtt_handler.rs` | the priority queue, one message at a time | services |
| device thread | `plc_device.rs` | nothing; four states | `PlcInit`, `NodeManage` |
| thread pool | `file_upgrade.rs`, `identify_area.rs` | closures of the dispatcher | service state |

Services send requests through two `mpsc` channels and either return (the answer is published
by the reader) or wait on a condition variable at a **mailbox** (an `Option` under a mutex)
which the reader or the timeout handler fills. Most of the hard behaviour comes from these
mailboxes: several posters overwrite one another, several waiters share one, some waits have
no time limit and some outcomes are never posted.

### Components

| component | state | operations | what makes it correct | module |
|---|---|---|---|---|
| UART agent | slot `req_info`, map `concurrent_req_info` by sequence number, `consecutive_timeouts`, `SEQ` | send serial, send concurrent, match a frame, time out | a request has one outcome, its own, and is never forgotten | `UartAgent` |
| message and timeout handlers | none of their own | one arm per request kind | the waiter of a request is told | in every module |
| concurrent meter reading | a `SampleCache` for each address, `metering` flag | receive, answer, time out, age, exclusive phases | one request at a time for a meter, in order, all reported, limits kept | `ConcurrentMeter` |
| route control | `MeteringState`: state, resume timer, result | pause, resume, restart, automatic pause and resume | believed state is the module's; own pauses end, and their timers end no client's pause | `RouteCtrl` |
| broadcast, monitor node, data transfer | result mailboxes | one exchange that pauses metering first | the dispatcher comes back, with the answer to its own request | `Dispatch`, `RouteCtrl`, `ConcurrentMeter` |
| node management | lists of each application, global map, SQLite tables, mailbox | add, delete, clear, load at start | lists, module and tables stay in step over failures and restarts | `AcqFiles` |
| initialisation and device | device state, event mailbox, `init_flag`, `online` | power, initialise, watch | clients are let in only when the module is ready; failures are retried; silence is noticed | `PlcLifecycle` |
| file upgrade | `FileUpgradeState` | transfer, wait in the pool, reports | one at a time, success only when reported, it ends | `FileUpgrade` |
| area identification, meter search | `IdentifyAreaInfo`: state, result, reports | start, stop, reports, silence of ten minutes | reports are passed on once, an end is noticed, the state is free again afterwards | `Search` |
| HPLC information | items and result of a query | queries page by page | every node once, the wait ends | `Dispatch` |
| MQTT dispatcher's queue | heap of `PriorityMessage` | check, push, pop | messages leave in order and all are answered | `Dispatch` |
| frame, serial stream | `SEQ`, the reader's buffer | encode, parse, cut the stream | exactly the frames that were sent | `Frame`, `SerialLine` |
| MQTT client, configuration, command line, logging | - | I/O | not modelled | - |

### Behaviours that are hard to test

* the agent's timeout, the reader's match and the timer's callback compete for one request;
* sequence numbers wrap after 256 requests, and so does the count of timeouts;
* a late or duplicate answer arrives when another request is in the slot;
* a panic with a lock held poisons it for every thread; the reader stops at its first error;
* two threads wait at one mailbox; results of earlier requests stay in mailboxes;
* one timer thread runs the callbacks of three components, one of which waits on it without limit;
* a chunk of an archive operation fails, or the service restarts, after others took effect;
* state outlives a power cycle of the module (`init_flag`, mailboxes, the count of timeouts);
* reports of the module arrive between a check and the step that relies on it;
* the stream cuts frames anywhere, and a damaged byte may sit in a length or a mark;
* the dispatcher waits without a time limit, at mailboxes that are never emptied beforehand;
* two closures of the pool share the state of the meter search.

The 41 hazards with their lines are in `PROJECT.json`.

## 2. Modules and the code

Every critical section (from `lock()` to its release, or to a wait on a condition variable) is
one action; a thread that waits is a value of its control variable. What happens outside a
lock between two sections is a step of its own where another thread can see the difference.
Variables marked `(history)` record what the program does not store: how far a request got
(from which the environment knows what it may still answer) or what a property looks back to.
No decision of the program depends on them.

**`UartAgent`** - `uart_agent.rs`, `request_info.rs` and the arms of `uart_handler.rs`. Actions:
`SubmitSerial`, `SubmitMeter` (services), `AgentSend/Answered/Timeout/Dies` (agent),
`ConcurrentSend/Dies`, `TimerFires`, `ConcurrentTimeout`, `CallbackPanics`, `TimerBlocks` (timer),
`ReadFrame`, `HandleReport`, `HandleAnswer`, `ReaderStops` (reader). A request is an identity
with a kind, which decides the arm its answer reaches, and a sequence number; between two of them
others, which are not followed, may have advanced `SEQ` (`NextNumbers`). The module is the
environment: it may answer whatever was written, at any later time, more than once or not at
all, with a body that parses or not, and report by itself. Writes may fail. A panic with the
lock held sets `poisoned`, after which each thread dies when it next takes the lock. `TimerBlocks` is
the resume callback of `route_ctrl.rs`, which runs on the same timer thread (`lib.rs:70` makes one
`Timer` for all) and may wait there for ever: nothing else of the timer runs any more.

**`RequestService`** - the abstract specification of the UART agent: what a service above it may
rely on, without threads, lock, slot and sequence numbers. Serial messages start in the order
they were sent, one at a time; meter readings start in order, any number open; an answer is
delivered by one thread; a request has one outcome, and has one in the end, unless the agent
broke down; a meter reading that the module does not answer has none either once the timer is
`stalled`. **`UartAgentService`** states the refinement (`ImplementsService`): `slot` is
`req_info` while the agent waits for it, `open` the entries of `concurrent_req_info`, `inHand`
what the reader handles, `halted` the poisoned mutex, `stalled` the blocked timer.

**`ConcurrentMeter`** - `service/concurrent_meter.rs`. `Receive`, `BeginExclusive` and
`EndExclusive` are the dispatcher's, `Report` and `NextRequest` the two sections of an answer
(reader) or timeout (timer), `Age` the aging timer. The UART agent is what `UartAgent` shows it
to be: a request is answered, times out or is lost, and only one of these. The timer's thread may
block (`TimerBlocks`), and then neither handles timeouts nor ages caches.

**`RouteCtrl`** - `service/route_ctrl.rs`, with the callers in `broadcast.rs` and
`monitor_node.rs`. The dispatcher and the timer thread send commands and wait; the reader posts
results; `module` is whether the module really meters. `crossed` (history) says that a resume
callback had already started when a client's pause took effect: dropping the guard of a timer does
not stop it.

**`AcqFiles`** - `service/node_manage.rs`, `service/node_config.rs` and the archive part of
`plc_init.rs`. The operators of the section NodeConfig are its functions. A loop over the nodes of
a request is a step per node: `TakeChunk` takes the next chunk (`rest` is what is behind it),
`AddNode` or `DelNode` decide for each node (`todo`) whether it concerns the module, `SendChunk` asks
it for those that do (`nodes`), `OperationReturns` is the end of the wait, `UpdateNode` changes the
lists and `SaveRow` the table. At start `LoadRow` lists the rows, one table after the other, and
`LoadConfig` sends them. The lists are sequences, as `Vec::remove` and `position` see them; a table
is the set of its rows, because nothing tells two equal rows apart. Each SQL statement is
committed by itself, and `Crash` may fall between any two steps.

**`PlcLifecycle`** - `service/plc_device.rs`, `service/plc_init.rs`, with what
`master_address.rs`, `module_info.rs` and the handlers post in the event mailbox. `works` and
`plugged` are the module's condition. The plug pin may be misread (`SeemsAbsent`). `exchanged`
(history) says that another module took the place of one that the service had initialised, or
whose address it had compared or still had in the mailbox (`StillCounts`); an initialisation that
begins with no address in the mailbox clears it.

**`FileUpgrade`** - `service/file_upgrade.rs` and the arms for its requests and the report of
the module's running information. A pool thread that loops with the lock held is the state
`"spin"`: nobody else's critical section is enabled then (`LockIsFree`). A report is two steps, the
reader's check of `is_upgrading` and its note of the end. `told` (history) says that a report came
since the pool thread took the upgrade over, `crossed` that one which was checked before may still
be noted.

**`Frame`** - `protocol/frame.rs`, `user_data.rs`, `info_field.rs`, `app_data/mod.rs`: `ToBytes` is
the chain of `Into<Vec<u8>>`, `FromBytes` that of `TryFrom<&[u8]>` in its order of checks, `parse`
is `Frame::parse`. Real byte values, no abstraction but the bits of the info field that nothing
reads.

**`SerialLine`** - `StreamReader` of `serial_port.rs` over `Frame`. The module writes frames, the
line adds bytes or changes one, a read takes any number of the bytes that are there. The stream
is a TCP connection, which the peer may close, or a serial port, whose read fails after 100 ms.

**`Dispatch`** - `mqtt_handler.rs`, `hplc_info.rs`, `monitor_node.rs`, `data_transfer.rs` and the arms
of `uart_handler.rs` that end their requests. The heap is the vector of `BinaryHeap` with the
moves of its `sift_up` and `sift_down_to_bottom`, because with this comparison the order in which
messages leave depends on them. `dispatcher` is what the thread waits for; `uart` holds the
requests that are with the agent, in order (`RequestService`); `RequestEnds` is the handler of an
answer, a denial, an answer that does not parse or a timeout, and `Unspoken` names the ends that it
posts nowhere. A monitor node request may have to wait for the automatic pause first (`TakePause`).
`query` stands for every handler that sends one request and does not wait.

**`Search`** - `service/identify_area.rs`. `Begin` to `StatusKnown` are the critical sections of the
closure, from one wait to the next, on each of the two pool threads; the ends of the requests and
the reports are the reader's and the agent's. An answer to the closure's question for the running
status ends the reader thread (`uart_handler.rs:176`), so that only its timeout comes back.

**Proofs** (section 5): `UartAgentProofs`, `ConcurrentMeterProofs`, `RouteCtrlProofs`,
`PlcLifecycleProofs`, `FileUpgradeProofs`, `DispatchProofs`, `SearchProofs` and `AcqFilesProofs`, each an
extension of the module it is about (`UartAgentProofs` of `UartAgentService`, which is also what TLC
checks). What `Tail` and `Append`
do to a queue comes from `SequenceTheorems`; three of them add what they do to a queue that holds no
request of some set (`Without`) and to one that holds exactly one (`Only`). `MCAcqFiles` adds the
symmetry sets, `MCSerialLine` and `MCDispatch` the frames, faults and messages of
the instance; the other modules are checked as they are.

Interplay: `ConcurrentMeter`, `RouteCtrl`, `AcqFiles`, `PlcLifecycle`, `FileUpgrade`, `Dispatch` and
`Search` each see the UART agent through what `RequestService` says, and its handlers through the
arm for their own requests. What else they share is in each of them: the device's gate for clients
(`stage = "ready"` in `AcqFiles`), the pause before a monitor node request (in `Dispatch` it is not
needed, succeeds, is denied or never returns, as `RouteCtrl` shows), the resume callback that blocks
the shared timer (`TimerBlocks` in `UartAgent` and `ConcurrentMeter`), the timeout of the upgrade's query that is posted to the search
(`UpgradeStatusTimeout`), the exclusive phases in `ConcurrentMeter`.

## 3. Runs

All run with `tlc -config <cfg> <module>`. Messages, faults and restarts are bounded, and a
service without work rightly stands still, so deadlock is not checked; that nothing which
should go on stands still is what the liveness properties say.

| run | states (about) | shows |
|---|---|---|
| `uart_agent` | 480,000 | two requests of any kind and a reply with two sequence numbers: no request is forgotten (`SerialCustody`, `ConcurrentCustody`), replaced in the slot (`SlotIsCurrent`) or ended twice (`OneOutcome`); one that shares its number with no other is not ended by another's answer (`AnswersAreOwn`); every serial request ends (`SerialRequestsEnd`) even when the reader has stopped or the timer is blocked; the agent implements `RequestService` (`ImplementsService`), with its fairness |
| `concurrent_meter` | 428,000 | `OneOpenRequest`, `InOrder`, `AddressesAreLimited`, `AcceptedAreReported` for four requests to three meters with one lost or badly answered and a timer that may block |
| `route_ctrl` | 21,000 | `PauseHasOwner`, `BeliefIsTrue`, `EveryWaiterIsServed`, `AutoPauseEnds` for five messages |
| `acq_files` | 1.3 million | `GlobalIsUnion`, `ModuleInStep`, `AckedAreSaved` for three operations of two applications on three addresses, a fault and a restart anywhere |
| `acq_files_init` | violation | `InitCompletes`: finding 1 |
| `plc_lifecycle` | 192,000 | `InitIsTrue`, `InitRecoversOrHangs`, `SilenceIsNoticed`, `RestartsEnd`, with faults, power cycles and exchanged modules |
| `plc_lifecycle_retry` | violation | `InitRecovers`: finding 3 |
| `file_upgrade` | 42,000 | `OneUpgrade`, `AnswerIsCurrent`, `SuccessIsReported`, `UpgradeEnds` for three upgrades |
| `serial_line` | 224,000 | `OnlySentFrames`, `BytesAreKept`, `FramesArrive` for two frames of five shapes, chunks of any size and one fault of the line anywhere |
| `dispatch` | 361,000 | `MailboxIsCurrent`, `NoSilentWait`, `PagesAreWhole`, `MessagesAreAnswered` for three of eight messages of all kinds |
| `dispatch_order` | violation | `ServedInOrder`: finding 2 |
| `search` | 480,000 | `RunningHasSearcher`, `ReportsAreKept`, `SuccessIsEarned`, `EndIsNoticed` for two searches and a stop |

The type invariants of `UartAgent` and `ConcurrentMeter` are part of the runs, where a limit of the
code (the counter's width, the length of a queue) is in them. Those of the other modules were
checked on the same instances and are kept for the proofs.

### Bounds

* `UartAgent`: two requests are one in the slot and one behind it or concurrent, or two concurrent
  ones; a reply adds the case that is not waited for. Requests that are not followed may take numbers
  between the two (`NextNumbers`), so these have different numbers or, when `SEQ` has gone round, the
  same. Every safety property of this run is proved for any number of requests and sequence numbers
  (section 5). `CounterMod` 2 lets the count of timeouts wrap.
* `ConcurrentMeter`: four messages, three addresses, an address limit of 2 and a queue of 2 reach
  both limits with an address aged and created again, and one used again while two others work.
* `RouteCtrl`: five messages allow automatic pause, client pause, resume and another automatic
  pause with the timer anywhere; one denied and one unanswered command.
* `AcqFiles`: chunks of 2 with bodies of 3 make two chunks; two applications share a node;
  two types conflict. The inductive invariant of `AcqFilesProofs` holds on this instance, too.
* `PlcLifecycle`: two chunks, two faults, two reports, one request of others; the limit of
  timeouts is 2 instead of 5 and the counter wraps at 4 instead of 256.
* `SerialLine`: two frames are enough for one to begin in the buffer of the other; the five shapes
  have no address, two and three, functions at the edges of a group of eight, and data and
  addresses that look like a header or a tail; the changed bytes hit every field, with lengths
  that are one less, one more, two frames together and beyond the buffer.
* `Dispatch`: three messages are one being handled and two in the queue, the smallest heap with
  an order to get wrong; three nodes, one that may join, and pages of two make short pages, a
  second page and an empty one.
* `Search`: two searches occupy both threads of the pool; with a stop, one period of silence, one
  stray timeout and two reports every poster meets every wait.
* `FileUpgrade`: files of 0 to 2 segments, two rounds instead of 40, two faults and two reports.

### Fairness

Weak fairness, for each thread that has something to do: `recv` returns a message that is
there, a wait with a time limit ends, a woken thread takes the lock, the timer crate runs what
is due, a handler returns. The timer crate does so only while its one thread is not blocked: the
resume callback of route control waits on it without limit, as the comment at `route_ctrl.rs:90`
fears, so in `UartAgent` and `ConcurrentMeter` the thread may block at any time between two callbacks,
and what it would have ended then has no fair step any more. In `RouteCtrl` the callback that blocks
is part of the model. The mutexes are held for short sections only (where one is not, in
`FileUpgrade`, the model says so). In the modules above the UART agent, weak fairness of its
steps is that of `RequestService`, which `uart_agent` shows the agent to provide as long as its lock is not poisoned: what the
modules above say of an end is said of an agent that did not break down. Nothing is assumed of clients, of reports, of faults,
or of whether the module answers rather than lets a request time out.

## 4. Findings

Where the code and what its documents say differ; each is a run that ends in a violation.

1. `node_manage.rs:135`: deleting looks for a row of type `"0"`; the row stays, and the address
   added again with another type makes every later initialisation fail.
2. `mqtt_handler.rs:35`: `cmp` compares one `Ordering` with another instead of chaining them: of two
   messages of one priority the later one leaves first, and an earlier message of a better
   priority equals a later one of a worse.
3. `node_manage.rs:258`: the wait for the archive has no time limit, and a clearing request that times
   out, or an answer that does not parse, posts nothing there. The README says that a failed
   initialisation is tried again after `resume_interval` (lines 11 and 101); here it hangs instead.

### Observations

What the models show of the code besides, each the reason for a condition in a property or for a
branch in an action:

* `uart_agent.rs:181`: the callback of a concurrent timeout unwraps an entry the reader may have
  removed since the callback started, and panics with the lock held (`CallbackPanics`); the
  custody properties then hold of a stopped agent.
* `concurrent_meter.rs:281`: the limit of addresses is not applied to an address whose cache is
  idle but not aged (`reused` in `AddressesAreLimited`).
* `uart_handler.rs:506`: the timeout of a route control command is never posted to the mailbox its
  sender waits at; the dispatcher hangs (`CommandUnanswered`, and `PauseEnds` in `Dispatch`: every message
  behind it stays unanswered), or the timer thread: no concurrent request times out any more, its
  address waits for ever, and no cache is aged (`TimerBlocks`, `blocked` in `AcceptedAreReported`).
* `route_ctrl.rs:83`: a resume callback that had started when a client paused ends the client's pause
  (`crossed` in `PauseHasOwner`).
* `plc_device.rs:230`: `init_flag` outlives a power cycle and an exchange of the module, which is
  then watched without address or archive (`exchanged` in `InitIsTrue`).
* `plc_init.rs:138`: the initialisation compares the last address posted to its mailbox, which nothing
  empties, neither before nor after a failed one. When a module reports and is replaced before that,
  the address of the one that is gone matches, that of the new one is never set, and clients are let
  in with a wrong address (`StillCounts` of the mailbox; without this part `InitIsTrue` is violated).
* `uart_handler.rs:98`: between the check of `is_upgrading` and the note of the end the lock is free. A
  report of the transfer, or of an earlier upgrade, that is noted after the file was handed over makes
  the upgrade a success (`crossed` in `SuccessIsReported`).
* `plc_device.rs:238`: the count of timeouts is checked before the first request of a watch and a
  power cycle does not reset it: at its limit, with no client's request to succeed, a module that
  works again is powered off and on for ever (`TooSilent` in `RestartsEnd`).
* `frame.rs:300`: with bytes before the header the length is read from the wrong place and the
  stream never recovers; any damaged byte ends the reader thread, as does a silence of 100 ms on a
  serial port (`serial_port.rs:105`). `as_fn_num` of a mark of 0 panics before the checksum is
  looked at. A partial write is not completed (`write_request`). The relay level is
  `is_some()`, not the number of relays, so that only one relay can be read back.
* `mqtt_message.rs:183`: a message that its schema refuses and that has no token panics the receiver
  thread (`Panic`); nothing is dispatched any more.
* `uart_handler.rs:412`: a denied request for a delay, and any answer that does not parse, leaves the
  dispatcher waiting for ever (`Unspoken`, hence `lost` in `NoSilentWait` and `MessagesAreAnswered`).
* `identify_area.rs:331`: a denied stop cancels the search all the same; a pause that fails drops
  the start of a search without telling its client; a result that a stop, the end of a search or
  another query's timeout leaves behind is taken for the answer to the next search (`stray` in
  `SuccessIsEarned`); a report of type `uart_slave_node_info_report` is `todo!()`; an answer to the
  running-status query ends the reader thread; `duration * 60` in 16 bits overflows (line 64).
* `node_config.rs:156`: an address named twice in one request is filed twice.

Some properties name a condition under which the code does not deliver more: `AnswersAreOwn`
holds for a request whose number is its own, `AddressesAreLimited` without the addresses whose idle
cache is used again, `BeliefIsTrue` until two threads wait at once (`EveryWaiterIsServed` until then, or
until a command is not answered), `PauseHasOwner` except for a callback that had started,
`AcceptedAreReported` except after a lost or unparsable answer for the same address and with a blocked
timer, `InitIsTrue` except for an exchanged module, `InitRecoversOrHangs` except for the unbounded wait
for the archive, `RestartsEnd` except for a count at its limit, `AnswerIsCurrent` until a report comes,
`SuccessIsReported` except for a report that is being noted, `UpgradeEnds` except for three ways to be
stuck that the property lists, `NoSilentWait` and `MessagesAreAnswered` except for three ends that are
not posted, `PagesAreWhole` except for a page that is empty or a network that changes,
`SuccessIsEarned` until a stray result. These exceptions are what the code does, not assumptions about
its environment; each was found as a counterexample to the unconditional form.

## 5. Proofs

TLAPS proves the following for every value of the constants that satisfies the named assumptions of
the modules, hence for any number of requests, messages, addresses, threads, faults and retries.
`P` stands for the theorem `Spec => []P`, or `Spec => P` when `P` is an action property.

| module | theorem: property |
|---|---|
| `UartAgentProofs` | `TypeCorrect`: `TypeOK`; `SerialCustodyHolds`: `SerialCustody`; `ConcurrentCustodyHolds`: `ConcurrentCustody`; `SlotIsCurrentHolds`: `SlotIsCurrent`; `OneOutcomeHolds`: `OneOutcome` (action); `AnswersAreOwnHolds`: `AnswersAreOwn`; `ServiceSafety`: `Service!Init /\ [][Service!Next]_(Service!vars)` |
| `ConcurrentMeterProofs` | `TypeCorrect`: `TypeOK`; `OneAtATime`: `OneOpenRequest`; `SentInOrder`: `InOrder`; `LimitKept`: `AddressesAreLimited`; `NoneLeftBehind`: `QueuedAreServed` |
| `RouteCtrlProofs` | `TypeCorrect`: `TypeOK`; `PauseOwner`: `PauseHasOwner`; `TrueBelief`: `BeliefIsTrue`; `WaiterServed`: `EveryWaiterIsServed` |
| `PlcLifecycleProofs` | `TypeCorrect`: `TypeOK`; `InitTrue`: `InitIsTrue` |
| `FileUpgradeProofs` | `TypeCorrect`: `TypeOK`; `OneAtATime`: `OneUpgrade`; `CurrentAnswer`: `AnswerIsCurrent`; `ReportedSuccess`: `SuccessIsReported` (action) |
| `DispatchProofs` | `CurrentMailbox`: `MailboxIsCurrent`; `WaitIsHeard`: `NoSilentWait`; `WholePages`: `PagesAreWhole` (action); `TypeCorrect`: `TypeOK`, with no client told twice; `NoneForgotten`: `OnePlace` |
| `SearchProofs` | `TypeCorrect`: `TypeOK`; `SearcherExists`: `RunningHasSearcher`; `NoReportLost`: `ReportsAreKept`; `SuccessEarned`: `SuccessIsEarned` |
| `AcqFilesProofs` | `TypeCorrect`: `TypeOK`; `GlobalMapIsUnion`: `GlobalIsUnion`; `ModuleIsInStep`: `ModuleInStep`; `ConfirmedAreSaved`: `AckedAreSaved`; `RemovalNeverPanics`: `RemovalFindsNode`; `OthersKeepTheirNodes`: `AskedForOwn`; `ListsSurviveRestart`: `ListsAreInTables` |

Each module also has `Invariance`: `Spec => []IInv`, from which the others follow. Hardly one of these
properties is inductive as it stands; what each `IInv` adds, and why, is this.

**`UartAgent`.** That the slot's request is not replaced needs to know that the agent is the only one
who fills it and never does so while it waits; that a request ends once needs to know that a request
in a channel is there once and has not been written, that what is in the slot or the map is written
and not finished, and that what the reader has in hand is in neither. `IInv` says this: the two
channels, the slot, the map and the reader's hand hold different requests, and the place of a request
implies its status and kind (`QueuedOnce`, `SlotInv`, `MapInv`, `HandInv`). A poisoned lock freezes the
slot, which is why `SerialCustody` and `SlotInv` exempt it; the map needs no such exemption. The proof
that a step preserves `IInv` has one lemma per thread and one step per action. Type correctness is
proved alone (`TypeStep`) and used by the others. `OneOutcomeHolds` follows step by step: each action
that gives a request a status takes it from a place where its status is not final.

`AnswersAreOwn` needs `OwnInv` besides: the frame in hand has the number of the request it was
matched with and of the one it answers (`FrameInv`), and the only replies that the module answers,
those to a 14H-F3 read, share the number of a monitorNodeDelay request that is in use (`KindInv`).
So whatever else could be taken for the answer stands for another request with the same number,
and the wrap of `SEQ` is the only way to get somebody else's answer.

`ServiceSafety` is the safety part of `ImplementsService`: one lemma per thread shows that each of its
steps is a step of `RequestService` under the mapping of `UartAgentService`, or is not visible there; the
blocking of the timer is `Stall`.
Invisible are a wake-up, the death of a thread, a timer that fires, a frame that starts a new report,
and a confirmation that is matched by a stray frame and makes the reader panic. Besides `IInv` it
needs `IdleInv`: between two messages the agent waits for nothing (otherwise a confirmation in the
slot would look like an open request).

**`ConcurrentMeter`.** `IInv` relates the four places where a reading may be: a queue holds accepted
readings of its address, once each (`QueueInv`); an address without a cache neither waits nor has a
queue, and one that has a queue and does not wait is kept back by the exclusive flag (`CacheInv`,
`FlagInv`); two handler threads never have the same reading (`HandlerInv`). For `LimitKept` the set of
busy addresses is shown finite, whatever the set of addresses is.

`NoneLeftBehind` is the safety part of `AcceptedAreReported`: a queued reading is in its queue
(`Kept`), and an address that waits has an open request or lost it to a fault (`Awaited`). With
`CacheInv` there is always somebody who will come for the queue: the handler of the open request or
the dispatcher that clears the flag. Liveness is left with the fairness of those steps.

**`RouteCtrl`.** There is one mailbox for two threads. As long as they never waited at once
(`~overlapped`), the one command with the agent or the one result in the mailbox is that of the
thread that waits, and the belief lags behind the module by exactly this command (`Progress`,
`MailboxInv`). `PauseHasOwner` needs no such limit. A monitor node request in between is told apart by `MonitorInv`.

**`PlcLifecycle`.** An archive request is with the agent only while the thread waits for its result,
so that the result is that of the last request and the module has as many chunks as were confirmed
(`ArchiveInv`), although the event mailbox may hold anybody's result. `SameModuleInv` carries the
address along: whatever address is in the mailbox is the module's, and once it was compared or set
the module has the service's, unless the module was exchanged since.

**`FileUpgrade`.** Until a report is put in the mailbox (`mixed`) a segment is with the agent, or its
answer is in the mailbox, or neither (`MailboxInv`); after the file is handed over only a report, or
the note of an older one (`crossed`), changes the status (`StatusInv`).

**`Dispatch`.** At most one request is waited for; it, and whatever a mailbox holds, is of the message
that is handled and of its kind (`RequestsInv`, `CurrentInv`, `BoxInv`), except that the data of a
monitor node may be asked for and come before the dispatcher has seen the delay. The pages so far
are the first nodes of the network and the next request begins behind them (`PagesInv`). These
proofs hold whatever message the heap gives out. `PlaceInv` then says where a message is: no place
holds it twice (`VectorInv`), it is in one place unless it was lost (`StageInv`), a client is told at
most once (`OnceInv`), and no more sequence numbers are given out than messages sent (`CountInv`).
It needs that a push and a pop rearrange the heap's vector and lose nothing, which is
proved for a heap of any size and any comparison (`SiftUpFacts`, `SiftDownFacts`): the shifts along
the way to the root are bijections of the places. The way itself, `Ancestors`, is a recursive
function; that it exists and is unique is shown by taking the least number at which a claim fails
(`LeastNat`). The order in which the messages leave is not proved, and is not what it should be
(finding 2, `ServedInOrder`).

**`Search`.** `EarnedInv` speaks of the time before a stray result: there is one search, a request to
register is the only one and its closure waits at an empty mailbox, and a result there is its own.
`RunningHasSearcher` and `ReportsAreKept` need no such limit and are inductive with the types.

**`AcqFiles`.** None of the three properties is inductive: each relates what one loop has done so far
to what a later one will do. The proof first shows what the loops do to lists of nodes (`HeadNode`,
`AppendNode`, `SplitNodes`, `RemovedNode`) and what each function of NodeConfig does to lists and a map
that is their union (`UnionAdds`, `UnionShares`, `UnionRemoves`); that the count of references is one
only for the last holder is `OnlyHolderIs`. `IInv` then follows a request through its chunks:

* `ControlInv`, `UartInv`: which parts of the request are empty in which step, and that the request
  with the agent, or the result in the mailbox, is that of the thread that waits;
* `WorkInv`: what is left names each address once, and what was found out before the module was
  asked (nobody has the nodes to add, nobody else those to delete) still holds after the wait, when
  the lists are updated. Without it the update could enter an address twice, or remove a node that
  another application shares;
* `SavedInv`: a listed node has a row, or is one of the chunk whose rows are being inserted; a node of
  an addition has a row or is still ahead; a deletion at work names no node that counts as
  confirmed. From this every node of an addition has its row when the last chunk is done;
* `ModuleInv`: the module has the filed addresses and, between its answer and the update of the lists,
  is ahead of them by exactly the rest of the chunk (`Ahead`); at start it has none, then those of the
  chunks confirmed so far. Only requests without an answer add to `doubt`.

`RemovalNeverPanics` (the `unwrap` in `remove_node_info_checked` finds its node) and
`OthersKeepTheirNodes` are consequences of `WorkInv`, `ListsSurviveRestart` of `SavedInv`. The converse
of the latter, that a row has a listed node, is false: finding 1.

Assumptions on the constants: bounds are natural numbers (a modulus, a queue or a number of
segments positive where the code needs it); sets of identities are disjoint; `None` is none of the
values it stands beside (`NoneAssumption`, `IdsAssumption`, which tell `Option::None` from what the
option holds; `TypesAssumption` for the types of a node and the results in the mailbox); `Net0` of
`Dispatch` is a sequence; the applications of `AcqFiles` are finitely many (`AppsAssumption`: they
are keys of a `HashMap`), because its count of references is a cardinality. TLC evaluates them in
every run. No other assumption limits the size of a set.

Only model-checked, and why:

* `SerialLine` (`OnlySentFrames`, `BytesAreKept`, `FramesArrive`): the checksum and the bytes
  of a list of frames are folds over sequences of any length, and a fold's operator is a parameter:
  its equations are theorems that none of the installed provers can instantiate. Besides,
  `OnlySentFrames` is not true of every fault: bytes added by the line may spell a valid frame, and
  the checksum is one byte. It is a statement about the faults of the instance.
* Liveness (`SerialRequestsEnd`, `AcceptedAreReported`, `AutoPauseEnds`, `InitRecoversOrHangs`,
  `SilenceIsNoticed`, `RestartsEnd`, `UpgradeEnds`, `MessagesAreAnswered`, `EndIsNoticed`) and the fairness
  of `RequestService` in `ImplementsService`: the prover has neither fairness nor `ENABLED`.

No module that has theorems uses a recursive operator.

## 6. What is simplified

* `UartAgent`: timeouts may fall at any moment after the wait began; a request's bytes are its
  kind. `MAX_RETRY` is 1, so there is no second attempt.
* `AcqFiles`: a request names an address once; SQL statements do not fail; the rows of a table are
  read in any order.
* `PlcLifecycle`: an error of GPIO or ioctl when switching enters the same state again and is not a
  step; one when reading the plug pin counts as a module that is not there (`SeemsAbsent`).
* `SerialLine`: one fault of the line in a behaviour; an error and a panic of the parser are one.
* `Dispatch`: a broadcast and the start of a search wait for the automatic pause like a monitor node,
  and may hang there in the same way; here they are taken as if they had it (`RouteCtrl` has the pause
  of a broadcast). Topics are not matched (a message has its handler); a message of no handler is
  dropped with a log line; the timeouts of handlers without a mailbox tell the client.
* `Search`: the pause before a start succeeds or fails, its hanging is `Dispatch`'s; spurious wake-ups only evaluate a condition again and are no step.
* `FileUpgrade`: the number of segments does not exceed its 16 bits; reading the file does not
  fail after it was opened.
* Payloads, topics, JSON and the module's data are left out wherever no decision depends on them.

Not modelled: the MQTT client (a library with its own sessions), the counters of the meter state
(nothing reads them but a client), a client's change of the address the service keeps, device
information (one exchange at start), opening and configuring the port, command line,
configuration and logging (pure I/O), and the encodings of the message bodies (no state and no
decision but whether they parse).

## 7. Plan

Done: the UART agent and the specification it implements, then the services in the order of how
much can go wrong in them: meter reading, route control, archive, life cycle, file upgrade,
dispatcher and mailboxes, meter search; the frames and the stream below the agent. Every safety
property of a passing run is proved, but for those of `SerialLine`.

To do:

1. `AcqFiles` with the identity of references, for requests that name an address twice.
