---------------------------- MODULE PlcLifecycle ----------------------------
(***************************************************************************)
(* PlcDevice and PlcInit (src/src/service/plc_device.rs, plc_init.rs): the *)
(* thread that powers the module, initialises it and then watches it. It   *)
(* waits in one mailbox for two kinds of events, a result or an address,   *)
(* which the reader and the timeout handler post over one another: answers *)
(* to its own requests, reports of the module, timeouts of requests of     *)
(* others. The archive has a mailbox of its own (NodeManage).              *)
(***************************************************************************)
EXTENDS Naturals, Sequences

CONSTANTS
  Chunks,         \* chunks of the archive that are sent at init
  TimeoutLimit,   \* consecutive timeouts that make the device restart: 5
  CounterMod,     \* number of values of consecutive_timeouts: 256
  MaxFaults,      \* bound on what goes wrong: a request of a module that works is denied, answered
                  \* unparsably or not at all, the pin is misread, the module is unplugged or breaks
  MaxReports,     \* bound on the module's own reports
  MaxOthers,      \* bound on the requests of other threads
  None

ASSUME BoundsAssumption ==
  /\ Chunks \in Nat /\ MaxFaults \in Nat /\ MaxReports \in Nat /\ MaxOthers \in Nat
  /\ TimeoutLimit \in Nat /\ CounterMod \in Nat /\ TimeoutLimit < CounterMod
ASSUME NoneAssumption == None \notin Nat \cup {"ok", "err", "own", "other"}

VARIABLES
  state,                 \* PlcDevice: "Init", "CheckMid", "Running" or "Destroy"
  pc, tries, left,       \* within Running: where it is, the tries and chunks that are left
  event,                 \* PlcInitResult: None, a result "ok"/"err" or an address "own"/"other"
  operation_result,      \* NodeManage: the mailbox for the archive
  init_flag, online,
  consecutive_timeouts,
  uartQ,                 \* the requests with the UART agent
  owed,                  \* reader: what it posts next for the answer it handles
  address, files,        \* the module: its address; None, or the chunks it got since cleared
  plugged, works,        \* the module: it is there; it answers
  exchanged,             \* another module is in its place and taken for it (history)
  faults, reports, others

device == <<state, pc, tries, left>>
mailboxes == <<event, operation_result>>
flags == <<init_flag, online>>
module == <<address, files, plugged, works, exchanged>>
bounds == <<faults, reports, others>>
vars == <<device, mailboxes, flags, consecutive_timeouts, uartQ, owed, module, bounds>>

Own == {"GetInfo", "SetAddress", "Params", "AddNode"}

\* A request of an MQTT client, and one a service sends by itself (an automatic pause).
Others == {"client", "auto"}

IsNewAddress(e) == e = "other"    \* mutant of IsAddress
IsAddress(e) == e \in {"own", "other"}

----------------------------------------------------------------------------
(* The states of PlcDevice. *)

Go(s) == state' = s /\ pc' = "start" /\ tries' = 0 /\ left' = 0

\* plc_power_on. (After an error the same state is entered again.) The module keeps its
\* address and its archive, and the service keeps init_flag and the count of timeouts.
PowerOn ==
  /\ state = "Init"
  /\ Go("CheckMid")
  /\ UNCHANGED <<mailboxes, flags, consecutive_timeouts, uartQ, owed, module, bounds>>

\* plc_device_on says that the module is not there, or the pin of one that is cannot be read:
\* the device file does not open, the ioctl fails, or it is high for a moment.
SeemsAbsent ==
  \/ ~plugged /\ UNCHANGED faults
  \/ plugged /\ faults < MaxFaults /\ faults' = faults + 1

\* The module is not seen three times, or is seen once.
CheckMid ==
  /\ state = "CheckMid"
  /\ \/ /\ plugged
        /\ Go("Running")
        /\ online' = TRUE
        /\ UNCHANGED faults
     \/ /\ SeemsAbsent
        /\ Go("Destroy")
        /\ UNCHANGED online
  /\ UNCHANGED <<mailboxes, init_flag, consecutive_timeouts, uartQ, owed, module, reports, others>>

PowerOff ==
  /\ state = "Destroy"
  /\ Go("Init")
  /\ UNCHANGED <<mailboxes, flags, consecutive_timeouts, uartQ, owed, module, bounds>>

At(p) == state = "Running" /\ pc = p

TooSilent == consecutive_timeouts >= TimeoutLimit

\* plc_device_run: an initialised module is watched, another one is initialised. The first
\* round of the watch already looks at the count, which only the end of a request changes.
\* (History: an initialisation starts anew, unless an address is left for it in the mailbox.)
Run ==
  /\ At("start")
  /\ \/ /\ ~init_flag
        /\ pc' = "report"
        /\ exchanged' = (exchanged /\ IsAddress(event))
        /\ UNCHANGED <<state, tries, left, faults>>
     \/ /\ init_flag /\ plugged /\ ~TooSilent
        /\ pc' = "watch"
        /\ UNCHANGED <<state, tries, left, exchanged, faults>>
     \/ /\ init_flag
        /\ SeemsAbsent \/ (plugged /\ TooSilent /\ UNCHANGED faults)
        /\ Go("Destroy")
        /\ UNCHANGED exchanged
  /\ UNCHANGED <<mailboxes, flags, consecutive_timeouts, uartQ, owed, address, files, plugged, works,
                 reports, others>>

\* A later round does not see the module or finds that it timed out too often. Every twentieth
\* round looks at the count, so a heartbeat may still be sent after it went over the limit.
WatchFails ==
  /\ At("watch")
  /\ SeemsAbsent \/ (plugged /\ TooSilent /\ UNCHANGED faults)
  /\ Go("Destroy")
  /\ UNCHANGED <<mailboxes, flags, consecutive_timeouts, uartQ, owed, module, reports, others>>

----------------------------------------------------------------------------
(* PlcInit. *)

Send(req, p) == uartQ' = Append(uartQ, req) /\ pc' = p

\* get_master_address asks, at most three times.
Ask(n) == Send("GetInfo", "address") /\ tries' = n /\ UNCHANGED <<state, left>>

\* The checks of all rounds found nothing: a heartbeat.
Heartbeat ==
  /\ At("watch") /\ plugged
  /\ Ask(1)
  /\ UNCHANGED <<mailboxes, flags, consecutive_timeouts, owed, module, bounds>>

\* init_clear_acq_files, up to its wait.
ClearFiles ==
  /\ Send("Params", "clear")
  /\ operation_result' = None
  /\ UNCHANGED <<state, tries, left>>

\* An address that is not the service's is set first.
Compare(e) ==
  IF e = "own" THEN ClearFiles
  ELSE Send("SetAddress", "result") /\ UNCHANGED <<state, tries, left, operation_result>>

\* wait_init_address: a report, another event, or nothing in time.
ReportAwaited ==
  /\ At("report")
  /\ \/ /\ IsAddress(event)
        /\ event' = None
        /\ Compare(event)
     \/ /\ ~IsAddress(event)
        /\ event' = None
        /\ Ask(1)
        /\ UNCHANGED operation_result
  /\ UNCHANGED <<flags, consecutive_timeouts, owed, module, bounds>>

\* wait_address, after whose failure get_master_address may ask again.
MayRetry == tries < 3

AddressAwaited ==
  /\ At("address") /\ event # None
  /\ event' = None
  /\ \/ /\ IsAddress(event) /\ init_flag
        /\ Go("Running")
        /\ UNCHANGED <<uartQ, operation_result>>
     \/ /\ IsAddress(event) /\ ~init_flag
        /\ Compare(event)
     \/ /\ ~IsAddress(event) /\ MayRetry
        /\ Ask(tries + 1)
        /\ UNCHANGED operation_result
     \/ /\ ~IsAddress(event) /\ ~MayRetry
        /\ Go("Destroy")
        /\ UNCHANGED <<uartQ, operation_result>>
  /\ UNCHANGED <<flags, consecutive_timeouts, owed, module, bounds>>

\* wait_result for the address: it was set. Mutant: any event will do.
SetIfAny(e) == TRUE
Set(e) == e = "ok"

ResultAwaited ==
  /\ At("result") /\ event # None
  /\ event' = None
  /\ \/ Set(event) /\ ClearFiles
     \/ ~Set(event) /\ Go("Destroy") /\ UNCHANGED <<uartQ, operation_result>>
  /\ UNCHANGED <<flags, consecutive_timeouts, owed, module, bounds>>

\* The next chunk of the archive is sent; after the last the module is initialised.
LoadFrom(n) ==
  IF n > 0
  THEN /\ Send("AddNode", "load")
       /\ left' = n - 1
       /\ operation_result' = None
       /\ UNCHANGED <<state, tries, init_flag>>
  ELSE /\ Go("Running")
       /\ init_flag' = TRUE
       /\ operation_result' = None
       /\ UNCHANGED uartQ

\* wait_operation_result, after the request that clears and after each chunk. (Also
\* load_config may fail, see AcqFiles.)
OperationAwaited ==
  /\ At("clear") \/ At("load")
  /\ operation_result # None
  /\ \/ /\ operation_result = "ok"
        /\ LoadFrom(IF pc = "clear" THEN Chunks ELSE left)
     \/ /\ operation_result # "ok"
        /\ operation_result' = None
        /\ Go("Destroy")
        /\ UNCHANGED <<uartQ, init_flag>>
  /\ UNCHANGED <<event, online, consecutive_timeouts, owed, module, bounds>>

----------------------------------------------------------------------------
(* The UART agent, its reader and the module. *)

Powered == plugged /\ state # "Init"

\* What the module does with a request it gets.
Obeys(req) ==
  /\ address' = IF req = "SetAddress" THEN "own" ELSE address
  /\ files' = CASE req = "Params" -> 0
                [] req = "AddNode" /\ files # None -> files + 1
                [] OTHER -> files

\* uart_init_handler for a confirmed request: the archive's result is posted first, and
\* the same answer is then posted to PlcInit.
UartConfirms ==
  /\ uartQ # << >> /\ owed = None /\ Powered /\ works
  /\ LET req == Head(uartQ) IN
       /\ Obeys(req)
       /\ event' = CASE req = "GetInfo" -> address
                     [] req = "SetAddress" -> "ok"
                     [] OTHER -> event
       /\ operation_result' = IF req \in {"Params", "AddNode"} THEN "ok" ELSE operation_result
       /\ owed' = IF req \in {"Params", "AddNode"} THEN "ok" ELSE None
  /\ uartQ' = Tail(uartQ)
  /\ consecutive_timeouts' = 0
  /\ UNCHANGED <<device, flags, plugged, works, exchanged, bounds>>

\* For one that is denied; a denial of an archive request is posted to PlcInit as a success.
UartDenies ==
  /\ uartQ # << >> /\ owed = None /\ Powered /\ works
  /\ faults < MaxFaults /\ faults' = faults + 1
  /\ LET req == Head(uartQ) IN
       /\ event' = IF req \in {"GetInfo", "SetAddress"} THEN "err" ELSE event
       /\ operation_result' = IF req \in {"Params", "AddNode"} THEN "err" ELSE operation_result
       /\ owed' = IF req \in {"Params", "AddNode"} THEN "ok" ELSE None
  /\ uartQ' = Tail(uartQ)
  /\ consecutive_timeouts' = 0
  /\ UNCHANGED <<device, flags, module, reports, others>>

\* The answer does not parse: an archive request gets no result, only PlcInit hears of it.
UartBadlyAnswers ==
  /\ uartQ # << >> /\ owed = None /\ Powered /\ works
  /\ faults < MaxFaults /\ faults' = faults + 1
  /\ Obeys(Head(uartQ))
  /\ event' = IF Head(uartQ) \in Own THEN "err" ELSE event
  /\ uartQ' = Tail(uartQ)
  /\ consecutive_timeouts' = 0
  /\ UNCHANGED <<device, operation_result, flags, owed, plugged, works, exchanged, reports, others>>

PostOwed ==
  /\ owed # None
  /\ event' = owed
  /\ owed' = None
  /\ UNCHANGED <<device, operation_result, flags, consecutive_timeouts, uartQ, module, bounds>>

\* handle_timeout: the default handler tells PlcInit of every request that no client sent,
\* the handler of AddNode tells NodeManage. Mutant: PlcInit is not told.
ToldOfNone(req) == event
ToldOf(req) == IF req \in {"AddNode", "client"} THEN event ELSE "err"

UartTimesOut ==
  /\ uartQ # << >>
  /\ \/ ~(Powered /\ works) /\ UNCHANGED <<faults, address, files>>
     \/ /\ Powered /\ works
        /\ faults < MaxFaults /\ faults' = faults + 1
        /\ Obeys(Head(uartQ)) \/ UNCHANGED <<address, files>>
  /\ event' = ToldOf(Head(uartQ))
  /\ operation_result' = IF Head(uartQ) = "AddNode" THEN "err" ELSE operation_result
  /\ uartQ' = Tail(uartQ)
  /\ consecutive_timeouts' = (consecutive_timeouts + 1) % CounterMod
  /\ UNCHANGED <<device, flags, owed, plugged, works, exchanged, reports, others>>

\* uart_slave_report_handler: the module reports its information by itself.
ModuleReports ==
  /\ Powered /\ works /\ owed = None
  /\ reports < MaxReports /\ reports' = reports + 1
  /\ event' = address
  /\ UNCHANGED <<device, operation_result, flags, consecutive_timeouts, uartQ, owed, module, faults, others>>

\* PlcDevice::available decides whether an MQTT message is let in.
available == online /\ init_flag

OtherRequest(req) ==
  /\ available
  /\ others < MaxOthers /\ others' = others + 1
  /\ uartQ' = Append(uartQ, req)
  /\ UNCHANGED <<device, mailboxes, flags, consecutive_timeouts, owed, module, faults, reports>>

----------------------------------------------------------------------------
(* The module is pulled out and put back, or stops answering for good. *)

Unplug ==
  /\ plugged /\ faults < MaxFaults /\ faults' = faults + 1
  /\ plugged' = FALSE
  /\ UNCHANGED <<device, mailboxes, flags, consecutive_timeouts, uartQ, owed, address, files, works,
                 exchanged, reports, others>>

\* What was learned of the module or done to it is still relied on: it is initialised, or its
\* address was compared already, or waits in the mailbox to be compared.
StillCounts == init_flag \/ pc \in {"result", "clear", "load"} \/ IsAddress(event)

\* The module comes back, or another one does, with an address and an archive of its own.
Plug ==
  /\ ~plugged
  /\ plugged' = TRUE
  /\ \/ UNCHANGED <<address, files, exchanged>>
     \/ /\ address' \in {"own", "other"}
        /\ files' = None
        /\ exchanged' = (exchanged \/ StillCounts)
  /\ UNCHANGED <<device, mailboxes, flags, consecutive_timeouts, uartQ, owed, works, bounds>>

Breaks ==
  /\ works /\ faults < MaxFaults /\ faults' = faults + 1
  /\ works' = FALSE
  /\ UNCHANGED <<device, mailboxes, flags, consecutive_timeouts, uartQ, owed, address, files, plugged,
                 exchanged, reports, others>>

----------------------------------------------------------------------------
(* The specification. *)

Init ==
  /\ state = "Init" /\ pc = "start" /\ tries = 0 /\ left = 0
  /\ event = None /\ operation_result = None
  /\ init_flag = FALSE /\ online = FALSE
  /\ consecutive_timeouts = 0
  /\ uartQ = << >> /\ owed = None
  /\ address \in {"own", "other"} /\ files = None
  /\ plugged \in BOOLEAN /\ works = TRUE
  /\ exchanged = FALSE
  /\ faults = 0 /\ reports = 0 /\ others = 0

Initialise == ReportAwaited \/ AddressAwaited \/ ResultAwaited \/ OperationAwaited
Device == PowerOn \/ CheckMid \/ PowerOff \/ Run \/ WatchFails \/ Heartbeat \/ Initialise
Uart == UartConfirms \/ UartDenies \/ UartBadlyAnswers \/ PostOwed \/ UartTimesOut
Environment == ModuleReports \/ (\E r \in Others : OtherRequest(r)) \/ Unplug \/ Plug \/ Breaks

Next == Device \/ Uart \/ Environment

Spec == Init /\ [][Next]_vars

\* The device thread goes on when it does not wait, and the UART agent ends every request.
Fairness == WF_vars(Device) /\ WF_vars(Uart)

FairSpec == Spec /\ Fairness

----------------------------------------------------------------------------
(* Properties. *)

\* The types of the variables.
TypeOK ==
  /\ state \in {"Init", "CheckMid", "Running", "Destroy"}
  /\ pc \in {"start", "watch", "report", "address", "result", "clear", "load"}
  /\ tries \in 0 .. 3 /\ left \in 0 .. Chunks
  /\ event \in {None, "ok", "err", "own", "other"}
  /\ operation_result \in {None, "ok", "err"}
  /\ init_flag \in BOOLEAN /\ online \in BOOLEAN
  /\ consecutive_timeouts \in 0 .. CounterMod - 1
  /\ uartQ \in Seq(Own \cup Others) /\ owed \in {None, "ok"}
  /\ address \in {"own", "other"} /\ files \in 0 .. Chunks \cup {None}
  /\ plugged \in BOOLEAN /\ works \in BOOLEAN /\ exchanged \in BOOLEAN
  /\ faults \in 0 .. MaxFaults /\ reports \in 0 .. MaxReports /\ others \in 0 .. MaxOthers

\* Once the service is open to clients the module has the service's address and the whole
\* archive, although results, addresses and timeouts meant for others, and some from before
\* the module was powered off, arrive in the mailbox its initialisation waits at, and no late
\* request of an initialisation that failed undoes it. It may not have them when another
\* module took its place after it was initialised (init_flag is not reset), after its address
\* was compared, or while its address was still in the mailbox: nothing empties that, and the
\* initialisation then compares the address of a module that is gone. A module that is put in
\* at any other time is initialised like the first.
InitIsTrue == init_flag => exchanged \/ (address = "own" /\ files = Chunks)

\* The thread waits for an archive result, and no request that could have one is under way.
Hung ==
  /\ At("clear") \/ At("load")
  /\ operation_result = None
  /\ \A i \in 1 .. Len(uartQ) : uartQ[i] \notin {"Params", "AddNode"}

\* The README says that an initialisation recovers from a failure by itself and is tried again.
\* In the code a clearing request or a chunk that gets no result, because it times out without
\* a word to NodeManage or its answer does not parse, leaves the thread waiting for ever.
InitRecovers == ~init_flag ~> (init_flag \/ ~works \/ ~plugged)

\* That is the only way in which it does not recover: after denials, failed readings of the
\* pin, bad answers and timeouts, with stale events in the mailbox, an initialisation is
\* tried again until it succeeds, the module is gone or it does not answer.
InitRecoversOrHangs == ~init_flag ~> (init_flag \/ ~works \/ ~plugged \/ Hung)

\* A module that stops answering is noticed: the device is powered off and on, by a
\* heartbeat or the count of timeouts, although stale events stand in for answers.
SilenceIsNoticed == (init_flag /\ ~works) ~> (state = "Destroy")

\* A device is not restarted for ever, unless the module does not answer or the count of
\* timeouts stays at its limit: a power cycle does not reset the count, and the first round
\* of the watch then ends before a request could.
RestartsEnd ==
  []<>(state = "Destroy") => <>[](~works \/ ~plugged) \/ []<>(init_flag /\ TooSilent)
=============================================================================
