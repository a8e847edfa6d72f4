------------------------------ MODULE Dispatch ------------------------------
(***************************************************************************)
(* From a client's message to its answer (src/src/mqtt_handler.rs): the    *)
(* receiver thread checks the message against its schema and puts it into  *)
(* the priority queue, the dispatcher thread takes one message at a time   *)
(* and runs its handler.  The handlers that wait for the module are        *)
(* modelled with their mailboxes: the queries of topology and versions,    *)
(* page by page (hplc_info.rs), monitor node with and without delay        *)
(* (monitor_node.rs) and data transfer (data_transfer.rs).  A query that   *)
(* is only sent on stands for all handlers that do not wait.               *)
(*                                                                         *)
(* The UART agent is used by what it promises (RequestService): it takes   *)
(* its requests in order, one at a time, and each ends once, with a frame  *)
(* of the module or with a timeout.  Of the pause before a monitor node    *)
(* request there is the dispatcher's wait for it; what the pause does, and *)
(* its timer, RouteCtrl models.  Broadcasts and searches wait for the same *)
(* pause, and are not taken here besides.                                  *)
(***************************************************************************)
EXTENDS Integers, Sequences, FiniteSets, SequencesExt

CONSTANTS
  Messages,           \* records with kind, prio and form
  MaxSent,            \* bound: messages of clients
  Net0,               \* the nodes the module knows at first, in order
  Newcomer,           \* a node that may join
  QUERY_NODE_NUMBER   \* nodes asked for in one page, 10 in the code

Paged == {"topology", "version"}
Kind == Paged \cup {"query", "node", "delay", "transfer"}
\* accepted by its schema, rejected, or without JSON or token
Form == {"accepted", "rejected", "garbled"}

ASSUME DispatchAssumption ==
  /\ Messages \subseteq [id : Nat, kind : Kind, prio : Nat, form : Form]
  /\ MaxSent \in Nat
  /\ QUERY_NODE_NUMBER \in Nat \ {0}
  /\ Net0 \in Seq(Range(Net0)) /\ Newcomer \notin Range(Net0)

VARIABLES
  inbox,       \* msg_receiver: messages from the MQTT client
  receiver,    \* the receiver thread: "running", or "ended" by a panic
  heap,        \* PriorityQueue.queue, the vector of the BinaryHeap
  sequence,    \* SEQUENCE
  dispatcher,  \* Idle, or what the dispatcher thread waits for
  uart,        \* requests with the UART agent, the first one is at the module
  box,         \* the mailboxes of HplcInfo, MonitorNode, DataTransfer and RouteCtrl
  items,       \* MqttHplcInfo.items
  net,         \* the nodes that the module knows now
  sent,        \* history: messages sent by clients
  told,        \* history: what the client of a message was told
  lost,        \* history: messages of which a request ended Unspoken
  netThen      \* history: net at the start of a query, or Changed

vars == <<inbox, receiver, heap, sequence, dispatcher, uart, box, items, net,
          sent, told, lost, netThen>>

Idle == [waits |-> "no"]
Changed == "changed"
Empty == [is |-> "none"]
Err == [is |-> "err"]
Ok == [is |-> "ok"]
Delay == [is |-> "delay"]
Page(kind, total, body) == [is |-> "page", kind |-> kind, total |-> total, body |-> body]

Boxes == {"hplc", "monitor", "transfer", "route"}
\* the mailbox of a request of this sort
BoxOf(what) == CASE what \in Paged -> "hplc"
                 [] what = "transfer" -> "transfer"
                 [] what = "pause" -> "route"
                 [] OTHER -> "monitor"

Init ==
  /\ inbox = <<>>
  /\ receiver = "running"
  /\ heap = <<>>
  /\ sequence = 0
  /\ dispatcher = Idle
  /\ uart = <<>>
  /\ box = [b \in Boxes |-> Empty]
  /\ items = [total |-> 0, body |-> <<>>]
  /\ net = Net0
  /\ sent = {}
  /\ told = [m \in Messages |-> <<>>]
  /\ lost = {}
  /\ netThen = Changed

---------------------------------------------------------------------------
(* PriorityMessage::cmp: -1, 0 and 1 for Less, Equal and Greater.  The     *)
(* order of the priorities is compared with the order of the sequence      *)
(* numbers, both reversed.                                                 *)

Sign(a, b) == IF a < b THEN -1 ELSE IF a = b THEN 0 ELSE 1
cmp(a, b) == Sign(Sign(b.priority, a.priority), Sign(b.sequence, a.sequence))
AtMost(a, b) == cmp(a, b) <= 0

(* The BinaryHeap of the standard library: an element moves up while it is *)
(* greater than its parent; after a pop the last one takes the root,       *)
(* moves down along the greater children to a leaf and up again.           *)

\* the places from p up to the root
Ancestors[p \in Nat] == IF p = 0 THEN {} ELSE {p} \cup Ancestors[p \div 2]

SiftUp(h, from) ==
  LET x == h[from]
      to == Max({p \in Ancestors[from] : p = 1 \/ AtMost(x, h[p \div 2])})
  IN [i \in DOMAIN h |-> IF i = to THEN x
                         ELSE IF i \in Ancestors[from] /\ i > to THEN h[i \div 2]
                         ELSE h[i]]

SiftDownToBottom(h) ==
  LET n == Len(h)
      Child(p) == IF 2 * p + 1 <= n /\ AtMost(h[2 * p], h[2 * p + 1]) THEN 2 * p + 1 ELSE 2 * p
      to == CHOOSE p \in 1..n : 2 * p > n /\ \A q \in Ancestors[p] \ {1} : q = Child(q \div 2)
  IN SiftUp([i \in DOMAIN h |-> IF i = to THEN h[1]
                                ELSE IF i \in Ancestors[to] THEN h[Child(i)]
                                ELSE h[i]], to)

HeapPush(h, x) == SiftUp(Append(h, x), Len(h) + 1)
HeapRest(h) == IF Len(h) = 1 THEN <<>>
               ELSE SiftDownToBottom([i \in 1..Len(h) - 1 |-> IF i = 1 THEN h[Len(h)] ELSE h[i]])

---------------------------------------------------------------------------
(* The client and the receiver thread. *)

ClientSends(m) ==
  /\ m \notin sent
  /\ Cardinality(sent) < MaxSent
  /\ sent' = sent \cup {m}
  /\ inbox' = Append(inbox, m)
  /\ UNCHANGED <<receiver, heap, sequence, dispatcher, uart, box, items, net, told, lost, netThen>>

Failure == [is |-> "failure"]
Success(body) == [is |-> "success", body |-> body]

Tell(m, reply) == told' = [told EXCEPT ![m] = Append(@, reply)]

Accept(m) ==
  /\ m.form = "accepted"
  /\ heap' = HeapPush(heap, [priority |-> m.prio, sequence |-> sequence, message |-> m])
  /\ sequence' = sequence + 1
  /\ UNCHANGED <<receiver, told>>

Reject(m) ==
  /\ m.form = "rejected"
  /\ Tell(m, Failure)
  /\ UNCHANGED <<receiver, heap, sequence>>

\* the answer to a message that is refused is built with get_token, which unwraps
Panic(m) ==
  /\ m.form = "garbled"
  /\ receiver' = "ended"
  /\ UNCHANGED <<heap, sequence, told>>

Receive ==
  /\ receiver = "running"
  /\ inbox # <<>>
  /\ inbox' = Tail(inbox)
  /\ LET m == Head(inbox) IN Accept(m) \/ Reject(m) \/ Panic(m)
  /\ UNCHANGED <<dispatcher, uart, box, items, net, sent, lost, netThen>>

---------------------------------------------------------------------------
(* The dispatcher thread. *)

Request(m, what, start) == [message |-> m, what |-> what, start |-> start]
Wait(m, for) == [waits |-> BoxOf(for), message |-> m, for |-> for]

\* one request of the message goes to the agent and the dispatcher waits for its end
SendAndWait(m, what, start) ==
  /\ uart' = Append(uart, Request(m, what, start))
  /\ dispatcher' = Wait(m, what)

SendQuery(m) ==
  /\ m.kind = "query"
  /\ uart' = Append(uart, Request(m, "query", 0))
  /\ UNCHANGED <<dispatcher, items, told, netThen>>

\* Mutant: a page begins with the last node of the one before.
start_index_overlaps(body) == IF body = <<>> THEN 1 ELSE Len(body)

start_index(body) == 1 + Len(body)

\* mqtt_hplc_info_request up to its first wait
SendPaged(m) ==
  /\ m.kind \in Paged
  /\ items' = [total |-> 0, body |-> <<>>]
  /\ netThen' = net
  /\ SendAndWait(m, m.kind, start_index(<<>>))
  /\ UNCHANGED told

SendTransfer(m) ==
  /\ m.kind = "transfer"
  /\ SendAndWait(m, "transfer", 0)
  /\ UNCHANGED <<items, told, netThen>>

\* get_monitor_node_info: auto_pause_metering finds the meters paused, or asks for it first
SendMonitor(m) ==
  /\ m.kind \in {"node", "delay"}
  /\ SendAndWait(m, m.kind, 0) \/ SendAndWait(m, "pause", 0)
  /\ UNCHANGED <<items, told, netThen>>

Pop ==
  /\ dispatcher = Idle
  /\ heap # <<>>
  /\ heap' = HeapRest(heap)
  /\ LET m == heap[1].message
     IN SendQuery(m) \/ SendPaged(m) \/ SendTransfer(m) \/ SendMonitor(m)
  /\ UNCHANGED <<inbox, receiver, sequence, box, net, sent, lost>>

\* the mailbox is emptied
Take(b) == box' = [box EXCEPT ![b] = Empty]

Return(m, reply) == Tell(m, reply) /\ dispatcher' = Idle

\* Mutant: an empty page does not end the query.
IsLastByTotal(data, body) == Len(body) >= data.total

IsLast(data, body) == data.body = <<>> \/ Len(body) >= data.total

(* The dispatcher woke up with a page.  The downcast of the result to the  *)
(* kind of this query is the code's unwrap; MailboxIsCurrent shows that it *)
(* succeeds.                                                               *)
TakePage ==
  /\ dispatcher.waits = "hplc"
  /\ box["hplc"] # Empty
  /\ Take("hplc")
  /\ LET m == dispatcher.message
         data == box["hplc"]
         body == items.body \o data.body
     IN \/ /\ data = Err
           /\ Return(m, Failure)
           /\ UNCHANGED <<items, uart>>
        \/ /\ data # Err
           /\ items' = [total |-> data.total, body |-> body]
           /\ IF IsLast(data, body)
              THEN Return(m, Success(body)) /\ UNCHANGED uart
              ELSE SendAndWait(m, m.kind, start_index(body)) /\ UNCHANGED told
  /\ UNCHANGED <<inbox, receiver, heap, sequence, net, sent, lost, netThen>>

\* Mutant: the wait has a time limit.
TakeDataOrGiveUp ==
  /\ dispatcher.waits \in {"monitor", "transfer"}
  /\ dispatcher.for # "delay"
  /\ Return(dispatcher.message, IF box[dispatcher.waits] = Ok THEN Success(<<>>) ELSE Failure)
  /\ Take(dispatcher.waits)
  /\ UNCHANGED <<inbox, receiver, heap, sequence, uart, items, net, sent, lost, netThen>>

\* wait_data, of a plain request or after the delay
TakeData ==
  /\ dispatcher.waits \in {"monitor", "transfer"}
  /\ dispatcher.for # "delay"
  /\ LET result == box[dispatcher.waits]
     IN /\ result # Empty
        /\ Return(dispatcher.message, IF result = Ok THEN Success(<<>>) ELSE Failure)
  /\ Take(dispatcher.waits)
  /\ UNCHANGED <<inbox, receiver, heap, sequence, uart, items, net, sent, lost, netThen>>

\* wait_delay, and then wait_data
TakeDelay ==
  /\ dispatcher.waits = "monitor"
  /\ dispatcher.for = "delay"
  /\ box["monitor"] # Empty
  /\ IF box["monitor"] = Delay
     THEN dispatcher' = Wait(dispatcher.message, "data") /\ UNCHANGED told
     ELSE Return(dispatcher.message, Failure)
  /\ Take("monitor")
  /\ UNCHANGED <<inbox, receiver, heap, sequence, uart, items, net, sent, lost, netThen>>

\* the wait of auto_pause_metering
TakePause ==
  /\ dispatcher.waits = "route"
  /\ box["route"] # Empty
  /\ LET m == dispatcher.message
     IN \/ box["route"] = Ok /\ SendAndWait(m, m.kind, 0) /\ UNCHANGED told
        \/ box["route"] # Ok /\ Return(m, Failure) /\ UNCHANGED uart
  /\ Take("route")
  /\ UNCHANGED <<inbox, receiver, heap, sequence, items, net, sent, lost, netThen>>

---------------------------------------------------------------------------
(* The end of the request at the module: the reader thread or the agent    *)
(* runs the handler of the answer or of the timeout.                       *)

Post(r, result) ==
  /\ box' = [box EXCEPT ![BoxOf(r.what)] = result]
  /\ UNCHANGED <<told, lost>>

\* The ends that nobody posts: an answer that does not parse, a denied request for a delay,
\* and the timeout of an automatic pause.
Unspoken(r, outcome) ==
  \/ outcome = "garbled"
  \/ outcome = "deny" /\ r.what = "delay"
  \/ outcome = "timeout" /\ r.what = "pause"

\* the handler returns before it tells anybody, or tells somebody else
Lose(r, outcome) ==
  /\ lost' = IF Unspoken(r, outcome) THEN lost \cup {r.message} ELSE lost
  /\ UNCHANGED <<box, told>>

Done == uart' = Tail(uart)

QueryEnds(r, outcome) ==
  /\ r.what = "query"
  /\ Done
  /\ IF outcome = "garbled" THEN Lose(r, outcome)
     ELSE /\ Tell(r.message, IF outcome = "ok" THEN Success(<<>>) ELSE Failure)
          /\ UNCHANGED <<box, lost>>

\* Mutant: the timeout of a page goes to the default handler.
PageEndsByDefault(r, outcome) ==
  /\ r.what \in Paged
  /\ Done
  /\ IF outcome = "deny" THEN Post(r, Err) ELSE Lose(r, outcome)

\* the module answers with some of the nodes from the index on, up to those asked for
PageEnds(r, outcome) ==
  /\ r.what \in Paged
  /\ Done
  /\ CASE outcome = "ok" ->
            \E k \in 0..QUERY_NODE_NUMBER :
              /\ r.start - 1 + k <= Len(net) \/ k = 0
              /\ Post(r, Page(r.what, Len(net), SubSeq(net, r.start, r.start - 1 + k)))
       [] outcome = "garbled" -> Lose(r, outcome)
       [] OTHER -> Post(r, Err)

DataEnds(r, outcome) ==
  /\ r.what \in {"node", "data", "transfer"}
  /\ Done
  /\ CASE outcome = "ok" -> Post(r, Ok)
       [] outcome = "garbled" -> Lose(r, outcome)
       [] OTHER -> Post(r, Err)

(* The module reports the delay (14H-F3).  The reply to the report is sent *)
(* as a request that the data answer.  A denial has the key of the report, *)
(* for which uart_mqtt_handler has no arm.                                 *)
DelayEnds(r, outcome) ==
  /\ r.what = "delay"
  /\ CASE outcome = "ok" -> /\ Post(r, Delay)
                            /\ uart' = Append(Tail(uart), Request(r.message, "data", 0))
       [] outcome = "timeout" -> Post(r, Err) /\ Done
       [] OTHER -> Lose(r, outcome) /\ Done

\* the timeout of a pause goes to the default handler, which tells PlcInit
PauseEnds(r, outcome) ==
  /\ r.what = "pause"
  /\ Done
  /\ CASE outcome = "ok" -> Post(r, Ok)
       [] outcome = "deny" -> Post(r, Err)
       [] OTHER -> Lose(r, outcome)

Outcomes == {"ok", "deny", "garbled", "timeout"}

RequestEnds(outcome) ==
  /\ uart # <<>>
  /\ LET r == Head(uart)
     IN \/ QueryEnds(r, outcome)
        \/ PageEnds(r, outcome)
        \/ DataEnds(r, outcome)
        \/ DelayEnds(r, outcome)
        \/ PauseEnds(r, outcome)
  /\ UNCHANGED <<inbox, receiver, heap, sequence, dispatcher, items, net, sent, netThen>>

\* a node joins the network or leaves it during a query of nodes (at other times it
\* only makes another Net0)
NetChanges ==
  /\ dispatcher.waits = "hplc"
  /\ \/ Newcomer \notin Range(net) /\ net' = Append(net, Newcomer)
     \/ net = Net0 /\ net # <<>> /\ net' = Tail(net)
  /\ netThen' = Changed
  /\ UNCHANGED <<inbox, receiver, heap, sequence, dispatcher, uart, box, items, sent, told, lost>>

Dispatcher == Pop \/ TakePage \/ TakeData \/ TakeDelay \/ TakePause
Agent == \E outcome \in Outcomes : RequestEnds(outcome)

Next ==
  \/ \E m \in Messages : ClientSends(m)
  \/ Receive
  \/ Dispatcher
  \/ Agent
  \/ NetChanges

(* The threads run, and the agent ends every request (RequestService). *)
Spec ==
  /\ Init
  /\ [][Next]_vars
  /\ WF_vars(Receive)
  /\ WF_vars(Dispatcher)
  /\ WF_vars(Agent)

---------------------------------------------------------------------------
(* Properties. *)

Queued == {heap[i].message : i \in DOMAIN heap}
Open == {uart[i].message : i \in DOMAIN uart}

(* Everything under way belongs to a message that was sent, and no client *)
(* is told twice.                                                         *)
TypeOK ==
  /\ Range(inbox) \subseteq sent /\ sent \subseteq Messages
  /\ receiver \in {"running", "ended"}
  /\ Queued \subseteq sent
  /\ sequence \in 0..MaxSent
  /\ dispatcher = Idle \/ dispatcher.message \in sent
  /\ Open \subseteq sent
  /\ DOMAIN box = Boxes
  /\ \A m \in Messages : Len(told[m]) <= 1 /\ (told[m] # <<>> => m \in sent)
  /\ lost \subseteq sent

(* A result in a mailbox is for the message that the dispatcher handles    *)
(* now, and of its kind, and no request of an earlier message is left that *)
(* could post one: the mailboxes are never emptied before a request, so a  *)
(* wait that ended early would give the answer to the next client          *)
(* (HplcInfo.info.result, MonitorNode.response, DataTransfer.result).      *)
MailboxIsCurrent ==
  /\ \A b \in Boxes :
       box[b] # Empty => /\ dispatcher.waits = b
                         /\ box[b].is = "page" => box[b].kind = dispatcher.for
  /\ \A i \in DOMAIN uart :
       uart[i].what # "query" => /\ dispatcher # Idle
                                 /\ uart[i].message = dispatcher.message

(* The dispatcher waits without a time limit, and all clients behind it:   *)
(* what it waits for is under way or in the mailbox, unless its end was    *)
(* one of the three that nobody posts (Unspoken), the timeout of the       *)
(* automatic pause among them.  Every other denial and every other timeout *)
(* is posted.                                                              *)
NoSilentWait ==
  dispatcher # Idle => \/ dispatcher.message \in Open
                       \/ box[dispatcher.waits] # Empty
                       \/ dispatcher.message \in lost

(* A client that asks for the topology or the versions is told every node  *)
(* of the network once and in order, if the network does not change        *)
(* meanwhile, however many nodes the module puts into a page; only an      *)
(* empty page ends the list early (mqtt_hplc_info_request).                *)
PagesAreWhole ==
  [][\A m \in Messages :
       (m.kind \in Paged /\ told'[m] # told[m] /\ Last(told'[m]).is = "success" /\ netThen # Changed)
         => \/ Last(told'[m]).body = netThen
            \/ /\ box["hplc"].body = <<>>
               /\ IsPrefix(Last(told'[m]).body, netThen)]_vars

(* A message that is in the queue is answered in the end, whatever its     *)
(* place there, unless a request ended Unspoken, its own or one of the     *)
(* message that the dispatcher then waits for.                             *)
MessagesAreAnswered ==
  \A m \in Messages :
    (m \in Queued) ~> \/ told[m] # <<>>
                      \/ m \in lost
                      \/ dispatcher # Idle /\ dispatcher.message \in lost

(* The comment of PriorityMessage::cmp: a message of a smaller priority    *)
(* comes first, and among those of one priority the one with the smaller   *)
(* sequence number.                                                        *)
ServedInOrder ==
  [][\A i \in DOMAIN heap :
       Len(heap') < Len(heap) =>
         \/ heap[1].priority < heap[i].priority
         \/ /\ heap[1].priority = heap[i].priority
            /\ heap[1].sequence <= heap[i].sequence]_vars

=============================================================================
