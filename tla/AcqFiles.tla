------------------------------ MODULE AcqFiles ------------------------------
(***************************************************************************)
(* The meter archive: NodeManage and NodeConfig (src/src/service/          *)
(* node_manage.rs, node_config.rs). Every client application keeps a list  *)
(* of nodes. The service holds the lists in memory, a reference to a node  *)
(* that several applications have, the module holds each address once, and *)
(* a SQLite table per application keeps the list over a restart.           *)
(*                                                                         *)
(* The lists change in the MQTT dispatcher, chunk by chunk, and between    *)
(* asking the module and hearing from it the lock is free. At start the    *)
(* device thread clears the module and sends it what the tables hold; no   *)
(* client request is let in before that has succeeded, so one of the two   *)
(* threads is at work at a time. A loop over nodes is a step per node:     *)
(* each commits its SQL statement by itself, and a restart may fall        *)
(* between two of them.                                                    *)
(***************************************************************************)
EXTENDS Naturals, Sequences, SequencesExt, FiniteSetsExt

CONSTANTS
  Apps, Addrs, Types,   \* client applications, meter addresses, protocol types
  ChunkSize,            \* ACQ_FILES_CHUNK_SIZE: 10
  MaxBody,              \* bound on the nodes of one request
  MaxOps,               \* bound on the requests
  MaxFaults,            \* bound on the requests the module denies or does not answer
  MaxCrashes,           \* bound on the restarts of the service
  NoType,               \* the "0" that stands in for the type of a node to delete
  None

ASSUME BoundsAssumption ==
  /\ ChunkSize \in Nat \ {0}
  /\ MaxBody \in Nat /\ MaxOps \in Nat /\ MaxFaults \in Nat /\ MaxCrashes \in Nat
ASSUME TypesAssumption == NoType \notin Types /\ None \notin Types \cup {NoType, "ok", "err"}
ASSUME AppsAssumption == IsFiniteSet(Apps)

VARIABLES
  node_data,          \* per application its nodes
  global_data,        \* per address the type of the node somebody has, or None
  table,              \* SQLite: per application the nodes of its rows
  unread,             \* per application the rows load_config has still to read
  operation_result,   \* the mailbox of the reader for the waiting thread
  stage,              \* device thread: "clear", "clearing", "load", "loading" or "ready"
  step,               \* operate_acq_files: "none", "chunk", "node", "wait", "update" or "save"
  job,                \* the request at work
  rest, todo,         \* its nodes behind the chunk at work; the nodes before a loop over the chunk
  nodes,              \* the nodes of the chunk that concern the module
  uart,               \* the request with the UART agent
  module,             \* addresses the module has (environment)
  doubt,              \* addresses of requests that ended without an answer (history)
  acked,              \* nodes whose addition was confirmed to the application (history)
  ops, faults, crashes

config == <<node_data, global_data>>
worker == <<step, job, rest, todo, nodes>>
bounds == <<ops, faults, crashes>>
vars == <<config, table, unread, operation_result, stage, worker, uart, module, doubt, acked,
          bounds>>

----------------------------------------------------------------------------
(* NodeConfig: the lists, the global map and the tables. *)

NodeInfo == [acq_addr : Addrs, pro_type : Types]
Target == [acq_addr : Addrs, pro_type : Types \cup {NoType}]

AddrsOf(s) == {n.acq_addr : n \in ToSet(s)}
Distinct(s) == \A i, j \in 1 .. Len(s) : s[i].acq_addr = s[j].acq_addr => i = j

Has(app, a) == a \in AddrsOf(node_data[app])
Holders(a) == {app \in Apps : Has(app, a)}

Positions(app, a) == {i \in 1 .. Len(node_data[app]) : node_data[app][i].acq_addr = a}

\* iter().find and iter().position; Vec::remove.
Found(app, a) == node_data[app][Min(Positions(app, a))]
Removed(s, p) == [i \in 1 .. Len(s) - 1 |-> IF i < p THEN s[i] ELSE s[i + 1]]
Forget(app, a) == node_data' = [node_data EXCEPT ![app] = Removed(@, Min(Positions(app, a)))]

\* INSERT; DELETE by address and type. Rows of the same node are alike to every reader.
InsertRow(app, n) == table' = [table EXCEPT ![app] = @ \cup {n}]
DeleteRow(app, n) == table' = [table EXCEPT ![app] = @ \ {n}]

\* Arc::strong_count is 1: no other application has the node.
OnlyHolderOfTwo(a) == Cardinality(Holders(a)) <= 2     \* mutant of OnlyHolder
OnlyHolder(a) == Cardinality(Holders(a)) = 1

\* Another application has the node: the list gets a reference, the table a row (not while
\* the tables are read). Mutant: no row.
SharedNoRow(app, n, is_init) == node_data' = [node_data EXCEPT ![app] = Append(@, n)] /\ UNCHANGED table
Shared(app, n, is_init) ==
  /\ node_data' = [node_data EXCEPT ![app] = Append(@, n)]
  /\ IF is_init THEN UNCHANGED table ELSE InsertRow(app, n)

\* add_node_info_exist: the type the node is known with, in this list or another; None: it
\* is left for the module, the same: it is or gets listed, another: an error.
Existing(app, a) == IF Has(app, a) THEN Found(app, a).pro_type ELSE global_data[a]
AddExist(app, n, is_init) ==
  /\ Existing(app, n.acq_addr) = n.pro_type
  /\ \/ Has(app, n.acq_addr) /\ UNCHANGED <<node_data, table>>
     \/ ~Has(app, n.acq_addr) /\ Shared(app, n, is_init)
  /\ UNCHANGED global_data
Mismatch(app, n) == Existing(app, n.acq_addr) \notin {None, n.pro_type}

\* add_node_info_checked.
AddChecked(app, n) ==
  /\ node_data' = [node_data EXCEPT ![app] = Append(@, n)]
  /\ global_data' = [global_data EXCEPT ![n.acq_addr] = n.pro_type]

\* remove_node_info_checked and GlobalNodeConfig::remove_node_info. The thread panics when
\* the node is not listed.
RemoveChecked(app, n) ==
  /\ Has(app, n.acq_addr)
  /\ Forget(app, n.acq_addr)
  /\ global_data' = [global_data EXCEPT ![n.acq_addr] = None]

----------------------------------------------------------------------------
(* The dispatcher takes a request. *)

\* The nodes of a request; each address occurs once.
Bodies == {b \in SeqOf(NodeInfo, MaxBody) : b # << >> /\ Distinct(b)}

\* DelAcqFiles::parse_node_infos: the client names addresses, the type is "0".
Targets(b) == [i \in 1 .. Len(b) |-> [acq_addr |-> b[i].acq_addr, pro_type |-> NoType]]

Begin(op, app, body) ==
  /\ stage = "ready" /\ step = "none" /\ ops < MaxOps
  /\ ops' = ops + 1
  /\ step' = "chunk"
  /\ job' = [op |-> op, app |-> app, body |-> body]
  /\ rest' = body
  /\ UNCHANGED <<config, table, unread, operation_result, stage, todo, nodes, uart, module, doubt,
                 faults, crashes>>

MqttAdd(app, body) == Begin("Add", app, body) /\ UNCHANGED acked

Revoked(app, body) == [acked EXCEPT ![app] = {n \in @ : n.acq_addr \notin AddrsOf(body)}]

MqttDel(app, body) == Begin("Del", app, Targets(body)) /\ acked' = Revoked(app, body)

\* ClearAcqFiles::parse_node_infos: all nodes of the application, with their types.
MqttClear(app) == Begin("Clear", app, node_data[app]) /\ acked' = [acked EXCEPT ![app] = {}]

----------------------------------------------------------------------------
(* operate_acq_files: a chunk at a time, by the dispatcher or, at init, the device thread. *)

Ends == step' = "none" /\ job' = None /\ rest' = << >> /\ todo' = << >> /\ nodes' = << >>

\* The chunk goes through operate_node_infos; at init it is sent as it is.
TakeChunk ==
  /\ step = "chunk" /\ rest # << >>
  /\ LET size == IF Len(rest) < ChunkSize THEN Len(rest) ELSE ChunkSize
         chunk == SubSeq(rest, 1, size) IN
       /\ rest' = SubSeq(rest, size + 1, Len(rest))
       /\ IF job.op = "Init" THEN nodes' = chunk /\ UNCHANGED todo ELSE todo' = chunk /\ UNCHANGED nodes
  /\ step' = "node"
  /\ UNCHANGED <<config, table, unread, operation_result, stage, job, uart, module, doubt, acked, bounds>>

\* AddAcqFiles::operate_node_infos. What the nodes before one that fails have changed stays;
\* the request is answered with the failure.
AddNode ==
  /\ step = "node" /\ todo # << >> /\ job.op = "Add"
  /\ \/ /\ Mismatch(job.app, Head(todo))
        /\ Ends
        /\ UNCHANGED <<config, table>>
     \/ /\ Existing(job.app, Head(todo).acq_addr) = None
        /\ nodes' = Append(nodes, Head(todo)) /\ todo' = Tail(todo)
        /\ UNCHANGED <<config, table, step, job, rest>>
     \/ /\ AddExist(job.app, Head(todo), FALSE)
        /\ todo' = Tail(todo)
        /\ UNCHANGED <<step, job, rest, nodes>>
  /\ UNCHANGED <<unread, operation_result, stage, uart, module, doubt, acked, bounds>>

\* DelAcqFiles::operate_node_infos with should_remove_node_info: a node that others have
\* only leaves this list and its table.
DelNode ==
  /\ step = "node" /\ todo # << >> /\ job.op \in {"Del", "Clear"}
  /\ todo' = Tail(todo)
  /\ LET a == Head(todo).acq_addr IN
     \/ /\ ~Has(job.app, a)
        /\ UNCHANGED <<node_data, table, nodes>>
     \/ /\ Has(job.app, a) /\ OnlyHolder(a)
        /\ nodes' = Append(nodes, Head(todo))
        /\ UNCHANGED <<node_data, table>>
     \/ /\ Has(job.app, a) /\ ~OnlyHolder(a)
        /\ Forget(job.app, a)
        /\ DeleteRow(job.app, Found(job.app, a))
        /\ UNCHANGED nodes
  /\ UNCHANGED <<global_data, unread, operation_result, stage, step, job, rest, uart, module, doubt,
                 acked, bounds>>

\* operate_chunk_acq_files, from there to its wait.
SendChunk ==
  /\ step = "node" /\ todo = << >>
  /\ \/ /\ nodes = << >>
        /\ step' = "chunk"
        /\ UNCHANGED <<uart, operation_result>>
     \/ /\ nodes # << >>
        /\ uart' = [what |-> IF job.op \in {"Add", "Init"} THEN "AddNode" ELSE "DelNode",
                    addrs |-> AddrsOf(nodes)]
        /\ operation_result' = None
        /\ step' = "wait"
  /\ UNCHANGED <<config, table, unread, stage, job, rest, todo, nodes, module, doubt, acked, bounds>>

AnyResult(r) == TRUE    \* mutant of Confirmed
Confirmed(r) == r = "ok"

\* wait_operation_result returns. A failure ends the request, at init the device is
\* powered off and on and starts again. After a success the lists are updated.
OperationReturns ==
  /\ step = "wait" /\ operation_result # None
  /\ operation_result' = None
  /\ \/ /\ ~Confirmed(operation_result)
        /\ Ends
        /\ stage' = IF job.op = "Init" THEN "clear" ELSE stage
     \/ /\ Confirmed(operation_result) /\ job.op = "Init"
        /\ step' = "chunk" /\ nodes' = << >>
        /\ UNCHANGED <<job, rest, todo, stage>>
     \/ /\ Confirmed(operation_result) /\ job.op # "Init"
        /\ step' = "update" /\ todo' = nodes
        /\ UNCHANGED <<job, rest, nodes, stage>>
  /\ UNCHANGED <<config, table, unread, uart, module, doubt, acked, bounds>>

\* The loops of add_node_infos_checked and remove_node_infos_checked over the lists.
UpdateNode ==
  /\ step = "update"
  /\ \/ job.op = "Add" /\ AddChecked(job.app, Head(todo))
     \/ job.op # "Add" /\ RemoveChecked(job.app, Head(todo))
  /\ \/ Tail(todo) # << >> /\ todo' = Tail(todo) /\ UNCHANGED step
     \/ Tail(todo) = << >> /\ todo' = nodes /\ step' = "save"
  /\ UNCHANGED <<table, unread, operation_result, stage, job, rest, nodes, uart, module, doubt, acked,
                 bounds>>

\* add_db_config and del_db_config: a statement for each node, committed by itself.
SaveRow ==
  /\ step = "save"
  /\ IF job.op = "Add" THEN InsertRow(job.app, Head(todo)) ELSE DeleteRow(job.app, Head(todo))
  /\ todo' = Tail(todo)
  /\ \/ Tail(todo) # << >> /\ UNCHANGED <<step, nodes>>
     \/ Tail(todo) = << >> /\ step' = "chunk" /\ nodes' = << >>
  /\ UNCHANGED <<config, unread, operation_result, stage, job, rest, uart, module, doubt, acked, bounds>>

\* All chunks are done: the client is told of it, or the initialisation is complete.
Complete ==
  /\ step = "chunk" /\ rest = << >>
  /\ Ends
  /\ stage' = "ready"
  /\ acked' = IF job.op = "Add" THEN [acked EXCEPT ![job.app] = @ \cup ToSet(job.body)] ELSE acked
  /\ UNCHANGED <<config, table, unread, operation_result, uart, module, doubt, bounds>>

----------------------------------------------------------------------------
(* The device thread: the part of PlcInit::run that concerns the archive. *)

NoRows == [app \in Apps |-> {}]

\* init_clear_acq_files, up to its wait.
InitClear ==
  /\ stage = "clear"
  /\ stage' = "clearing"
  /\ uart' = [what |-> "Params", addrs |-> Addrs]
  /\ operation_result' = None
  /\ UNCHANGED <<config, table, unread, worker, module, doubt, acked, bounds>>

\* It returns, and load_config begins.
InitClearReturns ==
  /\ stage = "clearing" /\ operation_result # None
  /\ operation_result' = None
  /\ \/ Confirmed(operation_result) /\ stage' = "load" /\ unread' = table
     \/ ~Confirmed(operation_result) /\ stage' = "clear" /\ UNCHANGED unread
  /\ UNCHANGED <<config, table, worker, uart, module, doubt, acked, bounds>>

\* add_node_info for a row, one table after the other: rows of one address and two types are
\* an error, and the device thread starts again. The rows are collected without duplicates.
LoadRow(app, n) ==
  /\ stage = "load" /\ n \in unread[app]
  /\ \A other \in Apps \ {app} : unread[other] \in {{}, table[other]}
  /\ \/ /\ Mismatch(app, n)
        /\ stage' = "clear" /\ unread' = NoRows /\ nodes' = << >>
        /\ UNCHANGED config
     \/ /\ \/ Existing(app, n.acq_addr) = None /\ AddChecked(app, n)
           \/ AddExist(app, n, TRUE)
        /\ unread' = [unread EXCEPT ![app] = @ \ {n}]
        /\ nodes' = IF n \in ToSet(nodes) THEN nodes ELSE Append(nodes, n)
        /\ UNCHANGED stage
  /\ UNCHANGED <<table, operation_result, step, job, rest, todo, uart, module, doubt, acked, bounds>>

\* The tables are read: what they hold is sent to the module.
LoadConfig ==
  /\ stage = "load" /\ unread = NoRows
  /\ stage' = "loading"
  /\ step' = "chunk"
  /\ job' = [op |-> "Init", app |-> None, body |-> << >>]
  /\ rest' = nodes /\ nodes' = << >>
  /\ UNCHANGED <<config, table, unread, operation_result, todo, uart, module, doubt, acked, bounds>>

----------------------------------------------------------------------------
(* The module, and the UART reader that handles its answer. *)

Obeyed == CASE uart.what = "Params" -> {}
            [] uart.what = "AddNode" -> module \cup uart.addrs
            [] uart.what = "DelNode" -> module \ uart.addrs

NoLists == [app \in Apps |-> << >>]
NoTypes == [a \in Addrs |-> None]

\* uart_clear_acq_files forgets the lists before it looks at the answer.
Handled ==
  IF uart.what = "Params"
  THEN node_data' = NoLists /\ global_data' = NoTypes
  ELSE UNCHANGED config

UartConfirms ==
  /\ uart # None
  /\ uart' = None
  /\ Handled
  /\ module' = Obeyed
  /\ doubt' = IF uart.what = "Params" THEN {} ELSE doubt
  /\ operation_result' = "ok"
  /\ UNCHANGED <<table, unread, stage, worker, acked, bounds>>

Fault == uart # None /\ uart' = None /\ faults < MaxFaults /\ faults' = faults + 1

UartDenies ==
  /\ Fault
  /\ Handled
  /\ operation_result' = "err"
  /\ UNCHANGED <<table, unread, stage, worker, module, doubt, acked, ops, crashes>>

\* uart_operate_acq_files_timeout; the module may have obeyed. The request that clears the
\* module has no such handler: its thread waits for ever.
UartTimesOut ==
  /\ Fault
  /\ module' \in {module, Obeyed}
  /\ doubt' = doubt \cup uart.addrs
  /\ operation_result' = IF uart.what = "Params" THEN operation_result ELSE "err"
  /\ UNCHANGED <<config, table, unread, stage, worker, acked, ops, crashes>>

\* The answer does not parse: no result is posted.
UartBadlyAnswers ==
  /\ Fault
  /\ Handled
  /\ module' \in {module, Obeyed}
  /\ doubt' = doubt \cup uart.addrs
  /\ UNCHANGED <<table, unread, operation_result, stage, worker, acked, ops, crashes>>

----------------------------------------------------------------------------
(* The specification. *)

Empty ==
  /\ node_data = NoLists /\ global_data = NoTypes
  /\ unread = NoRows
  /\ operation_result = None
  /\ stage = "clear"
  /\ step = "none" /\ job = None /\ rest = << >> /\ todo = << >> /\ nodes = << >>
  /\ uart = None

\* The service restarts; the tables are what is left. A request that is with the module
\* may still take effect.
Crash ==
  /\ crashes < MaxCrashes /\ crashes' = crashes + 1
  /\ module' \in IF uart = None THEN {module} ELSE {module, Obeyed}
  /\ node_data' = NoLists /\ global_data' = NoTypes
  /\ unread' = NoRows
  /\ operation_result' = None
  /\ stage' = "clear"
  /\ Ends
  /\ uart' = None
  /\ UNCHANGED <<table, doubt, acked, ops, faults>>

Init ==
  /\ Empty
  /\ table = NoRows
  /\ module \in SUBSET Addrs
  /\ doubt = {}
  /\ acked = NoRows
  /\ ops = 0 /\ faults = 0 /\ crashes = 0

Client == \E app \in Apps : \/ \E b \in Bodies : MqttAdd(app, b)
                            \/ \E b \in Bodies : MqttDel(app, b)
                            \/ MqttClear(app)
Operate == \/ TakeChunk \/ AddNode \/ DelNode \/ SendChunk
           \/ OperationReturns \/ UpdateNode \/ SaveRow \/ Complete
Device == \/ InitClear \/ InitClearReturns \/ LoadConfig
          \/ \E app \in Apps : \E n \in unread[app] : LoadRow(app, n)
Uart == UartConfirms \/ UartDenies \/ UartTimesOut \/ UartBadlyAnswers

Next == Client \/ Operate \/ Device \/ Uart \/ Crash

Spec == Init /\ [][Next]_vars

\* The threads go on, and the UART agent ends every request.
Fairness == WF_vars(Operate) /\ WF_vars(Device) /\ WF_vars(Uart)

FairSpec == Spec /\ Fairness

----------------------------------------------------------------------------
(* Properties. *)

\* The types of the variables.
TypeOK ==
  /\ node_data \in [Apps -> Seq(NodeInfo)]
  /\ global_data \in [Addrs -> Types \cup {None}]
  /\ table \in [Apps -> SUBSET NodeInfo] /\ unread \in [Apps -> SUBSET NodeInfo]
  /\ operation_result \in {"ok", "err", None}
  /\ stage \in {"clear", "clearing", "load", "loading", "ready"}
  /\ step \in {"none", "chunk", "node", "wait", "update", "save"}
  /\ step # "none" => /\ job.op \in {"Init", "Add", "Del", "Clear"}
                      /\ job.app \in Apps \cup {None}
                      /\ job.body \in Seq(Target)
  /\ rest \in Seq(Target) /\ todo \in Seq(Target) /\ nodes \in Seq(Target)
  /\ uart # None => uart.what \in {"Params", "AddNode", "DelNode"} /\ uart.addrs \subseteq Addrs
  /\ module \subseteq Addrs /\ doubt \subseteq Addrs
  /\ acked \in [Apps -> SUBSET NodeInfo]
  /\ ops \in 0 .. MaxOps /\ faults \in 0 .. MaxFaults /\ crashes \in 0 .. MaxCrashes

\* An address is in the global map as long as some application has it, with one type for
\* all, and an application has it once: what the count of references decides is right
\* whatever others added, removed or failed to.
GlobalIsUnion ==
  /\ \A a \in Addrs : Holders(a) # {} <=> global_data[a] # None
  /\ \A app \in Apps : /\ Distinct(node_data[app])
                       /\ \A n \in ToSet(node_data[app]) : n.pro_type = global_data[n.acq_addr]

\* Between requests the module has the addresses the service thinks it has, after denied
\* requests, requests that failed half way and restarts too; only what a request that
\* ended without an answer named is in doubt.
ModuleInStep ==
  stage = "ready" /\ step = "none"
    => \A a \in Addrs \ doubt : a \in module <=> global_data[a] # None

\* A node whose addition was confirmed to its application is in that application's table,
\* so that a restart at any moment finds it, until the application asks to delete it.
AckedAreSaved == \A app \in Apps : acked[app] \subseteq table[app]

\* The README: after power-up the initialisation completes by itself, and recovers from
\* failures.
InitCompletes == (stage # "ready") ~> (stage = "ready")
=============================================================================
