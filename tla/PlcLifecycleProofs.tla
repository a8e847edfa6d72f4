------------------------- MODULE PlcLifecycleProofs -------------------------
(***************************************************************************)
(* Proofs about PlcLifecycle for every size of the archive, every limit of *)
(* timeouts and any number of faults, reports and requests of others: an   *)
(* initialisation that claims to have succeeded has set the address and    *)
(* loaded the whole archive.                                               *)
(***************************************************************************)
EXTENDS PlcLifecycle, SequenceTheorems, TLAPS

----------------------------------------------------------------------------
(* The queue in front of the UART agent: there is one request of a kind with the agent at a *)
(* time, whatever others sent around it.                                                    *)

\* A queue without requests of kind K, and one in which c is the only one of its kind.
Without(q, K) == \A i \in 1 .. Len(q) : q[i] \notin K
Only(q, K, c) == \E i \in 1 .. Len(q) : q[i] = c /\ \A j \in 1 .. Len(q) : q[j] \in K => j = i

\* Another request behind one of a kind leaves it the only one.
LEMMA AppendOther ==
  ASSUME NEW S, NEW q \in Seq(S), NEW K, NEW w \in S, w \notin K
  PROVE  /\ Without(q, K) => Without(Append(q, w), K)
         /\ \A c : Only(q, K, c) => Only(Append(q, w), K, c)
<1>1. /\ Len(Append(q, w)) = Len(q) + 1 /\ Len(q) \in Nat
      /\ \A i \in 1 .. Len(q) : Append(q, w)[i] = q[i]
      /\ Append(q, w)[Len(q) + 1] = w
  BY AppendProperties
<1>2. \A i \in 1 .. Len(Append(q, w)) : Append(q, w)[i] \in K =>
         i \in 1 .. Len(q) /\ Append(q, w)[i] = q[i]
  BY <1>1
<1>3. ASSUME NEW c, Only(q, K, c)
      PROVE  Only(Append(q, w), K, c)
  <2>1. PICK i \in 1 .. Len(q) : q[i] = c /\ \A j \in 1 .. Len(q) : q[j] \in K => j = i
    BY <1>3 DEF Only
  <2>2. i \in 1 .. Len(Append(q, w)) /\ Append(q, w)[i] = c
    BY <1>1, <2>1
  <2> QED
    BY <1>2, <2>1, <2>2 DEF Only
<1> QED
  BY <1>2, <1>3 DEF Without

\* A request that joins a queue without its kind is the only one.
LEMMA AppendFirst ==
  ASSUME NEW S, NEW q \in Seq(S), NEW K, Without(q, K), NEW c \in S
  PROVE  Only(Append(q, c), K, c)
<1>1. /\ Len(Append(q, c)) = Len(q) + 1 /\ Len(q) \in Nat
      /\ \A i \in 1 .. Len(q) : Append(q, c)[i] = q[i]
      /\ Append(q, c)[Len(q) + 1] = c
  BY AppendProperties
<1>2. Len(q) + 1 \in 1 .. Len(Append(q, c))
  BY <1>1
<1>3. \A j \in 1 .. Len(Append(q, c)) : Append(q, c)[j] \in K => j = Len(q) + 1
  BY <1>1 DEF Without
<1> QED
  BY <1>1, <1>2, <1>3 DEF Only

\* The first request leaves: one of another kind changes nothing, the only one was it.
LEMMA TailRequest ==
  ASSUME NEW S, NEW q \in Seq(S), NEW K, q # << >>
  PROVE  /\ Without(q, K) => Without(Tail(q), K) /\ Head(q) \notin K
         /\ \A c : Only(q, K, c) /\ Head(q) \notin K /\ c \in K => Only(Tail(q), K, c)
         /\ \A c : Only(q, K, c) /\ Head(q) \in K => Head(q) = c /\ Without(Tail(q), K)
<1>1. /\ Head(q) = q[1] /\ Len(q) \in Nat \ {0} /\ Len(Tail(q)) = Len(q) - 1
      /\ \A i \in 1 .. Len(Tail(q)) : Tail(q)[i] = q[i + 1]
  BY HeadTailProperties
<1>2. 1 \in 1 .. Len(q) /\ \A i \in 1 .. Len(Tail(q)) : i + 1 \in 1 .. Len(q)
  BY <1>1
<1>3. ASSUME NEW c, Only(q, K, c), Head(q) \notin K, c \in K
      PROVE  Only(Tail(q), K, c)
  <2>1. PICK i \in 1 .. Len(q) : q[i] = c /\ \A j \in 1 .. Len(q) : q[j] \in K => j = i
    BY <1>3 DEF Only
  <2>2. i - 1 \in 1 .. Len(Tail(q)) /\ Tail(q)[i - 1] = c
    BY <1>1, <1>3, <2>1
  <2>3. \A j \in 1 .. Len(Tail(q)) : Tail(q)[j] \in K => j + 1 = i
    BY <1>1, <1>2, <2>1
  <2>4. \A j \in 1 .. Len(Tail(q)) : Tail(q)[j] \in K => j = i - 1
    BY <2>3
  <2> QED
    BY <2>2, <2>4 DEF Only
<1>4. ASSUME NEW c, Only(q, K, c), Head(q) \in K
      PROVE  Head(q) = c /\ Without(Tail(q), K)
  <2>1. PICK i \in 1 .. Len(q) : q[i] = c /\ \A j \in 1 .. Len(q) : q[j] \in K => j = i
    BY <1>4 DEF Only
  <2>2. i = 1
    BY <1>1, <1>2, <1>4, <2>1
  <2>3. \A j \in 1 .. Len(Tail(q)) : j + 1 # 1
    BY <1>1
  <2> QED
    BY <1>1, <1>2, <2>1, <2>2, <2>3 DEF Without
<1>5. ASSUME Without(q, K)
      PROVE  Without(Tail(q), K) /\ Head(q) \notin K
  BY <1>1, <1>2, <1>5 DEF Without
<1> QED
  BY <1>3, <1>4, <1>5

----------------------------------------------------------------------------
(* The inductive invariant. *)

\* The requests that have their result in NodeManage's mailbox.
Archive == {"Params", "AddNode"}
Loads == {"clear", "load"}

\* The thread waits for something only while the module runs, and initialises it only once.
PlaceInv ==
  /\ pc # "start" => state = "Running"
  /\ init_flag => pc \in {"start", "watch", "address"}
  /\ pc = "load" => left < Chunks

\* An archive request is with the agent only while the thread waits for its result, so that a
\* result in the mailbox is that of the last one sent, and the module has as many chunks as
\* were confirmed (or none, if it was exchanged).
ArchiveInv ==
  \/ /\ pc = "clear" /\ operation_result = None /\ Only(uartQ, Archive, "Params")
  \/ /\ pc = "load" /\ operation_result = None /\ Only(uartQ, Archive, "AddNode")
     /\ files \in {None, Chunks - (left + 1)}
  \/ /\ Without(uartQ, Archive)
     /\ pc = "clear" /\ operation_result = "ok" => files \in {None, 0}
     /\ pc = "load" /\ operation_result = "ok" => files \in {None, Chunks - left}
     /\ init_flag => files \in {None, Chunks}

\* A module that was not exchanged keeps its archive and, once it is known, the address: what
\* is in the mailbox, or is posted to it next, when the address is compared, is of that module.
SameModuleInv ==
  ~exchanged =>
    /\ pc = "load" \/ (pc = "clear" /\ operation_result = "ok") \/ init_flag => files # None
    /\ event = "own" \/ pc \in Loads \/ init_flag => address = "own"
    /\ pc = "result" /\ event = "ok" => address = "own"
    /\ owed # None /\ (pc = "result" \/ IsAddress(event)) => address = "own"

IInv ==
  /\ TypeOK
  /\ PlaceInv
  /\ ArchiveInv
  /\ SameModuleInv

----------------------------------------------------------------------------
(* Facts about the queue of requests. *)

AllRequests == Own \cup Others

\* The requests are told apart.
LEMMA NameFacts ==
  /\ Archive \subseteq AllRequests /\ Own \subseteq AllRequests /\ Others \subseteq AllRequests
  /\ {"GetInfo", "SetAddress"} \subseteq AllRequests \ Archive /\ Others \cap Archive = {}
  /\ None \notin {"ok", "err", "own", "other"} /\ None \notin Nat
  BY NoneAssumption DEF Archive, AllRequests, Own, Others

\* What the module does with each request.
LEMMA ObeysFacts ==
  ASSUME NEW req, Obeys(req)
  PROVE  /\ req = "SetAddress" => address' = "own"
         /\ req # "SetAddress" => address' = address
         /\ req = "Params" => files' = 0
         /\ req = "AddNode" => files' = IF files # None THEN files + 1 ELSE files
         /\ req \notin Archive => files' = files
  BY DEF Obeys, Archive

\* The request at the head is the archive request that the thread waits for, or none of the
\* archive and then nothing changes for those.
LEMMA HeadFacts ==
  ASSUME IInv, uartQ # << >>
  PROVE  /\ Head(uartQ) \in AllRequests
         /\ Tail(uartQ) \in Seq(AllRequests)
         /\ \/ /\ Head(uartQ) \notin Archive
               /\ Without(uartQ, Archive) => Without(Tail(uartQ), Archive)
               /\ \A c \in Archive : Only(uartQ, Archive, c) => Only(Tail(uartQ), Archive, c)
            \/ /\ pc = "clear" /\ Head(uartQ) = "Params" /\ operation_result = None
               /\ Without(Tail(uartQ), Archive)
            \/ /\ pc = "load" /\ Head(uartQ) = "AddNode" /\ operation_result = None
               /\ Without(Tail(uartQ), Archive)
               /\ files \in {None, Chunks - (left + 1)}
<1>1. uartQ \in Seq(AllRequests)
  BY DEF IInv, TypeOK, AllRequests
<1>2. Head(uartQ) \in AllRequests /\ Tail(uartQ) \in Seq(AllRequests)
  BY <1>1, HeadTailProperties
<1>3. CASE Head(uartQ) \notin Archive
  BY <1>1, <1>2, <1>3, TailRequest
<1>4. CASE Head(uartQ) \in Archive
  <2>1. ~Without(uartQ, Archive)
    BY <1>1, <1>4, TailRequest
  <2>2. \A c : Only(uartQ, Archive, c) => Head(uartQ) = c /\ Without(Tail(uartQ), Archive)
    BY <1>1, <1>4, TailRequest
  <2> QED
    BY <1>2, <2>1, <2>2 DEF IInv, ArchiveInv
<1> QED
  BY <1>3, <1>4

----------------------------------------------------------------------------
(* The steps of the device thread. *)

\* A step that neither begins nor ends the loading of the archive. One that begins to wait for
\* the address to be set took another out of the mailbox, and one that starts an initialisation
\* anew found none there.
LEMMA PlaceStep ==
  ASSUME IInv, TypeOK', PlaceInv', pc \notin Loads, pc' \notin Loads,
         UNCHANGED <<init_flag, owed, address, files>>,
         event' \in {event, None},
         pc' = "result" => IsAddress(event) /\ event' = None,
         \/ exchanged' = exchanged
         \/ pc' = "report" /\ ~init_flag /\ ~IsAddress(event),
         Without(uartQ, Archive) => Without(uartQ', Archive)
  PROVE  IInv'
<1>1. Without(uartQ, Archive) /\ (init_flag => files \in {None, Chunks})
  BY DEF IInv, ArchiveInv, Loads
<1>2. ArchiveInv'
  BY <1>1 DEF ArchiveInv, Loads
<1>3. SameModuleInv'
  <2>1. CASE exchanged' = exchanged
    BY <2>1, NameFacts DEF IInv, SameModuleInv, Loads, IsAddress
  <2>2. CASE pc' = "report" /\ ~init_flag /\ ~IsAddress(event)
    BY <2>2, NameFacts DEF SameModuleInv, Loads, IsAddress
  <2> QED
    BY <2>1, <2>2
<1> QED
  BY <1>2, <1>3 DEF IInv

\* PlcDevice goes from one of its states to the next.
LEMMA DeviceStep == IInv /\ (PowerOn \/ CheckMid \/ PowerOff \/ Run \/ WatchFails) => IInv'
<1> SUFFICES ASSUME IInv, PowerOn \/ CheckMid \/ PowerOff \/ Run \/ WatchFails PROVE IInv'
  OBVIOUS
<1>1. UNCHANGED <<event, operation_result, init_flag, consecutive_timeouts, uartQ, owed,
                  address, files, plugged, works, reports, others>>
  BY DEF PowerOn, CheckMid, PowerOff, Run, WatchFails, mailboxes, flags, module, bounds
<1>2. pc \in {"start", "watch"}
  BY DEF PowerOn, CheckMid, PowerOff, Run, WatchFails, At, IInv, PlaceInv
<1>3. \/ pc' = "start" /\ tries' = 0 /\ left' = 0 /\ state' \in {"Init", "CheckMid", "Running", "Destroy"}
      \/ pc' = "report" /\ state = "Running" /\ ~init_flag /\ UNCHANGED <<state, tries, left>>
      \/ pc' = "watch" /\ state = "Running" /\ UNCHANGED <<state, tries, left>>
  BY DEF PowerOn, CheckMid, PowerOff, Run, WatchFails, Go, At
<1>4. online' \in BOOLEAN
  BY DEF PowerOn, CheckMid, PowerOff, Run, WatchFails, flags, IInv, TypeOK
<1>5. \/ exchanged' = exchanged
      \/ pc' = "report" /\ ~init_flag /\ exchanged' = (exchanged /\ IsAddress(event))
  BY DEF PowerOn, CheckMid, PowerOff, Run, WatchFails, module
<1>6. faults' \in 0 .. MaxFaults
  <2>1. faults' = faults \/ (faults < MaxFaults /\ faults' = faults + 1)
    BY DEF PowerOn, CheckMid, PowerOff, Run, WatchFails, SeemsAbsent, bounds
  <2>2. faults \in 0 .. MaxFaults
    BY DEF IInv, TypeOK
  <2> QED
    BY <2>1, <2>2, BoundsAssumption
<1>7. TypeOK'
  <2>1. state' \in {"Init", "CheckMid", "Running", "Destroy"} /\ pc' \in {"start", "watch", "report"}
    BY <1>3
  <2>2. tries' \in 0 .. 3 /\ left' \in 0 .. Chunks
    BY <1>3, BoundsAssumption DEF IInv, TypeOK
  <2>3. exchanged' \in BOOLEAN
    BY <1>5 DEF IInv, TypeOK
  <2> QED
    BY <1>1, <1>4, <1>6, <2>1, <2>2, <2>3 DEF IInv, TypeOK
<1>8. PlaceInv'
  BY <1>1, <1>3 DEF IInv, PlaceInv
<1>9. CASE exchanged' = exchanged
  BY <1>1, <1>2, <1>3, <1>7, <1>8, <1>9, PlaceStep DEF Loads
<1>10. CASE exchanged' # exchanged
  <2>1. pc' = "report" /\ ~init_flag /\ ~IsAddress(event)
    BY <1>5, <1>10 DEF IInv, TypeOK
  <2> QED
    BY <1>1, <1>2, <1>7, <1>8, <2>1, PlaceStep DEF Loads
<1> QED
  BY <1>9, <1>10

\* The thread asks for the address, sets it, gives up or is done: no archive request.
LEMMA AskStep ==
  ASSUME IInv, state = "Running", pc \notin Loads,
         \/ \E n \in 1 .. 3 : Ask(n)
         \/ /\ Send("SetAddress", "result") /\ UNCHANGED <<state, tries, left>>
            /\ ~init_flag /\ IsAddress(event) /\ event' = None
         \/ (Go("Running") \/ Go("Destroy")) /\ UNCHANGED uartQ,
         event' \in {event, None},
         UNCHANGED <<operation_result, flags, consecutive_timeouts, owed, module, bounds>>
  PROVE  IInv'
<1> USE NameFacts DEF flags, module
<1>1. /\ uartQ' \in Seq(AllRequests)
      /\ Without(uartQ, Archive) => Without(uartQ', Archive)
  <2>1. uartQ \in Seq(AllRequests)
    BY DEF IInv, TypeOK, AllRequests
  <2>2. uartQ' = Append(uartQ, "GetInfo") \/ uartQ' = Append(uartQ, "SetAddress") \/ uartQ' = uartQ
    BY DEF Ask, Send
  <2>3. ASSUME NEW w \in {"GetInfo", "SetAddress"}
        PROVE  /\ Append(uartQ, w) \in Seq(AllRequests)
               /\ Without(uartQ, Archive) => Without(Append(uartQ, w), Archive)
    <3>1. w \in AllRequests /\ w \notin Archive
      OBVIOUS
    <3> QED
      BY <2>1, <3>1, AppendProperties, AppendOther
  <2> QED
    BY <2>1, <2>2, <2>3
<1>2. /\ state' \in {"Running", "Destroy"} /\ pc' \in {"address", "result", "start"}
      /\ pc' # "start" => state' = "Running"
      /\ pc' = "result" => ~init_flag /\ IsAddress(event) /\ event' = None
      /\ tries' \in 0 .. 3 /\ left' \in 0 .. Chunks
  BY BoundsAssumption DEF Ask, Send, Go, IInv, TypeOK
<1>3. TypeOK'
  BY <1>1, <1>2 DEF IInv, TypeOK, bounds, AllRequests
<1>4. PlaceInv'
  BY <1>2 DEF PlaceInv
<1> QED
  BY <1>1, <1>2, <1>3, <1>4, PlaceStep DEF Loads

\* init_clear_acq_files is called only with a module that has the service's address.
LEMMA ClearStep ==
  ASSUME IInv, state = "Running", pc \notin Loads, ~init_flag, ClearFiles,
         ~exchanged => address = "own",
         event' = None,
         UNCHANGED <<flags, consecutive_timeouts, owed, module, bounds>>
  PROVE  IInv'
<1> USE NameFacts DEF flags, module, IsAddress
<1>1. uartQ \in Seq(AllRequests) /\ Without(uartQ, Archive)
  BY DEF IInv, TypeOK, AllRequests, ArchiveInv, Loads
<1>2. uartQ' = Append(uartQ, "Params") /\ pc' = "clear" /\ operation_result' = None /\ UNCHANGED <<state, tries, left>>
  BY DEF ClearFiles, Send
<1>3. uartQ' \in Seq(AllRequests) /\ Only(uartQ', Archive, "Params")
  BY <1>1, <1>2, AppendProperties, AppendFirst DEF Archive
<1>4. TypeOK'
  BY <1>2, <1>3 DEF IInv, TypeOK, bounds, AllRequests
<1>5. PlaceInv' /\ ArchiveInv' /\ SameModuleInv'
  BY <1>2, <1>3 DEF PlaceInv, ArchiveInv, SameModuleInv
<1> QED
  BY <1>4, <1>5 DEF IInv

\* An address that arrives is the module's own or another one: PlcInit goes on.
LEMMA CompareStep ==
  ASSUME IInv, state = "Running", pc \notin Loads, ~init_flag, IsAddress(event), Compare(event),
         event' = None,
         UNCHANGED <<flags, consecutive_timeouts, owed, module, bounds>>
  PROVE  IInv'
<1>1. CASE event = "own"
  <2>1. ~exchanged => address = "own"
    BY <1>1 DEF IInv, SameModuleInv
  <2> QED
    BY <1>1, <2>1, ClearStep DEF Compare
<1>2. CASE event # "own"
  BY <1>2, AskStep DEF Compare
<1> QED
  BY <1>1, <1>2

\* The steps of PlcInit up to the archive.
LEMMA InitialiseStep == IInv /\ (Heartbeat \/ ReportAwaited \/ AddressAwaited \/ ResultAwaited) => IInv'
<1> SUFFICES ASSUME IInv, Heartbeat \/ ReportAwaited \/ AddressAwaited \/ ResultAwaited PROVE IInv'
  OBVIOUS
<1>1. CASE Heartbeat
  BY <1>1, AskStep DEF Heartbeat, At, Loads, mailboxes
<1>2. CASE ReportAwaited
  <2>1. state = "Running" /\ pc = "report" /\ ~init_flag /\ event' = None
    BY <1>2 DEF ReportAwaited, At, IInv, PlaceInv
  <2>2. CASE IsAddress(event)
    BY <1>2, <2>1, <2>2, CompareStep DEF ReportAwaited, Loads
  <2>3. CASE ~IsAddress(event)
    BY <1>2, <2>1, <2>3, AskStep DEF ReportAwaited, Loads
  <2> QED
    BY <2>2, <2>3
<1>3. CASE AddressAwaited
  <2>1. state = "Running" /\ pc = "address" /\ event' = None
    BY <1>3 DEF AddressAwaited, At
  <2>2. CASE IsAddress(event) /\ ~init_flag
    BY <1>3, <2>1, <2>2, CompareStep DEF AddressAwaited, Loads
  <2>3. CASE ~IsAddress(event) /\ MayRetry
    <3>1. tries + 1 \in 1 .. 3
      BY <2>3 DEF MayRetry, IInv, TypeOK
    <3> QED
      BY <1>3, <2>1, <2>3, <3>1, AskStep DEF AddressAwaited, Loads
  <2>4. CASE (IsAddress(event) /\ init_flag) \/ (~IsAddress(event) /\ ~MayRetry)
    BY <1>3, <2>1, <2>4, AskStep DEF AddressAwaited, Loads
  <2> QED
    BY <2>2, <2>3, <2>4
<1>4. CASE ResultAwaited
  <2>1. state = "Running" /\ pc = "result" /\ ~init_flag /\ event' = None
    BY <1>4 DEF ResultAwaited, At, IInv, PlaceInv
  <2>2. CASE Set(event)
    <3>1. ~exchanged => address = "own"
      BY <2>1, <2>2 DEF Set, IInv, SameModuleInv
    <3> QED
      BY <1>4, <2>1, <2>2, <3>1, ClearStep DEF ResultAwaited, Loads
  <2>3. CASE ~Set(event)
    BY <1>4, <2>1, <2>3, AskStep DEF ResultAwaited, Loads
  <2> QED
    BY <2>2, <2>3
<1> QED
  BY <1>1, <1>2, <1>3, <1>4

\* The thread takes an archive result: the next chunk goes out after a confirmation, and
\* after the last one the module has them all.
LEMMA OperationStep == IInv /\ OperationAwaited => IInv'
<1> SUFFICES ASSUME IInv, OperationAwaited PROVE IInv'
  OBVIOUS
<1> USE NameFacts, BoundsAssumption DEF flags, module
<1>1. /\ state = "Running" /\ pc \in Loads /\ operation_result # None /\ ~init_flag
      /\ UNCHANGED <<event, online, consecutive_timeouts, owed, module, bounds>>
  BY DEF OperationAwaited, At, Loads, IInv, PlaceInv
<1>2. /\ uartQ \in Seq(AllRequests) /\ Without(uartQ, Archive)
      /\ pc = "clear" /\ operation_result = "ok" => files \in {None, 0}
      /\ pc = "load" /\ operation_result = "ok" => files \in {None, Chunks - left}
  BY <1>1 DEF IInv, TypeOK, AllRequests, ArchiveInv
<1>3. ~exchanged => address = "own" /\ (operation_result = "ok" => files # None)
  BY <1>1 DEF IInv, SameModuleInv, Loads
<1>4. left \in 0 .. Chunks /\ (pc = "load" => left < Chunks)
  BY DEF IInv, TypeOK, PlaceInv
<1> DEFINE n == IF pc = "clear" THEN Chunks ELSE left
<1>5. n \in 0 .. Chunks /\ (operation_result = "ok" => files \in {None, Chunks - n})
  BY <1>1, <1>2, <1>4 DEF Loads
<1>6. CASE operation_result = "ok" /\ n > 0
  <2>1. /\ uartQ' = Append(uartQ, "AddNode") /\ pc' = "load" /\ left' = n - 1
        /\ operation_result' = None /\ UNCHANGED <<state, tries, init_flag>>
    BY <1>6 DEF OperationAwaited, LoadFrom, Send
  <2>2. uartQ' \in Seq(AllRequests) /\ Only(uartQ', Archive, "AddNode")
    BY <1>2, <2>1, AppendProperties, AppendFirst DEF Archive
  <2>3. left' \in 0 .. Chunks /\ left' < Chunks /\ left' + 1 = n
    BY <1>5, <1>6, <2>1
  <2>4. TypeOK'
    BY <1>1, <2>1, <2>2, <2>3 DEF IInv, TypeOK, bounds, AllRequests
  <2>5. PlaceInv' /\ ArchiveInv' /\ SameModuleInv'
    BY <1>1, <1>3, <1>5, <1>6, <2>1, <2>2, <2>3 DEF PlaceInv, ArchiveInv, SameModuleInv
  <2> QED
    BY <2>4, <2>5 DEF IInv
<1>7. CASE operation_result = "ok" /\ ~(n > 0)
  <2>1. /\ state' = "Running" /\ pc' = "start" /\ tries' = 0 /\ left' = 0
        /\ init_flag' = TRUE /\ operation_result' = None /\ uartQ' = uartQ
    BY <1>7 DEF OperationAwaited, LoadFrom, Go
  <2>2. files \in {None, Chunks}
    BY <1>5, <1>7
  <2>3. TypeOK'
    BY <1>1, <2>1 DEF IInv, TypeOK, bounds
  <2>4. PlaceInv' /\ ArchiveInv' /\ SameModuleInv'
    BY <1>1, <1>2, <1>3, <1>7, <2>1, <2>2 DEF PlaceInv, ArchiveInv, SameModuleInv
  <2> QED
    BY <2>3, <2>4 DEF IInv
<1>8. CASE operation_result # "ok"
  <2>1. /\ state' = "Destroy" /\ pc' = "start" /\ tries' = 0 /\ left' = 0
        /\ operation_result' = None /\ UNCHANGED <<uartQ, init_flag>>
    BY <1>8 DEF OperationAwaited, Go
  <2>2. TypeOK'
    BY <1>1, <2>1 DEF IInv, TypeOK, bounds
  <2>3. PlaceInv' /\ ArchiveInv'
    BY <1>1, <1>2, <2>1 DEF PlaceInv, ArchiveInv
  <2>4. SameModuleInv'
    BY <1>1, <1>3, <2>1 DEF SameModuleInv, Loads
  <2> QED
    BY <2>2, <2>3, <2>4 DEF IInv
<1> QED
  BY <1>6, <1>7, <1>8

----------------------------------------------------------------------------
(* The steps of the UART agent, the module and its surroundings. *)

\* The end of a request, whatever it is: what the module and the mailboxes may have become.
LEMMA EndStep ==
  ASSUME IInv, uartQ # << >>, uartQ' = Tail(uartQ),
         Obeys(Head(uartQ)) \/ UNCHANGED <<address, files>>,
         \/ Obeys(Head(uartQ)) /\ Head(uartQ) \in Archive /\ operation_result' = "ok"
         \/ Head(uartQ) \in Archive /\ operation_result' \in {None, "err"}
         \/ operation_result' = operation_result,
         \/ event' \in {event, "err"}
         \/ Head(uartQ) = "GetInfo" /\ event' = address /\ owed = None
         \/ Obeys(Head(uartQ)) /\ Head(uartQ) = "SetAddress" /\ event' = "ok",
         owed' = owed \/ (Head(uartQ) \in Archive /\ owed' = "ok"),
         consecutive_timeouts' \in 0 .. CounterMod - 1, faults' \in 0 .. MaxFaults,
         UNCHANGED <<device, flags, plugged, works, exchanged, reports, others>>
  PROVE  IInv'
<1> USE NameFacts, BoundsAssumption DEF flags, device
<1> DEFINE req == Head(uartQ)
<1>1. /\ address \in {"own", "other"} /\ files \in 0 .. Chunks \cup {None} /\ left \in 0 .. Chunks
      /\ event \in {None, "ok", "err", "own", "other"} /\ operation_result \in {None, "ok", "err"}
      /\ owed \in {None, "ok"}
  BY DEF IInv, TypeOK
<1>2. PlaceInv'
  BY DEF IInv, PlaceInv
<1>3. address' \in {address, "own"} /\ (req = "SetAddress" /\ Obeys(req) => address' = "own")
  BY ObeysFacts
<1>4. uartQ' \in Seq(AllRequests)
  BY HeadFacts
<1>5. /\ event' \in {None, "ok", "err", "own", "other"} /\ owed' \in {None, "ok"}
      /\ operation_result' \in {None, "ok", "err"} /\ address' \in {"own", "other"}
  BY <1>1, <1>3
<1>6. ~exchanged => /\ pc \in Loads \/ init_flag \/ event = "own" => address' = "own"
                    /\ pc = "result" /\ event = "ok" => address' = "own"
                    /\ owed # None /\ (pc = "result" \/ IsAddress(event)) => address' = "own"
  BY <1>3 DEF IInv, SameModuleInv
<1>7. CASE req \notin Archive
  <2>1. /\ files' = files /\ operation_result' = operation_result
        /\ Without(uartQ, Archive) => Without(uartQ', Archive)
        /\ \A c \in Archive : Only(uartQ, Archive, c) => Only(uartQ', Archive, c)
    BY <1>7, ObeysFacts, HeadFacts DEF Archive
  <2>2. TypeOK'
    BY <1>4, <1>5, <2>1 DEF IInv, TypeOK, AllRequests
  <2>3. ArchiveInv'
    BY <2>1 DEF IInv, ArchiveInv, Archive
  <2>4. SameModuleInv'
    <3>0. owed' = owed
      BY <1>7
    <3>1. ASSUME ~exchanged, owed' # None, pc = "result" \/ IsAddress(event')
          PROVE  address' = "own"
      <4>1. CASE event' \in {event, "err"}
        <5>1. pc = "result" \/ IsAddress(event)
          BY <3>1, <4>1 DEF IsAddress
        <5> QED
          BY <1>6, <3>0, <3>1, <5>1
      <4>2. CASE Obeys(req) /\ req = "SetAddress"
        BY <1>3, <4>2
      <4> QED
        BY <3>0, <3>1, <4>1, <4>2
    <3>2. ASSUME ~exchanged, event' = "own" \/ (pc = "result" /\ event' = "ok")
          PROVE  address' = "own"
      <4>1. CASE event' \in {event, "err"}
        <5>1. event = "own" \/ (pc = "result" /\ event = "ok")
          BY <3>2, <4>1
        <5> QED
          BY <1>6, <3>2, <5>1
      <4>2. CASE event' = address
        <5>1. address = "own"
          BY <1>1, <3>2, <4>2
        <5> QED
          BY <1>3, <5>1
      <4>3. CASE Obeys(req) /\ req = "SetAddress"
        BY <1>3, <4>3
      <4> QED
        BY <4>1, <4>2, <4>3
    <3> QED
      BY <1>6, <2>1, <3>1, <3>2 DEF IInv, SameModuleInv
  <2> QED
    BY <1>2, <2>2, <2>3, <2>4 DEF IInv
<1>8. CASE req \in Archive
  <2>1. /\ pc \in Loads /\ operation_result = None /\ ~init_flag /\ Without(uartQ', Archive)
        /\ (req = "Params") <=> (pc = "clear")
        /\ (req = "AddNode") <=> (pc = "load")
        /\ pc = "load" => files \in {None, Chunks - (left + 1)} /\ left < Chunks
    BY <1>8, HeadFacts DEF Loads, IInv, PlaceInv, Archive
  <2>2. /\ pc = "clear" /\ Obeys(req) => files' = 0
        /\ pc = "load" /\ Obeys(req) => files' \in {None, Chunks - left} /\ (files # None => files' # None)
    BY <1>1, <2>1, ObeysFacts
  <2>3. files' \in 0 .. Chunks \cup {None}
    BY <1>1, <2>1, <2>2 DEF Loads
  <2>4. operation_result' = "ok" => Obeys(req)
    BY <2>1
  <2>5. pc = "load" => (files # None => files' # None)
    BY <2>2
  <2>6. TypeOK'
    BY <1>4, <1>5, <2>3 DEF IInv, TypeOK, AllRequests
  <2>7. ArchiveInv'
    BY <2>1, <2>2, <2>4 DEF ArchiveInv
  <2>8. SameModuleInv'
    <3>1. ~exchanged => (pc = "load" => files # None)
      BY DEF IInv, SameModuleInv
    <3>2. ~exchanged => (pc = "load" \/ (pc = "clear" /\ operation_result' = "ok") => files' # None)
      BY <2>2, <2>4, <2>5, <3>1
    <3> QED
      BY <1>6, <2>1, <3>2 DEF SameModuleInv
  <2> QED
    BY <1>2, <2>6, <2>7, <2>8 DEF IInv
<1> QED
  BY <1>7, <1>8

\* Every end of a request is one of those.
LEMMA UartStep == IInv /\ (UartConfirms \/ UartDenies \/ UartBadlyAnswers \/ UartTimesOut) => IInv'
<1> SUFFICES ASSUME IInv, UartConfirms \/ UartDenies \/ UartBadlyAnswers \/ UartTimesOut PROVE IInv'
  OBVIOUS
<1> USE NameFacts, BoundsAssumption DEF Archive
<1>1. /\ consecutive_timeouts \in 0 .. CounterMod - 1 /\ faults \in 0 .. MaxFaults
      /\ 0 \in 0 .. CounterMod - 1 /\ (consecutive_timeouts + 1) % CounterMod \in 0 .. CounterMod - 1
  BY DEF IInv, TypeOK
<1>2. CASE UartConfirms
  BY <1>1, <1>2, EndStep DEF UartConfirms, bounds
<1>3. CASE UartDenies
  <2>1. faults' \in 0 .. MaxFaults
    BY <1>1, <1>3 DEF UartDenies
  <2> QED
    BY <1>1, <1>3, <2>1, EndStep DEF UartDenies, module
<1>4. CASE UartBadlyAnswers
  <2>1. faults' \in 0 .. MaxFaults
    BY <1>1, <1>4 DEF UartBadlyAnswers
  <2> QED
    BY <1>1, <1>4, <2>1, EndStep DEF UartBadlyAnswers
<1>5. CASE UartTimesOut
  <2>1. faults' \in 0 .. MaxFaults
    BY <1>1, <1>5 DEF UartTimesOut
  <2> QED
    BY <1>1, <1>5, <2>1, EndStep DEF UartTimesOut, ToldOf
<1> QED
  BY <1>2, <1>3, <1>4, <1>5

\* Reports, other requests and what happens to the module outside.
LEMMA OutsideStep == IInv /\ (PostOwed \/ Environment \/ UNCHANGED vars) => IInv'
<1> SUFFICES ASSUME IInv, PostOwed \/ Environment \/ UNCHANGED vars PROVE IInv'
  OBVIOUS
<1> USE NameFacts, BoundsAssumption DEF device, mailboxes, flags, module, bounds
<1>1. CASE PostOwed
  <2>1. TypeOK'
    BY <1>1 DEF PostOwed, IInv, TypeOK
  <2>2. PlaceInv' /\ ArchiveInv'
    BY <1>1 DEF PostOwed, IInv, PlaceInv, ArchiveInv
  <2>3. SameModuleInv'
    <3>1. /\ owed = "ok" /\ event' = "ok" /\ owed' = None
          /\ UNCHANGED <<pc, operation_result, init_flag, address, files, exchanged>>
      BY <1>1 DEF PostOwed, IInv, TypeOK
    <3> QED
      BY <3>1 DEF IInv, SameModuleInv, Loads
  <2> QED
    BY <2>1, <2>2, <2>3 DEF IInv
<1>2. CASE ModuleReports
  <2>1. TypeOK'
    BY <1>2 DEF ModuleReports, IInv, TypeOK
  <2>2. PlaceInv' /\ ArchiveInv'
    BY <1>2 DEF ModuleReports, IInv, PlaceInv, ArchiveInv
  <2>3. SameModuleInv'
    <3>1. /\ owed = None /\ owed' = None /\ event' = address /\ address \in {"own", "other"}
          /\ UNCHANGED <<pc, operation_result, init_flag, address, files, exchanged>>
      BY <1>2 DEF ModuleReports, IInv, TypeOK
    <3> QED
      BY <3>1 DEF IInv, SameModuleInv, Loads
  <2> QED
    BY <2>1, <2>2, <2>3 DEF IInv
<1>3. ASSUME NEW r \in Others, OtherRequest(r)
      PROVE  IInv'
  <2>1. uartQ \in Seq(AllRequests) /\ uartQ' = Append(uartQ, r) /\ r \in AllRequests /\ r \notin Archive
    BY <1>3 DEF OtherRequest, IInv, TypeOK, AllRequests
  <2>2. /\ uartQ' \in Seq(AllRequests)
        /\ Without(uartQ, Archive) => Without(uartQ', Archive)
        /\ \A c : Only(uartQ, Archive, c) => Only(uartQ', Archive, c)
    BY <2>1, AppendProperties, AppendOther
  <2>3. TypeOK'
    BY <1>3, <2>2 DEF OtherRequest, IInv, TypeOK, AllRequests
  <2>4. PlaceInv' /\ SameModuleInv'
    BY <1>3 DEF OtherRequest, IInv, PlaceInv, SameModuleInv
  <2>5. ArchiveInv'
    BY <1>3, <2>2 DEF OtherRequest, IInv, ArchiveInv
  <2> QED
    BY <2>3, <2>4, <2>5 DEF IInv
<1>4. CASE Unplug \/ Breaks \/ UNCHANGED vars
  <2>1. UNCHANGED <<device, mailboxes, flags, uartQ, owed, address, files, exchanged>>
    BY <1>4 DEF Unplug, Breaks, vars
  <2>2. TypeOK'
    <3>1. /\ UNCHANGED <<consecutive_timeouts, reports, others>>
          /\ plugged' \in {plugged, FALSE} /\ works' \in {works, FALSE}
          /\ faults' = faults \/ (faults < MaxFaults /\ faults' = faults + 1)
      BY <1>4 DEF Unplug, Breaks, vars, module, bounds
    <3>2. faults \in 0 .. MaxFaults /\ plugged \in BOOLEAN /\ works \in BOOLEAN
      BY DEF IInv, TypeOK
    <3>3. faults' \in 0 .. MaxFaults
      BY <3>1, <3>2, BoundsAssumption
    <3>4. plugged' \in BOOLEAN /\ works' \in BOOLEAN
      BY <3>1, <3>2
    <3> QED
      BY <2>1, <3>1, <3>3, <3>4 DEF IInv, TypeOK
  <2> QED
    BY <2>1, <2>2 DEF IInv, PlaceInv, ArchiveInv, SameModuleInv
<1>5. CASE Plug
  <2>1. /\ UNCHANGED <<device, mailboxes, flags, uartQ, owed>>
        /\ \/ files' = files /\ exchanged' = exchanged /\ address' = address
           \/ files' = None /\ exchanged' = (exchanged \/ StillCounts)
    BY <1>5 DEF Plug
  <2>2. TypeOK'
    <3>1. /\ UNCHANGED <<consecutive_timeouts, works, bounds>> /\ plugged' = TRUE
          /\ address' = address \/ address' \in {"own", "other"}
          /\ exchanged' = exchanged \/ exchanged' = (exchanged \/ StillCounts)
      BY <1>5 DEF Plug
    <3>2. /\ address \in {"own", "other"} /\ exchanged \in BOOLEAN /\ StillCounts \in BOOLEAN
          /\ files \in 0 .. Chunks \cup {None}
      BY DEF IInv, TypeOK, StillCounts, IsAddress
    <3>3. address' \in {"own", "other"} /\ files' \in 0 .. Chunks \cup {None}
      BY <2>1, <3>1, <3>2
    <3>4. exchanged' \in BOOLEAN /\ plugged' \in BOOLEAN
      BY <3>1, <3>2
    <3> QED
      BY <2>1, <3>1, <3>3, <3>4 DEF IInv, TypeOK, bounds
  <2>3. PlaceInv'
    BY <2>1 DEF IInv, PlaceInv
  <2>4. ArchiveInv'
    BY <2>1 DEF IInv, ArchiveInv
  <2>5. SameModuleInv'
    BY <2>1 DEF IInv, SameModuleInv, StillCounts, Loads, IsAddress
  <2> QED
    BY <2>2, <2>3, <2>4, <2>5 DEF IInv
<1> QED
  BY <1>1, <1>2, <1>3, <1>4, <1>5 DEF Environment

----------------------------------------------------------------------------
(* The theorems. *)

\* The inductive invariant holds of every behaviour.
THEOREM Invariance == Spec => []IInv
<1>1. Init => IInv
  <2> SUFFICES ASSUME Init PROVE IInv
    OBVIOUS
  <2>1. uartQ \in Seq(AllRequests) /\ Without(uartQ, Archive)
    BY DEF Init, Without
  <2>2. TypeOK
    <3>1. /\ 0 \in 0 .. Chunks /\ 0 \in 0 .. 3 /\ 0 \in 0 .. CounterMod - 1
          /\ 0 \in 0 .. MaxFaults /\ 0 \in 0 .. MaxReports /\ 0 \in 0 .. MaxOthers
      BY BoundsAssumption
    <3>2. /\ state = "Init" /\ pc = "start" /\ event = None /\ operation_result = None
          /\ owed = None /\ address \in {"own", "other"} /\ files = None
      BY DEF Init
    <3>3. /\ tries = 0 /\ left = 0 /\ consecutive_timeouts = 0
          /\ faults = 0 /\ reports = 0 /\ others = 0
      BY DEF Init
    <3>4. /\ init_flag \in BOOLEAN /\ online \in BOOLEAN
          /\ plugged \in BOOLEAN /\ works \in BOOLEAN /\ exchanged \in BOOLEAN
      BY DEF Init
    <3> QED
      BY <2>1, <3>1, <3>2, <3>3, <3>4 DEF TypeOK, AllRequests
  <2>3. PlaceInv /\ ArchiveInv /\ SameModuleInv
    BY <2>1, NameFacts DEF Init, PlaceInv, ArchiveInv, SameModuleInv, Loads, IsAddress
  <2> QED
    BY <2>2, <2>3 DEF IInv
<1>2. IInv /\ [Next]_vars => IInv'
  BY DeviceStep, InitialiseStep, OperationStep, UartStep, OutsideStep
  DEF Next, Device, Initialise, Uart
<1> QED
  BY <1>1, <1>2, PTL DEF Spec

\* The device, the mailboxes and the module keep their types.
THEOREM TypeCorrect == Spec => []TypeOK
<1>1. IInv => TypeOK
  BY DEF IInv
<1> QED
  BY <1>1, Invariance, PTL

\* Once init_flag is set the module has the service's address and the whole archive, unless
\* it was exchanged, whatever was posted to the mailboxes meanwhile.
THEOREM InitTrue == Spec => []InitIsTrue
<1>1. IInv => InitIsTrue
  BY DEF IInv, PlaceInv, ArchiveInv, SameModuleInv, InitIsTrue
<1> QED
  BY <1>1, Invariance, PTL

=============================================================================
