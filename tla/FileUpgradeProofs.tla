------------------------- MODULE FileUpgradeProofs -------------------------
(***************************************************************************)
(* Proofs about FileUpgrade for every number of segments, of rounds, of    *)
(* requests, faults and reports: there is one upgrade at a time, it counts *)
(* as a success only after a report, and without reports the dispatcher    *)
(* finds the answer to its own segment.                                    *)
(***************************************************************************)
EXTENDS FileUpgrade, SequenceTheorems, TLAPS

----------------------------------------------------------------------------
(* The queue in front of the UART agent: there is one request of a kind with the agent at a *)
(* time, whatever others sent around it.                                                    *)

\* A queue without requests of kind K, and one in which c is the only one of its kind.
Without(q, K) == \A i \in 1 .. Len(q) : q[i] \notin K
Only(q, K, c) == \E i \in 1 .. Len(q) : q[i] = c /\ \A j \in 1 .. Len(q) : q[j] \in K => j = i

\* Another request behind one of a kind leaves it the only one.
LEMMA AppendOther ==
  ASSUME NEW S, NEW q \in Seq(S), NEW K, NEW w \in S, w \notin K
  PROVE  /\ Without(q, K) => Without(Append(q, w), K)
         /\ \A c : Only(q, K, c) => Only(Append(q, w), K, c)
<1>1. /\ Len(Append(q, w)) = Len(q) + 1 /\ Len(q) \in Nat
      /\ \A i \in 1 .. Len(q) : Append(q, w)[i] = q[i]
      /\ Append(q, w)[Len(q) + 1] = w
  BY AppendProperties
<1>2. \A i \in 1 .. Len(Append(q, w)) : Append(q, w)[i] \in K =>
         i \in 1 .. Len(q) /\ Append(q, w)[i] = q[i]
  BY <1>1
<1>3. ASSUME NEW c, Only(q, K, c)
      PROVE  Only(Append(q, w), K, c)
  <2>1. PICK i \in 1 .. Len(q) : q[i] = c /\ \A j \in 1 .. Len(q) : q[j] \in K => j = i
    BY <1>3 DEF Only
  <2>2. i \in 1 .. Len(Append(q, w)) /\ Append(q, w)[i] = c
    BY <1>1, <2>1
  <2> QED
    BY <1>2, <2>1, <2>2 DEF Only
<1> QED
  BY <1>2, <1>3 DEF Without

\* A request that joins a queue without its kind is the only one.
LEMMA AppendFirst ==
  ASSUME NEW S, NEW q \in Seq(S), NEW K, Without(q, K), NEW c \in S
  PROVE  Only(Append(q, c), K, c)
<1>1. /\ Len(Append(q, c)) = Len(q) + 1 /\ Len(q) \in Nat
      /\ \A i \in 1 .. Len(q) : Append(q, c)[i] = q[i]
      /\ Append(q, c)[Len(q) + 1] = c
  BY AppendProperties
<1>2. Len(q) + 1 \in 1 .. Len(Append(q, c))
  BY <1>1
<1>3. \A j \in 1 .. Len(Append(q, c)) : Append(q, c)[j] \in K => j = Len(q) + 1
  BY <1>1 DEF Without
<1> QED
  BY <1>1, <1>2, <1>3 DEF Only

\* The first request leaves: one of another kind changes nothing, the only one was it.
LEMMA TailRequest ==
  ASSUME NEW S, NEW q \in Seq(S), NEW K, q # << >>
  PROVE  /\ Without(q, K) => Without(Tail(q), K) /\ Head(q) \notin K
         /\ \A c : Only(q, K, c) /\ Head(q) \notin K /\ c \in K => Only(Tail(q), K, c)
         /\ \A c : Only(q, K, c) /\ Head(q) \in K => Head(q) = c /\ Without(Tail(q), K)
<1>1. /\ Head(q) = q[1] /\ Len(q) \in Nat \ {0} /\ Len(Tail(q)) = Len(q) - 1
      /\ \A i \in 1 .. Len(Tail(q)) : Tail(q)[i] = q[i + 1]
  BY HeadTailProperties
<1>2. 1 \in 1 .. Len(q) /\ \A i \in 1 .. Len(Tail(q)) : i + 1 \in 1 .. Len(q)
  BY <1>1
<1>3. ASSUME NEW c, Only(q, K, c), Head(q) \notin K, c \in K
      PROVE  Only(Tail(q), K, c)
  <2>1. PICK i \in 1 .. Len(q) : q[i] = c /\ \A j \in 1 .. Len(q) : q[j] \in K => j = i
    BY <1>3 DEF Only
  <2>2. i - 1 \in 1 .. Len(Tail(q)) /\ Tail(q)[i - 1] = c
    BY <1>1, <1>3, <2>1
  <2>3. \A j \in 1 .. Len(Tail(q)) : Tail(q)[j] \in K => j + 1 = i
    BY <1>1, <1>2, <2>1
  <2>4. \A j \in 1 .. Len(Tail(q)) : Tail(q)[j] \in K => j = i - 1
    BY <2>3
  <2> QED
    BY <2>2, <2>4 DEF Only
<1>4. ASSUME NEW c, Only(q, K, c), Head(q) \in K
      PROVE  Head(q) = c /\ Without(Tail(q), K)
  <2>1. PICK i \in 1 .. Len(q) : q[i] = c /\ \A j \in 1 .. Len(q) : q[j] \in K => j = i
    BY <1>4 DEF Only
  <2>2. i = 1
    BY <1>1, <1>2, <1>4, <2>1
  <2>3. \A j \in 1 .. Len(Tail(q)) : j + 1 # 1
    BY <1>1
  <2> QED
    BY <1>1, <1>2, <2>1, <2>2, <2>3 DEF Without
<1>5. ASSUME Without(q, K)
      PROVE  Without(Tail(q), K) /\ Head(q) \notin K
  BY <1>1, <1>2, <1>5 DEF Without
<1> QED
  BY <1>3, <1>4, <1>5

----------------------------------------------------------------------------
(* The inductive invariant. *)

\* The requests that post their end to the mailbox: all but the query.
Segs == 0 .. FILE_CHECK_ERROR

\* As long as no report came in between, a segment is with the agent, its end is in the
\* mailbox, or nothing is there; the first two only while the dispatcher waits for it.
MailboxInv ==
  \/ mixed
  \/ result = None /\ Without(uartQ, Segs)
  \/ dispatch = "wait" /\ result = None /\ Only(uartQ, Segs, offset)
  \/ dispatch = "wait" /\ result # None /\ result.of = offset /\ Without(uartQ, Segs)

\* The thread of the pool sets the status itself; what changes it then is a report.
\* The report the reader handles is older than the thread only if it handled it at its start.
StatusInv ==
  pool \in {"wait", "query", "spin"} =>
    /\ status # "Upgrading" => told \/ crossed
    /\ reader = "finish" /\ held => crossed

IInv ==
  /\ TypeOK
  /\ OneUpgrade
  /\ MailboxInv
  /\ StatusInv

----------------------------------------------------------------------------
(* Facts about numbers and results. *)

\* A request is a segment or the query.
LEMMA NumberFacts ==
  /\ MaxSegments \in Nat \ {0} /\ Query = MaxSegments + 1 /\ FILE_CHECK_ERROR = MaxSegments
  /\ Query \in 0 .. Query /\ Query \notin Segs /\ Segs \subseteq 0 .. Query
  /\ \A o \in 0 .. MaxSegments - 1 : o \in Segs
  /\ \A x \in 0 .. Query : x # Query => x \in Segs
  BY BoundsAssumption DEF Query, FILE_CHECK_ERROR, Segs

\* What is posted is a result, of the request it is posted for.
LEMMA PostFacts ==
  ASSUME NEW ok \in BOOLEAN, NEW s \in Segs, NEW of \in 0 .. Query, Post(ok, s, of)
  PROVE  result' \in Results /\ result'.of = of
  BY DEF Post, Results, Segs

\* A segment goes to the agent, or the file is handed over to the pool.
LEMMA SendFacts ==
  ASSUME IInv, NEW o \in Nat, NEW n \in 0 .. MaxSegments, SendFrom(o, n)
  PROVE  /\ uartQ' \in Seq(0 .. Query)
         /\ offset' \in 0 .. MaxSegments - 1
         /\ \/ pool' = pool /\ dispatch' = "wait" /\ (Without(uartQ, Segs) => Only(uartQ', Segs, offset'))
            \/ pool' = "queued" /\ dispatch' = "recv" /\ uartQ' = uartQ
<1>1. uartQ \in Seq(0 .. Query)
  BY DEF IInv, TypeOK
<1>2. CASE o < n
  <2>1. o \in 0 .. MaxSegments - 1 /\ o \in 0 .. Query
    BY <1>2, NumberFacts
  <2>2. uartQ' = Append(uartQ, o) /\ dispatch' = "wait" /\ offset' = o /\ pool' = pool
    BY <1>2 DEF SendFrom
  <2>3. uartQ' \in Seq(0 .. Query)
    BY <1>1, <2>1, <2>2, AppendProperties
  <2>4. Without(uartQ, Segs) => Only(uartQ', Segs, offset')
    BY <1>1, <2>1, <2>2, AppendFirst
  <2> QED
    BY <2>1, <2>2, <2>3, <2>4
<1>3. CASE ~(o < n)
  <2>1. uartQ' = uartQ /\ dispatch' = "recv" /\ offset' = 0 /\ pool' = "queued"
    BY <1>3 DEF SendFrom
  <2> QED
    BY <1>1, <2>1, NumberFacts
<1> QED
  BY <1>2, <1>3

\* A request leaves the queue.
LEMMA HeadFacts ==
  ASSUME IInv, uartQ # << >>, uartQ' = Tail(uartQ)
  PROVE  /\ Head(uartQ) \in 0 .. Query /\ uartQ' \in Seq(0 .. Query)
         /\ Without(uartQ, Segs) => Without(uartQ', Segs) /\ Head(uartQ) \notin Segs
         /\ \A c \in Segs : Only(uartQ, Segs, c) /\ Head(uartQ) \notin Segs => Only(uartQ', Segs, c)
         /\ \A c \in Segs : Only(uartQ, Segs, c) /\ Head(uartQ) \in Segs => Head(uartQ) = c /\ Without(uartQ', Segs)
<1>1. uartQ \in Seq(0 .. Query)
  BY DEF IInv, TypeOK
<1>2. Head(uartQ) \in 0 .. Query /\ uartQ' \in Seq(0 .. Query)
  BY <1>1, HeadTailProperties
<1> QED
  BY <1>1, <1>2, TailRequest

----------------------------------------------------------------------------
(* The dispatcher. *)

\* A request of a client is refused or starts an upgrade.
LEMMA ClientStep == IInv /\ Client => IInv'
<1> SUFFICES ASSUME IInv, NEW f \in {"Module", "Slave"}, NEW n \in 0 .. MaxSegments, MqttFileUpgrade(f, n)
             PROVE  IInv'
  BY DEF Client
<1> USE NumberFacts, BoundsAssumption
<1>1. /\ UNCHANGED <<wait_count, reader, history, faults, reports, upgrade_result, result>>
      /\ ops' \in 0 .. MaxOps /\ dispatch = "recv"
  BY DEF MqttFileUpgrade, IInv, TypeOK, upgradeState
<1>2. CASE UNCHANGED <<upgradeState, dispatchVars, pool, uartQ>>
  <2>1. TypeOK'
    BY <1>1, <1>2 DEF IInv, TypeOK, history, upgradeState, dispatchVars
  <2> QED
    BY <1>1, <1>2, <2>1 DEF IInv, OneUpgrade, MailboxInv, StatusInv, history, upgradeState, dispatchVars
<1>3. CASE /\ ~upgrading /\ upgrading' = TRUE /\ status' = "Idle" /\ flag' = f /\ segments' = n
           /\ SendFrom(0, n)
  <2>1. /\ uartQ' \in Seq(0 .. Query) /\ offset' \in 0 .. MaxSegments - 1
        /\ \/ pool' = pool /\ dispatch' = "wait" /\ (Without(uartQ, Segs) => Only(uartQ', Segs, offset'))
           \/ pool' = "queued" /\ dispatch' = "recv" /\ uartQ' = uartQ
    BY <1>3, SendFacts
  <2>2. pool = "idle"
    BY <1>3 DEF IInv, OneUpgrade
  <2>3. TypeOK'
    BY <1>1, <1>3, <2>1, <2>2 DEF IInv, TypeOK, history
  <2>4. OneUpgrade' /\ StatusInv'
    BY <1>3, <2>1, <2>2 DEF OneUpgrade, StatusInv
  <2>5. MailboxInv'
    BY <1>1, <2>1 DEF IInv, MailboxInv, history
  <2> QED
    BY <2>3, <2>4, <2>5 DEF IInv
<1> QED
  BY <1>2, <1>3 DEF MqttFileUpgrade, MayUpgrade

\* The dispatcher takes a result: the next segment, the pool, or the end of the transfer.
LEMMA DispatchStep == IInv /\ SegmentReturns => IInv'
<1> SUFFICES ASSUME IInv, SegmentReturns PROVE IInv'
  OBVIOUS
<1> USE NumberFacts, BoundsAssumption
<1>1. /\ UNCHANGED <<flag, segments, wait_count, reader, history, bounds>>
      /\ dispatch = "wait" /\ result # None /\ result' = None
  BY DEF SegmentReturns, Taken
<1>2. pool = "idle" /\ upgrading = TRUE /\ (mixed \/ Without(uartQ, Segs))
  BY <1>1 DEF IInv, OneUpgrade, MailboxInv, TypeOK
<1>3. CASE SendFrom(offset + 1, segments) /\ UNCHANGED <<status, upgrade_result, upgrading>>
  <2>1. offset + 1 \in Nat /\ segments \in 0 .. MaxSegments
    BY DEF IInv, TypeOK
  <2>2. /\ uartQ' \in Seq(0 .. Query) /\ offset' \in 0 .. MaxSegments - 1
        /\ \/ pool' = pool /\ dispatch' = "wait" /\ (Without(uartQ, Segs) => Only(uartQ', Segs, offset'))
           \/ pool' = "queued" /\ dispatch' = "recv" /\ uartQ' = uartQ
    BY <1>3, <2>1, SendFacts
  <2>3. TypeOK'
    BY <1>1, <1>2, <1>3, <2>2 DEF IInv, TypeOK, history, bounds
  <2>4. OneUpgrade' /\ StatusInv'
    BY <1>2, <1>3, <2>2 DEF OneUpgrade, StatusInv
  <2>5. MailboxInv'
    BY <1>1, <1>2, <2>2 DEF MailboxInv, history
  <2> QED
    BY <2>3, <2>4, <2>5 DEF IInv
<1>4. CASE /\ \E r \in {"FileError", "TransferFailed"} : finish_upgrade(r)
           /\ dispatch' = "recv" /\ offset' = 0 /\ UNCHANGED <<uartQ, pool>>
  <2>1. TypeOK'
    <3>1. /\ status' = "Finished" /\ upgrade_result' \in {"FileError", "TransferFailed"}
          /\ upgrading' = FALSE /\ 0 \in 0 .. MaxSegments - 1
      BY <1>4 DEF finish_upgrade
    <3> QED
      BY <1>1, <1>4, <3>1 DEF IInv, TypeOK, history, bounds
  <2>2. OneUpgrade' /\ StatusInv' /\ MailboxInv'
    BY <1>1, <1>2, <1>4 DEF OneUpgrade, StatusInv, MailboxInv, history, finish_upgrade
  <2> QED
    BY <2>1, <2>2 DEF IInv
<1> QED
  BY <1>3, <1>4 DEF SegmentReturns

----------------------------------------------------------------------------
(* The thread of the pool. *)

\* What a wait that returns may do: the thread leaves, goes on or spins.
LEMMA WaitFacts ==
  ASSUME IInv, NEW s \in {"Idle", "Upgrading", "Finished"}, RoundEnds(s) \/ WaitReturns(s)
  PROVE  /\ \/ pool' = "idle" /\ upgrading' = FALSE /\ status' = "Finished"
            \/ pool' \in {"wait", "spin"} /\ upgrading' = upgrading /\ status' = s
         /\ result' \in {result, None} /\ wait_count' \in 0 .. WaitRounds - 1
         /\ upgrade_result' \in {upgrade_result, "OtherError", "Success"}
         /\ ~upgrading' /\ upgrade_result' = "Success" => s # "Upgrading" \/ upgrading' = upgrading
<1> USE BoundsAssumption
<1>1. wait_count \in 0 .. WaitRounds - 1
  BY DEF IInv, TypeOK
<1>2. ASSUME Leave(s)
      PROVE  /\ pool' = "idle" /\ upgrading' = FALSE /\ status' = "Finished" /\ wait_count' = 0
             /\ upgrade_result' \in {"OtherError", "Success"}
             /\ upgrade_result' = "Success" => s # "Upgrading"
  BY <1>2 DEF Leave, finish_upgrade
<1>3. 0 \in 0 .. WaitRounds - 1
  OBVIOUS
<1>4. CASE Leave(s) /\ result' \in {result, None}
  BY <1>2, <1>3, <1>4
<1>5. CASE RoundEnds(s)
  <2>1. CASE wait_count + 1 < WaitRounds /\ s = "Upgrading"
    <3>1. /\ result' = None
          /\ \/ Leave(s)
             \/ /\ pool' = "wait" /\ wait_count' = wait_count + 1 /\ status' = s
                /\ UNCHANGED <<upgrade_result, upgrading>>
      BY <1>5 DEF RoundEnds, Taken
    <3>2. wait_count + 1 \in 0 .. WaitRounds - 1
      BY <1>1, <2>1
    <3> QED
      BY <1>4, <3>1, <3>2
  <2>2. CASE ~(wait_count + 1 < WaitRounds /\ s = "Upgrading")
    <3>1. Leave(s) /\ result' = None
      BY <1>5, <2>2 DEF RoundEnds, Taken
    <3> QED
      BY <1>4, <3>1
  <2> QED
    BY <2>1, <2>2
<1>6. CASE WaitReturns(s)
  <2>1. CASE flag = "Slave" /\ RoundEnds(s)
    BY <1>5, <2>1
  <2>2. CASE flag = "Module" /\ s # "Upgrading" /\ Leave(s) /\ UNCHANGED result
    BY <1>4, <2>2
  <2>3. CASE /\ pool' = "spin" /\ status' = s
             /\ UNCHANGED <<wait_count, upgrade_result, upgrading, result>>
    BY <1>1, <2>3
  <2> QED
    BY <1>6, <2>1, <2>2, <2>3 DEF WaitReturns
<1> QED
  BY <1>5, <1>6

\* A step of the thread after a wait keeps the invariant.
LEMMA WaitStep ==
  ASSUME IInv, pool # "idle", NEW s \in {"Idle", "Upgrading", "Finished"},
         RoundEnds(s) \/ WaitReturns(s),
         s = "Upgrading" \/ told' \/ crossed',
         reader = "finish" /\ held' => crossed',
         told' \in BOOLEAN, crossed' \in BOOLEAN, held' \in BOOLEAN,
         UNCHANGED <<dispatchVars, uartQ, reader, mixed, garbled, bounds>>
  PROVE  IInv'
<1>1. /\ \/ pool' = "idle" /\ upgrading' = FALSE /\ status' = "Finished"
         \/ pool' \in {"wait", "spin"} /\ upgrading' = upgrading /\ status' = s
      /\ result' \in {result, None} /\ wait_count' \in 0 .. WaitRounds - 1
      /\ upgrade_result' \in {upgrade_result, "OtherError", "Success"}
  BY WaitFacts
<1>2. dispatch = "recv" /\ upgrading = TRUE
  BY DEF IInv, OneUpgrade, TypeOK
<1>3. result' \in Results \cup {None}
  BY <1>1 DEF IInv, TypeOK
<1>4. upgrading' \in BOOLEAN /\ pool' \in {"idle", "wait", "spin"} /\ status' \in {"Idle", "Upgrading", "Finished"}
  BY <1>1, <1>2
<1>5. TypeOK'
  BY <1>1, <1>3, <1>4 DEF IInv, TypeOK, dispatchVars, bounds
<1>6. OneUpgrade' /\ StatusInv'
  <2>1. CASE pool' = "idle" /\ upgrading' = FALSE
    BY <1>2, <2>1 DEF OneUpgrade, StatusInv, dispatchVars
  <2>2. CASE pool' \in {"wait", "spin"} /\ upgrading' = upgrading /\ status' = s
    <3>1. status' # "Upgrading" => told' \/ crossed'
      BY <2>2
    <3>2. pool' # "idle" /\ upgrading' = TRUE /\ dispatch' = "recv"
      BY <1>2, <2>2 DEF dispatchVars
    <3> QED
      BY <3>1, <3>2 DEF OneUpgrade, StatusInv
  <2> QED
    BY <1>1, <2>1, <2>2
<1>7. MailboxInv'
  BY <1>1, <1>2 DEF IInv, MailboxInv, dispatchVars
<1> QED
  BY <1>5, <1>6, <1>7 DEF IInv

\* The thread starts, wakes up, or has its answer or its time is up.
LEMMA PoolStep == IInv /\ Pool => IInv'
<1> SUFFICES ASSUME IInv, Pool PROVE IInv'
  OBVIOUS
<1> USE NumberFacts, BoundsAssumption
<1>1. CASE PoolStarts
  <2>1. /\ UNCHANGED <<dispatchVars, uartQ, reader, mixed, garbled, bounds>> /\ pool = "queued"
        /\ told' = FALSE /\ crossed' = (reader = "finish") /\ held' = (reader = "finish")
    BY <1>1 DEF PoolStarts
  <2>2. CASE /\ status' = "Upgrading" /\ pool' = "wait"
             /\ UNCHANGED <<upgrade_result, result, upgrading, wait_count>>
    <3>1. TypeOK'
      BY <2>1, <2>2 DEF IInv, TypeOK, dispatchVars, bounds
    <3> QED
      BY <2>1, <2>2, <3>1 DEF IInv, OneUpgrade, StatusInv, MailboxInv, dispatchVars
  <2>3. CASE WaitReturns("Upgrading")
    BY <2>1, <2>3, WaitStep
  <2> QED
    BY <1>1, <2>2, <2>3 DEF PoolStarts, StatusAtStart
<1>2. CASE PoolWakes \/ PoolQueryReturns
  <2>1. /\ UNCHANGED <<dispatchVars, uartQ, reader, mixed, garbled, bounds>> /\ pool \in {"wait", "query"}
        /\ RoundEnds(status) \/ WaitReturns(status)
        /\ UNCHANGED <<told, crossed, held>>
    BY <1>2 DEF PoolWakes, PoolQueryReturns, history
  <2>2. /\ status \in {"Idle", "Upgrading", "Finished"}
        /\ told \in BOOLEAN /\ crossed \in BOOLEAN /\ held \in BOOLEAN
        /\ status = "Upgrading" \/ told \/ crossed
        /\ reader = "finish" /\ held => crossed
    BY <2>1 DEF IInv, TypeOK, StatusInv
  <2> QED
    BY <2>1, <2>2, WaitStep
<1>3. CASE PoolTimesOut
  <2>1. UNCHANGED <<result, dispatchVars, reader, history, bounds>> /\ pool = "wait" /\ result = None
    BY <1>3 DEF PoolTimesOut
  <2>2. dispatch = "recv" /\ upgrading = TRUE
    BY <2>1 DEF IInv, OneUpgrade, TypeOK
  <2>3. CASE Leave(status) /\ UNCHANGED uartQ
    <3>1. TypeOK'
      <4>1. /\ status' = "Finished" /\ upgrade_result' \in {"OtherError", "Success"}
            /\ upgrading' = FALSE /\ pool' = "idle" /\ wait_count' = 0 /\ 0 \in 0 .. WaitRounds - 1
        BY <2>3 DEF Leave, finish_upgrade
      <4> QED
        BY <2>1, <2>3, <4>1 DEF IInv, TypeOK, dispatchVars, history, bounds
    <3>2. OneUpgrade' /\ StatusInv' /\ MailboxInv'
      BY <2>1, <2>2, <2>3 DEF Leave, finish_upgrade, IInv, OneUpgrade, StatusInv, MailboxInv, dispatchVars, history
    <3> QED
      BY <3>1, <3>2 DEF IInv
  <2>4. CASE /\ uartQ' = Append(uartQ, Query) /\ pool' = "query"
             /\ UNCHANGED <<status, upgrade_result, upgrading, wait_count>>
    <3>1. uartQ \in Seq(0 .. Query)
      BY DEF IInv, TypeOK
    <3>2. uartQ' \in Seq(0 .. Query) /\ (Without(uartQ, Segs) => Without(uartQ', Segs))
      BY <2>4, <3>1, AppendProperties, AppendOther
    <3>3. TypeOK'
      BY <2>1, <2>4, <3>2 DEF IInv, TypeOK, dispatchVars, history, bounds
    <3>4. OneUpgrade' /\ StatusInv' /\ MailboxInv'
      BY <2>1, <2>2, <2>4, <3>2 DEF IInv, OneUpgrade, StatusInv, MailboxInv, dispatchVars, history
    <3> QED
      BY <3>3, <3>4 DEF IInv
  <2> QED
    BY <1>3, <2>3, <2>4 DEF PoolTimesOut
<1> QED
  BY <1>1, <1>2, <1>3 DEF Pool

----------------------------------------------------------------------------
(* The UART agent and the reader. *)

\* A segment ends, with a result of its own or with none.
LEMMA SegmentStep == IInv /\ (SegmentAnswered \/ SegmentTimesOut) => IInv'
<1> SUFFICES ASSUME IInv, SegmentAnswered \/ SegmentTimesOut PROVE IInv'
  OBVIOUS
<1> USE NumberFacts, BoundsAssumption
<1>1. /\ UNCHANGED <<status, upgrade_result, upgrading, dispatchVars, poolVars, reader, told, crossed, held,
                     mixed, ops, reports>>
      /\ uartQ # << >> /\ uartQ' = Tail(uartQ) /\ Head(uartQ) # Query
  BY DEF SegmentAnswered, SegmentTimesOut, history
<1>2. Head(uartQ) \in Segs /\ Head(uartQ) \in 0 .. Query
  BY <1>1, HeadFacts
<1>3. faults' \in 0 .. MaxFaults /\ garbled' \in BOOLEAN
  <2>1. faults \in 0 .. MaxFaults /\ garbled \in BOOLEAN
    BY DEF IInv, TypeOK
  <2>2. faults' = faults \/ (faults < MaxFaults /\ faults' = faults + 1)
    BY DEF SegmentAnswered, SegmentTimesOut, Fault
  <2>3. garbled' = garbled \/ garbled' = TRUE
    BY DEF SegmentAnswered, SegmentTimesOut, history
  <2>4. faults' \in 0 .. MaxFaults
    BY <2>1, <2>2
  <2> QED
    BY <2>1, <2>3, <2>4
<1>4. result' = result \/ (result' \in Results /\ result'.of = Head(uartQ))
  <2>1. 0 \in Segs /\ FILE_CHECK_ERROR \in Segs
    BY DEF Segs
  <2>2. \/ result' = result
        \/ \E ok \in BOOLEAN, s \in Segs : Post(ok, s, Head(uartQ))
    BY <1>2, <2>1 DEF SegmentAnswered, SegmentTimesOut, TellTimeout
  <2> QED
    BY <1>2, <2>2, PostFacts
<1>5. result' \in Results \cup {None} /\ uartQ' \in Seq(0 .. Query)
  BY <1>1, <1>4, HeadFacts DEF IInv, TypeOK
<1>6. TypeOK'
  BY <1>1, <1>3, <1>5 DEF IInv, TypeOK, dispatchVars, poolVars
<1>7. OneUpgrade' /\ StatusInv'
  BY <1>1 DEF IInv, OneUpgrade, StatusInv, dispatchVars, poolVars
<1>8. MailboxInv'
  <2>1. offset \in Segs
    BY DEF IInv, TypeOK
  <2>2. CASE mixed
    BY <1>1, <2>2 DEF MailboxInv
  <2>3. CASE dispatch = "wait" /\ result = None /\ Only(uartQ, Segs, offset)
    <3>1. Head(uartQ) = offset /\ Without(uartQ', Segs)
      BY <1>1, <1>2, <2>1, <2>3, HeadFacts
    <3> QED
      BY <1>1, <1>4, <2>3, <3>1 DEF MailboxInv, dispatchVars
  <2>4. ~Without(uartQ, Segs)
    BY <1>1, <1>2, HeadFacts
  <2> QED
    BY <2>2, <2>3, <2>4 DEF IInv, MailboxInv
<1> QED
  BY <1>6, <1>7, <1>8 DEF IInv

\* A query ends; nobody is told.
LEMMA QueryStep == IInv /\ (QueryAnswered \/ QueryTimesOut) => IInv'
<1> SUFFICES ASSUME IInv, QueryAnswered \/ QueryTimesOut PROVE IInv'
  OBVIOUS
<1> USE NumberFacts
<1>1. /\ UNCHANGED <<upgradeState, dispatchVars, poolVars, history, bounds>>
      /\ uartQ # << >> /\ uartQ' = Tail(uartQ) /\ Head(uartQ) \notin Segs
      /\ reader' \in {reader, "dead"}
  BY DEF QueryAnswered, QueryTimesOut
<1>2. offset \in Segs
  BY DEF IInv, TypeOK
<1>3. /\ uartQ' \in Seq(0 .. Query) /\ (Without(uartQ, Segs) => Without(uartQ', Segs))
      /\ Only(uartQ, Segs, offset) => Only(uartQ', Segs, offset)
  BY <1>1, <1>2, HeadFacts
<1>4. TypeOK'
  BY <1>1, <1>3 DEF IInv, TypeOK, upgradeState, dispatchVars, poolVars, history, bounds
<1> QED
  BY <1>1, <1>3, <1>4
  DEF IInv, OneUpgrade, StatusInv, MailboxInv, upgradeState, dispatchVars, poolVars, history

\* A report arrives while an upgrade is under way, and is noted when it may be over.
LEMMA ReportStep == IInv /\ Report => IInv'
<1> SUFFICES ASSUME IInv, Report PROVE IInv'
  OBVIOUS
<1> USE NumberFacts, BoundsAssumption
<1>1. CASE ReportArrives
  <2>1. /\ UNCHANGED <<upgradeState, dispatchVars, poolVars, uartQ, told, crossed, mixed, garbled, ops, faults>>
        /\ reports' \in 0 .. MaxReports /\ reader' = "finish" /\ held' = FALSE
    BY <1>1 DEF ReportArrives, IInv, TypeOK
  <2>2. TypeOK'
    <3>1. reader' \in {"read", "finish", "dead"} /\ held' \in BOOLEAN
      BY <2>1
    <3> QED
      BY <2>1, <3>1 DEF IInv, TypeOK, upgradeState, dispatchVars, poolVars
  <2>3. OneUpgrade' /\ MailboxInv'
    BY <2>1 DEF IInv, OneUpgrade, MailboxInv, upgradeState, dispatchVars, poolVars
  <2>4. StatusInv'
    BY <2>1 DEF IInv, StatusInv, upgradeState, poolVars
  <2> QED
    BY <2>2, <2>3, <2>4 DEF IInv
<1>2. CASE UpgradeFinished
  <2>1. /\ UNCHANGED <<upgrade_result, upgrading, dispatchVars, poolVars, uartQ, crossed, held, garbled, bounds>>
        /\ status' = "Finished" /\ reader = "finish" /\ reader' = "read"
        /\ told' = (told \/ ~held) /\ told' \in BOOLEAN /\ mixed' = TRUE
    BY <1>2 DEF UpgradeFinished, IInv, TypeOK
  <2>2. result' \in Results
    <3>1. result' = [ok |-> TRUE, segment |-> 0, of |-> Query]
      BY <1>2 DEF UpgradeFinished, Post
    <3>2. 0 \in 0 .. FILE_CHECK_ERROR /\ Query \in 0 .. Query
      OBVIOUS
    <3> QED
      BY <3>1, <3>2 DEF Results
  <2>3. TypeOK'
    BY <2>1, <2>2 DEF IInv, TypeOK, dispatchVars, poolVars, bounds
  <2> QED
    BY <2>1, <2>3 DEF IInv, OneUpgrade, StatusInv, MailboxInv, dispatchVars, poolVars
<1> QED
  BY <1>1, <1>2 DEF Report

----------------------------------------------------------------------------
(* The theorems. *)

\* The inductive invariant holds of every behaviour.
THEOREM Invariance == Spec => []IInv
<1>1. Init => IInv
  <2> SUFFICES ASSUME Init PROVE IInv
    OBVIOUS
  <2> USE NumberFacts, BoundsAssumption
  <2>1. uartQ \in Seq(0 .. Query) /\ Without(uartQ, Segs)
    BY DEF Init, Without
  <2>2. /\ status = "Idle" /\ upgrade_result = "Success" /\ result = None
        /\ dispatch = "recv" /\ flag = "Module" /\ pool = "idle" /\ reader = "read"
    BY DEF Init
  <2>3. /\ segments \in 0 .. MaxSegments /\ offset \in 0 .. MaxSegments - 1
        /\ wait_count \in 0 .. WaitRounds - 1
        /\ ops \in 0 .. MaxOps /\ faults \in 0 .. MaxFaults /\ reports \in 0 .. MaxReports
    BY DEF Init
  <2>4. upgrading = FALSE /\ told = FALSE /\ crossed = FALSE /\ held = FALSE /\ mixed = FALSE /\ garbled = FALSE
    BY DEF Init
  <2>5. TypeOK
    BY <2>1, <2>2, <2>3, <2>4 DEF TypeOK
  <2> QED
    BY <2>1, <2>2, <2>4, <2>5 DEF IInv, OneUpgrade, MailboxInv, StatusInv
<1>2. ASSUME IInv, UNCHANGED vars
      PROVE  IInv'
  <2>1. TypeOK'
    BY <1>2 DEF IInv, TypeOK, vars, upgradeState, dispatchVars, poolVars, history, bounds
  <2> QED
    BY <1>2, <2>1
    DEF IInv, OneUpgrade, MailboxInv, StatusInv, vars, upgradeState, dispatchVars, poolVars, history
<1>3. IInv /\ [Next]_vars => IInv'
  BY <1>2, ClientStep, DispatchStep, PoolStep, SegmentStep, QueryStep, ReportStep DEF Next, Uart
<1> QED
  BY <1>1, <1>3, PTL DEF Spec

\* The upgrade's state keeps its types: in particular the offset stays within the file, and
\* the rounds of the wait within their number.
THEOREM TypeCorrect == Spec => []TypeOK
<1>1. IInv => TypeOK
  BY DEF IInv
<1> QED
  BY <1>1, Invariance, PTL

\* There is one upgrade at a time, and the flag that refuses another one is set as long as
\* it lasts and no longer.
THEOREM OneAtATime == Spec => []OneUpgrade
<1>1. IInv => OneUpgrade
  BY DEF IInv
<1> QED
  BY <1>1, Invariance, PTL

\* What the dispatcher finds in the mailbox is the answer to the segment it sent last, unless
\* a report was ever put there.
THEOREM CurrentAnswer == Spec => []AnswerIsCurrent
<1>1. IInv => AnswerIsCurrent
  BY DEF IInv, MailboxInv, AnswerIsCurrent
<1> QED
  BY <1>1, Invariance, PTL

\* An upgrade counts as a success only by a report that came since its thread started, or by
\* an older one that the reader was handling at that moment.
THEOREM ReportedSuccess == Spec => SuccessIsReported
<1> DEFINE Earned == upgrading /\ ~upgrading' /\ upgrade_result' = "Success" => told \/ crossed
<1>1. ASSUME IInv, Next
      PROVE  Earned
  <2> SUFFICES ASSUME upgrading, ~upgrading', upgrade_result' = "Success"
               PROVE  told \/ crossed
    OBVIOUS
  <2> USE DEF upgradeState
  <2>1. ~Client /\ ~Uart /\ ~Report
    BY DEF Client, MqttFileUpgrade, Uart, SegmentAnswered, SegmentTimesOut, QueryAnswered, QueryTimesOut,
           Report, ReportArrives, UpgradeFinished
  <2>2. ~SegmentReturns
    BY DEF SegmentReturns, finish_upgrade
  <2>3. CASE PoolStarts
    <3>1. WaitReturns("Upgrading")
      BY <2>3 DEF PoolStarts, StatusAtStart
    <3> QED
      BY <1>1, <3>1, WaitFacts
  <2>4. CASE PoolWakes \/ PoolQueryReturns
    <3>1. pool \in {"wait", "query"} /\ (RoundEnds(status) \/ WaitReturns(status))
      BY <2>4 DEF PoolWakes, PoolQueryReturns
    <3>2. status # "Upgrading"
      BY <1>1, <3>1, WaitFacts DEF IInv, TypeOK
    <3> QED
      BY <1>1, <3>1, <3>2 DEF IInv, StatusInv
  <2>5. CASE PoolTimesOut
    <3>1. pool = "wait" /\ Leave(status)
      BY <2>5 DEF PoolTimesOut
    <3> QED
      BY <1>1, <3>1 DEF Leave, finish_upgrade, IInv, StatusInv
  <2> QED
    BY <1>1, <2>1, <2>2, <2>3, <2>4, <2>5 DEF Next, Pool
<1>2. IInv /\ [Next]_vars => [Earned]_vars
  BY <1>1
<1> QED
  BY <1>2, Invariance, PTL DEF Spec, SuccessIsReported

=============================================================================
