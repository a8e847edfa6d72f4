-------------------------- MODULE UartAgentProofs --------------------------
(***************************************************************************)
(* Proofs about UartAgent for every set of requests and replies and every  *)
(* number of sequence numbers. Type correctness is proved alone; the       *)
(* custody of requests, the content of the slot and the one-outcome        *)
(* property follow from the inductive invariant IInv. On top of it,        *)
(* OwnInv shows whose answer a request gets, and IdleInv that every step   *)
(* is one of RequestService or is not seen by the services.                *)
(***************************************************************************)
EXTENDS UartAgentService, SequenceTheorems, TLAPS

----------------------------------------------------------------------------
(* The inductive invariant. *)

\* A channel holds requests that were sent to it and not taken from it, each once.
QueuedOnce(ch, K) ==
  /\ \A i \in 1 .. Len(ch) : status[ch[i]] = "queued" /\ kind[ch[i]] \in K
  /\ \A i, j \in 1 .. Len(ch) : i # j => ch[i] # ch[j]

\* The request in the slot is a reply that nobody waits for, or the one the agent waits
\* for. (A poisoned lock freezes the slot: the agent that waited is dead.)
SlotInv ==
  req_info # None =>
    \/ kind[req_info] = "confirm" /\ status[req_info] = "confirmed" /\ agent # "wait"
    \/ /\ kind[req_info] \in SerialKinds \ {"confirm"}
       /\ status[req_info] = "written"
       /\ (agent = "wait" /\ cur = req_info) \/ poisoned

\* The map holds written meter readings under their own sequence numbers.
MapInv ==
  \A s \in Seqs : concurrent_req_info[s] # None =>
    /\ kind[concurrent_req_info[s]] = "meter"
    /\ seq[concurrent_req_info[s]] = s
    /\ status[concurrent_req_info[s]] = "written"

\* What the reader has in hand was taken out of the slot or the map and is not done.
HandInv ==
  hand # None =>
    /\ \/ kind[hand] \in Kinds \ {"confirm"} /\ status[hand] = "written"
       \/ kind[hand] = "confirm" /\ status[hand] = "confirmed"
    /\ hand # req_info
    /\ \A s \in Seqs : concurrent_req_info[s] # hand

IInv ==
  /\ TypeOK
  /\ QueuedOnce(uartCh, SerialKinds)
  /\ QueuedOnce(concurrentCh, {"meter"})
  /\ agent = "dead" => poisoned
  /\ agent = "wait" => req_info \in {cur, None}
  /\ SlotInv
  /\ MapInv
  /\ HandInv
  /\ SerialCustody
  /\ ConcurrentCustody

----------------------------------------------------------------------------
(* Facts about the operators of the model. *)

\* A counter taken modulo its number of values stays among them: SEQ and
\* consecutive_timeouts wrap instead of overflowing.
LEMMA WrapsAround ==
  ASSUME NEW m \in Nat \ {0}, NEW a \in 0 .. m - 1
  PROVE  (a + 1) % m \in 0 .. m - 1
  OBVIOUS

\* The identities of requests, sequence numbers and None are told apart.
LEMMA IdFacts == None \notin Ids /\ None \notin Seqs /\ 0 \in Seqs
  BY IdsAssumption, SeqModAssumption DEF Ids, Seqs

\* A new request takes a sequence number and leaves one for the next.
LEMMA NumberFacts ==
  ASSUME TypeOK, NEW r \in Requests, NEW k \in RequestKinds \cup {"meter"}, NewRequest(r, k)
  PROVE  SEQ' \in Seqs /\ seq' \in [Ids -> Seqs]
<1>1. PICK s \in Seqs : seq' = [seq EXCEPT ![r] = s] /\ SEQ' = (s + 1) % SeqMod
  BY DEF NewRequest, NextNumbers
<1>2. SEQ' \in Seqs
  BY <1>1, WrapsAround, SeqModAssumption DEF Seqs
<1>3. seq' \in [Ids -> Seqs]
  BY <1>1 DEF TypeOK
<1> QED
  BY <1>2, <1>3

\* A frame that may arrive is an answer or a report.
LEMMA IncomingFrames == TypeOK => Incoming \subseteq Answers \cup Reports
  BY DEF TypeOK, Incoming, Answers, Reports

----------------------------------------------------------------------------
(* Type correctness. *)

\* Every step of a thread, a service or the module keeps the types.
LEMMA TypeStep == TypeOK /\ [Next]_vars => TypeOK'
<1> SUFFICES ASSUME TypeOK, [Next]_vars PROVE TypeOK'
  OBVIOUS
<1> USE IdFacts
<1>1. ASSUME NEW r \in Requests, NEW k \in RequestKinds, SubmitSerial(r, k)
      PROVE  TypeOK'
  <2>1. SEQ' \in Seqs /\ seq' \in [Ids -> Seqs]
    BY <1>1, NumberFacts DEF SubmitSerial
  <2> QED
    BY <1>1, <2>1 DEF SubmitSerial, NewRequest, TypeOK, Ids, Kinds, SerialKinds, Statuses,
       lockVars, agentVars, readerVars, timerVars
<1>2. ASSUME NEW r \in Requests, SubmitMeter(r)
      PROVE  TypeOK'
  <2>1. SEQ' \in Seqs /\ seq' \in [Ids -> Seqs]
    BY <1>2, NumberFacts DEF SubmitMeter
  <2> QED
    BY <1>2, <2>1 DEF SubmitMeter, NewRequest, TypeOK, Ids, Kinds, Statuses,
       lockVars, agentVars, readerVars, timerVars
<1>3. CASE AgentSend
  <2>1. Head(uartCh) \in Ids /\ Tail(uartCh) \in Seq(Ids)
    BY <1>3, HeadTailProperties DEF AgentSend, TypeOK
  <2> QED
    BY <1>3, <2>1 DEF AgentSend, FillSlot, Write, TypeOK, Statuses, reqVars, readerVars, timerVars
<1>4. CASE AgentAnswered
  BY <1>4, CounterModAssumption DEF AgentAnswered, TypeOK, reqVars, history, lockVars, readerVars, timerVars
<1>5. CASE AgentTimeout
  <2>1. consecutive_timeouts' \in 0 .. CounterMod - 1
    BY <1>5, WrapsAround, CounterModAssumption DEF AgentTimeout, CountTimeout, TypeOK
  <2> QED
    BY <1>5, <2>1 DEF AgentTimeout, CountTimeout, TypeOK, Statuses, Final, reqVars, readerVars, timerVars
<1>6. CASE AgentDies
  BY <1>6 DEF AgentDies, TypeOK, reqVars, history, lockVars, readerVars, timerVars
<1>7. CASE ConcurrentSend
  <2>1. Head(concurrentCh) \in Ids /\ Tail(concurrentCh) \in Seq(Ids)
    BY <1>7, HeadTailProperties DEF ConcurrentSend, TypeOK
  <2> QED
    <3>1. concurrent_req_info' \in [Seqs -> Ids \cup {None}] /\ sent' \subseteq Ids
      BY <1>7, <2>1 DEF ConcurrentSend, File, TypeOK
    <3>2. status' \in [Ids -> Statuses]
      BY <1>7, <2>1 DEF ConcurrentSend, TypeOK, Statuses, Final
    <3> QED
      BY <1>7, <2>1, <3>1, <3>2 DEF ConcurrentSend, TypeOK, reqVars, agentVars, readerVars, timerVars
<1>8. CASE ConcurrentDies
  BY <1>8 DEF ConcurrentDies, TypeOK, reqVars, history, lockVars, agentVars, readerVars, timerVars
<1>9. ASSUME NEW s \in Seqs, TimerFires(s)
      PROVE  TypeOK'
  BY <1>9 DEF TimerFires, TypeOK, reqVars, history, lockVars, agentVars, readerVars
<1>10. CASE ConcurrentTimeout
  BY <1>10 DEF ConcurrentTimeout, Remove, TypeOK, Statuses, Final, reqVars, agentVars, readerVars
<1>11. CASE CallbackPanics
  BY <1>11 DEF CallbackPanics, TypeOK, reqVars, history, agentVars, readerVars
<1>12. ASSUME NEW f \in Incoming, ReadFrame(f)
       PROVE  TypeOK'
  <2>1. f \in Answers \cup Reports /\ f.seq \in Seqs
    BY IncomingFrames DEF Answers, Reports
  <2> QED
    BY <1>12, <2>1 DEF ReadFrame, Remove, TypeOK, reqVars, history, agentVars, timerVars
<1>13. CASE HandleReport
  <2>1. frame.seq \in Seqs
    BY <1>13 DEF HandleReport, TypeOK, Answers, Reports
  <2>2. CASE UNCHANGED <<status, reqVars, uartCh>>
    BY <1>13, <2>2 DEF HandleReport, TypeOK, reqVars, lockVars, agentVars, timerVars
  <2>3. ASSUME NEW n \in Replies, NewReply(n, "confirm"),
               status' = [status EXCEPT ![n] = "queued"]
        PROVE  TypeOK'
    BY <1>13, <2>1, <2>3 DEF HandleReport, NewReply, TypeOK, Ids, Kinds, SerialKinds,
       ReplyKinds, Statuses, lockVars, agentVars, timerVars
  <2> QED
    BY <1>13, <2>2, <2>3 DEF HandleReport
<1>14. CASE HandleAnswer
  <2>1. frame.seq \in Seqs /\ frame.of \in Ids \cup {None}
    BY <1>14 DEF HandleAnswer, TypeOK, Answers, Reports
  <2>2. HandlerOutcomes(hand, frame) \subseteq Statuses
    BY DEF HandlerOutcomes, Statuses, Final
  <2>3. PICK o \in HandlerOutcomes(hand, frame) :
          /\ answeredBy' = [answeredBy EXCEPT ![hand] = frame.of]
          /\ reader' = IF o = "panicked" THEN "dead" ELSE "read"
          /\ \/ \E n \in Replies :
                  /\ status' = [status EXCEPT ![n] = "queued", ![hand] = o]
                  /\ NewReply(n, "forward")
             \/ /\ status' = [status EXCEPT ![hand] = o]
                /\ UNCHANGED <<reqVars, uartCh>>
    BY <1>14 DEF HandleAnswer
  <2>4. CASE status' = [status EXCEPT ![hand] = o] /\ UNCHANGED <<reqVars, uartCh>>
    BY <1>14, <2>1, <2>2, <2>3, <2>4
    DEF HandleAnswer, TypeOK, reqVars, lockVars, agentVars, timerVars
  <2>5. ASSUME NEW n \in Replies, NewReply(n, "forward"),
               status' = [status EXCEPT ![n] = "queued", ![hand] = o]
        PROVE  TypeOK'
    <3>1. n \in Ids /\ hand \in Ids /\ "forward" \in Kinds /\ "queued" \in Statuses
      BY <1>14 DEF HandleAnswer, TypeOK, Ids, Kinds, SerialKinds, ReplyKinds, Statuses
    <3>2. status' \in [Ids -> Statuses]
      BY <2>2, <2>5, <3>1 DEF TypeOK
    <3>3. SEQ' \in Seqs /\ kind' \in [Ids -> Kinds \cup {None}] /\ seq' \in [Ids -> Seqs]
          /\ uartCh' \in Seq(Ids)
      BY <2>1, <2>5, <3>1 DEF NewReply, TypeOK
    <3> QED
      BY <1>14, <2>1, <2>3, <3>2, <3>3
      DEF HandleAnswer, TypeOK, lockVars, agentVars, timerVars
  <2> QED
    BY <2>3, <2>4, <2>5
<1>15. CASE ReaderStops
  BY <1>15 DEF ReaderStops, TypeOK, reqVars, history, lockVars, agentVars, timerVars
<1>16. CASE TimerBlocks
  BY <1>16 DEF TimerBlocks, TypeOK, reqVars, history, lockVars, agentVars, readerVars
<1>17. CASE UNCHANGED vars
  BY <1>17 DEF vars, TypeOK, reqVars, history, lockVars, agentVars, readerVars, timerVars
<1> QED
  BY <1>1, <1>2, <1>3, <1>4, <1>5, <1>6, <1>7, <1>8, <1>9, <1>10, <1>11, <1>12, <1>13,
     <1>14, <1>15, <1>16, <1>17
  DEF Next, Submit, AgentThread, ConcurrentThread, TimerThread, ReaderThread

\* The initial state has the types.
LEMMA InitTypeOK == Init => TypeOK
<1> SUFFICES ASSUME Init PROVE TypeOK
  OBVIOUS
<1>1. uartCh \in Seq(Ids) /\ concurrentCh \in Seq(Ids)
  BY DEF Init
<1>2. consecutive_timeouts \in 0 .. CounterMod - 1
  BY CounterModAssumption DEF Init
<1>3. poisoned \in BOOLEAN
  BY DEF Init
<1> QED
  BY <1>1, <1>2, <1>3, IdFacts DEF Init, TypeOK, Statuses

\* Every variable keeps its type, and the reader holds a frame exactly while it handles it.
THEOREM TypeCorrect == Spec => []TypeOK
<1>1. Init => TypeOK
  BY InitTypeOK
<1>2. TypeOK /\ [Next]_vars => TypeOK'
  BY TypeStep
<1> QED
  BY <1>1, <1>2, PTL DEF Spec

----------------------------------------------------------------------------
(* The inductive step, one lemma for each group of threads. *)

\* Both channels are kept by a step that leaves queued requests queued.
LEMMA QueuesKept ==
  ASSUME TypeOK, QueuedOnce(uartCh, SerialKinds), QueuedOnce(concurrentCh, {"meter"}),
         UNCHANGED <<uartCh, concurrentCh, kind>>,
         \A r \in Ids : status[r] = "queued" => status'[r] = "queued"
  PROVE  QueuedOnce(uartCh, SerialKinds)' /\ QueuedOnce(concurrentCh, {"meter"})'
<1>1. \A i \in 1 .. Len(uartCh) : uartCh[i] \in Ids
  BY DEF TypeOK
<1>2. \A i \in 1 .. Len(concurrentCh) : concurrentCh[i] \in Ids
  BY DEF TypeOK
<1> QED
  BY <1>1, <1>2 DEF QueuedOnce

\* A service sends a request: its identity is unused, so nothing else refers to it.
LEMMA SubmitStep == IInv /\ Submit /\ TypeOK' => IInv'
<1> SUFFICES ASSUME IInv, Submit, TypeOK' PROVE IInv'
  OBVIOUS
<1> USE IdFacts
<1>1. PICK r \in Requests, k \in RequestKinds \cup {"meter"} :
        /\ NewRequest(r, k)
        /\ IF k = "meter" THEN concurrentCh' = Append(concurrentCh, r) /\ uartCh' = uartCh
                          ELSE uartCh' = Append(uartCh, r) /\ concurrentCh' = concurrentCh
        /\ UNCHANGED <<answeredBy, lockVars, sent, agentVars, conc, readerVars, timerVars>>
  BY DEF Submit, SubmitSerial, SubmitMeter, RequestKinds
<1>2. r \in Ids /\ status[r] = "unused" /\ status'[r] = "queued" /\ kind'[r] = k
  BY <1>1 DEF NewRequest, Ids, IInv, TypeOK
<1>3. \A q \in Ids : q # r => status'[q] = status[q] /\ kind'[q] = kind[q] /\ seq'[q] = seq[q]
  BY <1>1 DEF NewRequest, IInv, TypeOK
<1>4. /\ QueuedOnce(uartCh, SerialKinds)'
      /\ QueuedOnce(concurrentCh, {"meter"})'
  <2>1. /\ \A i \in 1 .. Len(uartCh) : uartCh[i] \in Ids /\ uartCh[i] # r
        /\ \A i \in 1 .. Len(concurrentCh) : concurrentCh[i] \in Ids /\ concurrentCh[i] # r
    BY <1>2 DEF IInv, TypeOK, QueuedOnce
  <2>2. uartCh \in Seq(Ids) /\ concurrentCh \in Seq(Ids)
    BY DEF IInv, TypeOK
  <2>3. CASE k = "meter"
    <3>1. QueuedOnce(uartCh, SerialKinds)'
      BY <1>1, <1>2, <1>3, <2>1, <2>3 DEF IInv, QueuedOnce
    <3>2. /\ Len(concurrentCh') = Len(concurrentCh) + 1 /\ Len(concurrentCh) \in Nat
          /\ \A i \in 1 .. Len(concurrentCh) : concurrentCh'[i] = concurrentCh[i]
          /\ concurrentCh'[Len(concurrentCh) + 1] = r
      BY <1>1, <1>2, <2>2, <2>3, AppendProperties
    <3>3. QueuedOnce(concurrentCh, {"meter"})'
      BY <1>2, <1>3, <2>1, <2>3, <3>2 DEF IInv, QueuedOnce
    <3> QED
      BY <3>1, <3>3
  <2>4. CASE k # "meter"
    <3>1. QueuedOnce(concurrentCh, {"meter"})'
      BY <1>1, <1>2, <1>3, <2>1, <2>4 DEF IInv, QueuedOnce
    <3>2. /\ Len(uartCh') = Len(uartCh) + 1 /\ Len(uartCh) \in Nat
          /\ \A i \in 1 .. Len(uartCh) : uartCh'[i] = uartCh[i]
          /\ uartCh'[Len(uartCh) + 1] = r
      BY <1>1, <1>2, <2>2, <2>4, AppendProperties
    <3>3. QueuedOnce(uartCh, SerialKinds)'
      BY <1>2, <1>3, <2>1, <2>4, <3>2 DEF IInv, QueuedOnce, SerialKinds
    <3> QED
      BY <3>1, <3>3
  <2> QED
    BY <2>3, <2>4
<1>5. SlotInv' /\ HandInv'
  BY <1>1, <1>2, <1>3 DEF IInv, TypeOK, SlotInv, HandInv, lockVars, agentVars, readerVars
<1>6. MapInv'
  BY <1>1, <1>2, <1>3 DEF IInv, TypeOK, MapInv, lockVars
<1>7. SerialCustody' /\ ConcurrentCustody'
  BY <1>1, <1>2, <1>3
  DEF IInv, TypeOK, SerialCustody, ConcurrentCustody, lockVars, agentVars, readerVars
<1> QED
  BY <1>1, <1>4, <1>5, <1>6, <1>7 DEF IInv, lockVars, agentVars

\* The agent takes a message, is answered, gives up, or dies of the poisoned lock.
LEMMA AgentStep == IInv /\ AgentThread /\ TypeOK' => IInv'
<1> SUFFICES ASSUME IInv, AgentThread, TypeOK' PROVE IInv'
  OBVIOUS
<1> USE IdFacts
<1>1. CASE AgentSend
  <2> DEFINE r == Head(uartCh)
  <2>1. /\ r \in Ids /\ r = uartCh[1] /\ 1 \in 1 .. Len(uartCh)
        /\ uartCh' = Tail(uartCh) /\ Len(uartCh') = Len(uartCh) - 1
        /\ Len(uartCh) \in Nat \ {0}
        /\ \A i \in 1 .. Len(uartCh') : uartCh'[i] = uartCh[i + 1] /\ i + 1 \in 1 .. Len(uartCh)
    BY <1>1, HeadTailProperties DEF AgentSend, IInv, TypeOK
  <2>2. status[r] = "queued" /\ kind[r] \in SerialKinds
    BY <2>1 DEF IInv, QueuedOnce
  <2>3. /\ req_info' = r /\ ~poisoned /\ agent = "recv"
        /\ \/ kind[r] = "confirm" /\ status'[r] = "confirmed" /\ agent' = "recv"
           \/ kind[r] # "confirm" /\ status'[r] = "written" /\ agent' = "wait" /\ cur' = r
        /\ \A q \in Ids : q # r => status'[q] = status[q]
        /\ UNCHANGED <<kind, seq, concurrentCh, concurrent_req_info, poisoned, reader, hand>>
    BY <1>1, <2>1 DEF AgentSend, FillSlot, IsResponse, IInv, TypeOK, reqVars, readerVars
  <2>4. QueuedOnce(uartCh, SerialKinds)'
    <3>1. \A i \in 1 .. Len(uartCh') : uartCh'[i] \in Ids /\ uartCh'[i] # r
      BY <2>1 DEF IInv, TypeOK, QueuedOnce
    <3> HIDE DEF r
    <3> QED
      BY <2>1, <2>3, <3>1 DEF IInv, QueuedOnce
  <2>5. QueuedOnce(concurrentCh, {"meter"})'
    <3> HIDE DEF r
    <3>1. concurrentCh \in Seq(Ids) /\ QueuedOnce(concurrentCh, {"meter"})
      BY DEF IInv, TypeOK
    <3>2. \A i \in 1 .. Len(concurrentCh) : concurrentCh[i] \in Ids /\ concurrentCh[i] # r
      BY <2>1, <2>2, <3>1 DEF QueuedOnce, SerialKinds, RequestKinds, ReplyKinds
    <3> QED
      BY <2>3, <3>1, <3>2 DEF QueuedOnce
  <2> HIDE DEF r
  <2>6. SlotInv'
    BY <2>1, <2>2, <2>3 DEF SlotInv
  <2>7. MapInv'
    BY <2>1, <2>2, <2>3 DEF IInv, TypeOK, MapInv
  <2>8. HandInv'
    BY <2>1, <2>2, <2>3 DEF IInv, TypeOK, HandInv
  <2>9. SerialCustody'
    BY <2>1, <2>2, <2>3 DEF IInv, TypeOK, SerialCustody, SlotInv
  <2>10. ConcurrentCustody'
    BY <2>1, <2>2, <2>3 DEF IInv, TypeOK, ConcurrentCustody, SerialKinds, RequestKinds, ReplyKinds
  <2> QED
    BY <2>3, <2>4, <2>5, <2>6, <2>7, <2>8, <2>9, <2>10 DEF IInv
<1>2. CASE AgentAnswered
  <2>1. QueuedOnce(uartCh, SerialKinds)' /\ QueuedOnce(concurrentCh, {"meter"})'
    BY <1>2 DEF AgentAnswered, IInv, QueuedOnce, reqVars, history
  <2> QED
    BY <1>2, <2>1 DEF AgentAnswered, IInv, SlotInv, MapInv, HandInv, SerialCustody,
       ConcurrentCustody, reqVars, history, lockVars, readerVars
<1>3. CASE AgentTimeout
  <2>1. /\ req_info \in Ids /\ status[req_info] = "written" /\ req_info' = None
        /\ kind[req_info] \in SerialKinds \ {"confirm"} /\ ~poisoned /\ agent' = "recv"
        /\ status'[req_info] = "timeout"
        /\ \A q \in Ids : q # req_info => status'[q] = status[q]
        /\ UNCHANGED <<kind, seq, uartCh, concurrentCh, concurrent_req_info, poisoned, reader, hand>>
    BY <1>3 DEF AgentTimeout, CountTimeout, IInv, TypeOK, SlotInv, reqVars, readerVars
  <2>2. QueuedOnce(uartCh, SerialKinds)' /\ QueuedOnce(concurrentCh, {"meter"})'
    BY <2>1, QueuesKept DEF IInv
  <2>3. SlotInv' /\ HandInv'
    BY <2>1 DEF IInv, TypeOK, SlotInv, HandInv
  <2>4. MapInv'
    BY <2>1 DEF IInv, TypeOK, MapInv, SerialKinds, RequestKinds, ReplyKinds
  <2>5. SerialCustody' /\ ConcurrentCustody'
    BY <1>3, <2>1 DEF IInv, TypeOK, SerialCustody, ConcurrentCustody
  <2> QED
    BY <2>1, <2>2, <2>3, <2>4, <2>5 DEF IInv
<1>4. CASE AgentDies
  <2>1. QueuedOnce(uartCh, SerialKinds)' /\ QueuedOnce(concurrentCh, {"meter"})'
    BY <1>4 DEF AgentDies, IInv, QueuedOnce, reqVars, history
  <2> QED
    BY <1>4, <2>1 DEF AgentDies, IInv, SlotInv, MapInv, HandInv, SerialCustody,
       ConcurrentCustody, reqVars, history, lockVars, readerVars
<1> QED
  BY <1>1, <1>2, <1>3, <1>4 DEF AgentThread

\* The concurrent thread files a request, which may replace one of the same number, or
\* loses it to a write error.
LEMMA ConcurrentStep == IInv /\ ConcurrentThread /\ TypeOK' => IInv'
<1> SUFFICES ASSUME IInv, ConcurrentThread, TypeOK' PROVE IInv'
  OBVIOUS
<1> USE IdFacts
<1>1. CASE ConcurrentSend
  <2> DEFINE r == Head(concurrentCh)
             old == concurrent_req_info[seq[r]]
  <2>1. /\ r \in Ids /\ r = concurrentCh[1] /\ 1 \in 1 .. Len(concurrentCh)
        /\ concurrentCh' = Tail(concurrentCh) /\ Len(concurrentCh') = Len(concurrentCh) - 1
        /\ Len(concurrentCh) \in Nat \ {0}
        /\ \A i \in 1 .. Len(concurrentCh') :
              concurrentCh'[i] = concurrentCh[i + 1] /\ i + 1 \in 1 .. Len(concurrentCh)
    BY <1>1, HeadTailProperties DEF ConcurrentSend, IInv, TypeOK
  <2>2. status[r] = "queued" /\ kind[r] = "meter" /\ seq[r] \in Seqs
    BY <2>1 DEF IInv, QueuedOnce, TypeOK
  <2>3. old # None => old \in Ids /\ kind[old] = "meter" /\ status[old] = "written" /\ seq[old] = seq[r]
    BY <2>1, <2>2 DEF IInv, MapInv, TypeOK
  <2>4. /\ \/ /\ concurrent_req_info' = [concurrent_req_info EXCEPT ![seq[r]] = r]
              /\ status'[r] = "written"
              /\ \A q \in Ids \ {r} : status'[q] = IF q = old THEN "lost" ELSE status[q]
           \/ /\ concurrent_req_info' = concurrent_req_info
              /\ status'[r] = "lost"
              /\ \A q \in Ids \ {r} : status'[q] = status[q]
        /\ UNCHANGED <<kind, seq, uartCh, req_info, poisoned, agent, cur, reader, hand>>
    BY <1>1, <2>1 DEF ConcurrentSend, File, IInv, TypeOK, reqVars, agentVars, readerVars
  <2>5. \A q \in Ids : q # r /\ q # old => status'[q] = status[q]
    BY <2>4
  <2>6. status'[r] # "queued" /\ (old # None => status'[old] \in {"written", "lost"})
    BY <2>1, <2>2, <2>3, <2>4
  <2> HIDE DEF r, old
  <2>7. QueuedOnce(concurrentCh, {"meter"})'
    <3>1. concurrentCh \in Seq(Ids) /\ QueuedOnce(concurrentCh, {"meter"})
      BY DEF IInv, TypeOK
    <3>2. \A i \in 1 .. Len(concurrentCh') :
            concurrentCh'[i] \in Ids /\ concurrentCh'[i] # r /\ concurrentCh'[i] # old
      BY <2>1, <2>3, <3>1 DEF QueuedOnce
    <3> QED
      BY <2>1, <2>4, <2>5, <3>1, <3>2 DEF QueuedOnce
  <2>8. QueuedOnce(uartCh, SerialKinds)'
    <3>1. \A i \in 1 .. Len(uartCh) : uartCh[i] \in Ids /\ kind[uartCh[i]] \in SerialKinds
      BY DEF IInv, TypeOK, QueuedOnce
    <3>2. \A q \in Ids : kind[q] \in SerialKinds => q # r /\ q # old
      BY <2>2, <2>3 DEF SerialKinds, RequestKinds, ReplyKinds
    <3> QED
      BY <2>4, <2>5, <3>1, <3>2 DEF IInv, QueuedOnce
  <2>9. SlotInv'
    BY <2>1, <2>2, <2>3, <2>4, <2>5 DEF IInv, TypeOK, SlotInv, SerialKinds, RequestKinds, ReplyKinds
  <2>10. MapInv'
    BY <2>1, <2>2, <2>3, <2>4 DEF IInv, TypeOK, MapInv, old
  <2>11. HandInv'
    <3>1. hand # None => hand # r /\ hand # old
      BY <2>1, <2>2, <2>3 DEF IInv, TypeOK, HandInv, old
    <3> QED
      BY <2>1, <2>2, <2>4, <2>5, <3>1 DEF IInv, TypeOK, HandInv
  <2>12. SerialCustody'
    BY <2>1, <2>2, <2>3, <2>4, <2>5 DEF IInv, TypeOK, SerialCustody
  <2>13. ConcurrentCustody'
    BY <2>1, <2>2, <2>3, <2>4, <2>5 DEF IInv, TypeOK, ConcurrentCustody, old
  <2> QED
    BY <2>4, <2>7, <2>8, <2>9, <2>10, <2>11, <2>12, <2>13 DEF IInv
<1>2. CASE ConcurrentDies
  <2>1. QueuedOnce(uartCh, SerialKinds)' /\ QueuedOnce(concurrentCh, {"meter"})'
    BY <1>2 DEF ConcurrentDies, IInv, QueuedOnce, reqVars, history
  <2> QED
    BY <1>2, <2>1 DEF ConcurrentDies, IInv, SlotInv, MapInv, HandInv, SerialCustody,
       ConcurrentCustody, reqVars, history, lockVars, agentVars, readerVars
<1> QED
  BY <1>1, <1>2 DEF ConcurrentThread

\* The timer starts a callback, which takes the entry of its number or panics.
LEMMA TimerStep == IInv /\ TimerThread /\ TypeOK' => IInv'
<1> SUFFICES ASSUME IInv, TimerThread, TypeOK' PROVE IInv'
  OBVIOUS
<1> USE IdFacts
<1>1. CASE (\E s \in Seqs : TimerFires(s)) \/ CallbackPanics
  <2>1. /\ UNCHANGED <<kind, seq, status, uartCh, concurrentCh, req_info, concurrent_req_info,
                      agent, cur, reader, hand>>
        /\ poisoned' = poisoned \/ poisoned' = TRUE
    BY <1>1 DEF TimerFires, CallbackPanics, reqVars, history, lockVars, agentVars, readerVars
  <2>2. QueuedOnce(uartCh, SerialKinds)' /\ QueuedOnce(concurrentCh, {"meter"})'
    BY <2>1 DEF IInv, QueuedOnce
  <2> QED
    BY <2>1, <2>2 DEF IInv, SlotInv, MapInv, HandInv, SerialCustody, ConcurrentCustody
<1>2. CASE ConcurrentTimeout
  <2> DEFINE r == concurrent_req_info[firing]
  <2>1. /\ r \in Ids /\ kind[r] = "meter" /\ status[r] = "written" /\ seq[r] = firing
        /\ firing \in Seqs
        /\ concurrent_req_info' = [concurrent_req_info EXCEPT ![firing] = None]
        /\ status'[r] = "timeout"
        /\ \A q \in Ids : q # r => status'[q] = status[q]
        /\ UNCHANGED <<kind, seq, uartCh, concurrentCh, req_info, poisoned, agent, cur, reader, hand>>
    BY <1>2 DEF ConcurrentTimeout, Remove, IInv, MapInv, TypeOK, reqVars, agentVars, readerVars
  <2>2. QueuedOnce(uartCh, SerialKinds)' /\ QueuedOnce(concurrentCh, {"meter"})'
    BY <2>1, QueuesKept DEF IInv
  <2>3. SlotInv'
    BY <2>1 DEF IInv, TypeOK, SlotInv, SerialKinds, RequestKinds, ReplyKinds
  <2>4. MapInv'
    BY <2>1 DEF IInv, TypeOK, MapInv
  <2>5. HandInv'
    BY <2>1 DEF IInv, TypeOK, HandInv
  <2>6. SerialCustody' /\ ConcurrentCustody'
    BY <2>1 DEF IInv, TypeOK, SerialCustody, ConcurrentCustody
  <2> QED
    BY <2>1, <2>2, <2>3, <2>4, <2>5, <2>6 DEF IInv
<1> QED
  BY <1>1, <1>2 DEF TimerThread

\* The reader takes the request a frame matches out of the slot or the map, and its handler
\* gives that request its outcome and may send a reply.
LEMMA ReaderStep == IInv /\ ReaderThread /\ TypeOK' => IInv'
<1> SUFFICES ASSUME IInv, ReaderThread, TypeOK' PROVE IInv'
  OBVIOUS
<1> USE IdFacts
<1>1. ASSUME NEW f \in Incoming, ReadFrame(f)
      PROVE  IInv'
  <2>1. f.seq \in Seqs
    BY IncomingFrames DEF IInv, Answers, Reports
  <2>2. /\ hand = None /\ reader = "read" /\ reader' = "handle" /\ ~poisoned
        /\ UNCHANGED <<kind, seq, status, uartCh, concurrentCh, poisoned, agent, cur>>
    BY <1>1 DEF ReadFrame, Remove, IInv, TypeOK, reqVars, history, agentVars
  <2>3. QueuedOnce(uartCh, SerialKinds)' /\ QueuedOnce(concurrentCh, {"meter"})'
    BY <2>2 DEF IInv, QueuedOnce
  <2>4. CASE hand' = None /\ UNCHANGED <<req_info, concurrent_req_info>>
    BY <2>2, <2>3, <2>4 DEF IInv, SlotInv, MapInv, HandInv, SerialCustody, ConcurrentCustody
  <2>5. CASE /\ MatchesConcurrent(f) /\ hand' = concurrent_req_info[f.seq]
             /\ concurrent_req_info' = [concurrent_req_info EXCEPT ![f.seq] = None]
             /\ UNCHANGED req_info
    <3>1. /\ hand' \in Ids /\ kind[hand'] = "meter" /\ status[hand'] = "written"
          /\ seq[hand'] = f.seq
      BY <2>1, <2>5 DEF MatchesConcurrent, IInv, MapInv, TypeOK
    <3>2. SlotInv' /\ MapInv'
      BY <2>1, <2>2, <2>5 DEF IInv, TypeOK, SlotInv, MapInv
    <3>3. HandInv'
      BY <2>1, <2>2, <2>5, <3>1
      DEF IInv, TypeOK, HandInv, MapInv, SlotInv, Kinds, SerialKinds, RequestKinds, ReplyKinds
    <3>4. SerialCustody'
      BY <2>2, <2>5, <3>1 DEF IInv, TypeOK, SerialCustody
    <3>5. ConcurrentCustody'
      BY <2>1, <2>2, <2>5, <3>1 DEF IInv, TypeOK, ConcurrentCustody
    <3> QED
      BY <2>2, <2>3, <2>5, <3>2, <3>3, <3>4, <3>5 DEF IInv
  <2>6. CASE MatchesSerial(f) /\ hand' = req_info /\ req_info' = None /\ UNCHANGED concurrent_req_info
    <3>1. req_info \in Ids /\ kind[req_info] # "meter"
      BY <2>6 DEF MatchesSerial, IInv, TypeOK, SlotInv, SerialKinds, RequestKinds, ReplyKinds
    <3>2. SlotInv' /\ MapInv'
      BY <2>2, <2>6 DEF IInv, SlotInv, MapInv
    <3>3. HandInv'
      BY <2>2, <2>6, <3>1 DEF IInv, TypeOK, HandInv, MapInv, SlotInv, Kinds
    <3>4. SerialCustody' /\ ConcurrentCustody'
      BY <2>2, <2>6, <3>1 DEF IInv, TypeOK, SerialCustody, ConcurrentCustody
    <3> QED
      BY <2>2, <2>3, <2>6, <3>2, <3>3, <3>4 DEF IInv
  <2> QED
    BY <1>1, <2>4, <2>5, <2>6 DEF ReadFrame, Remove
<1>2. CASE HandleReport \/ HandleAnswer
  <2>1. /\ reader = "handle" /\ reader' # "handle" /\ hand' = None
        /\ UNCHANGED <<concurrentCh, req_info, concurrent_req_info, poisoned, agent, cur>>
    BY <1>2 DEF HandleReport, HandleAnswer, lockVars, agentVars
  \* The request in hand gets its outcome; a reply n, if there is one, was unused.
  <2>2. PICK n \in Ids \cup {None} :
          /\ n # None => /\ status[n] = "unused" /\ status'[n] = "queued"
                         /\ kind'[n] \in SerialKinds /\ uartCh' = Append(uartCh, n)
          /\ n = None => uartCh' = uartCh
          /\ hand # None => hand # n /\ status'[hand] \in Final
          /\ \A q \in Ids : q # n => kind'[q] = kind[q] /\ seq'[q] = seq[q]
          /\ \A q \in Ids : q # n /\ q # hand => status'[q] = status[q]
    <3>1. CASE HandleReport
      <4>1. CASE UNCHANGED <<status, reqVars, uartCh>>
        BY <3>1, <4>1 DEF HandleReport, reqVars
      <4>2. ASSUME NEW n \in Replies, status[n] = "unused", NewReply(n, "confirm"),
                   status' = [status EXCEPT ![n] = "queued"]
            PROVE  \E m \in Ids \cup {None} :
                     /\ m # None => /\ status[m] = "unused" /\ status'[m] = "queued"
                                    /\ kind'[m] \in SerialKinds /\ uartCh' = Append(uartCh, m)
                     /\ m = None => uartCh' = uartCh
                     /\ hand # None => hand # m /\ status'[hand] \in Final
                     /\ \A q \in Ids : q # m => kind'[q] = kind[q] /\ seq'[q] = seq[q]
                     /\ \A q \in Ids : q # m /\ q # hand => status'[q] = status[q]
        <5>1. n \in Ids
          BY DEF Ids
        <5> QED
          BY <3>1, <4>2, <5>1 DEF HandleReport, NewReply, IInv, TypeOK, SerialKinds, ReplyKinds
      <4> QED
        BY <3>1, <4>1, <4>2 DEF HandleReport
    <3>2. CASE HandleAnswer
      <4>1. PICK o \in HandlerOutcomes(hand, frame) :
              \/ \E m \in Replies :
                   /\ status[m] = "unused"
                   /\ status' = [status EXCEPT ![m] = "queued", ![hand] = o]
                   /\ NewReply(m, "forward")
              \/ /\ status' = [status EXCEPT ![hand] = o]
                 /\ UNCHANGED <<reqVars, uartCh>>
        BY <3>2 DEF HandleAnswer
      <4>2. o \in Final /\ hand \in Ids /\ status[hand] # "unused"
        BY <3>2 DEF HandleAnswer, HandlerOutcomes, Final, IInv, TypeOK, HandInv
      <4>3. CASE status' = [status EXCEPT ![hand] = o] /\ UNCHANGED <<reqVars, uartCh>>
        BY <4>2, <4>3 DEF reqVars, IInv, TypeOK
      <4>4. ASSUME NEW m \in Replies, status[m] = "unused", NewReply(m, "forward"),
                   status' = [status EXCEPT ![m] = "queued", ![hand] = o]
            PROVE  \E n \in Ids \cup {None} :
                     /\ n # None => /\ status[n] = "unused" /\ status'[n] = "queued"
                                    /\ kind'[n] \in SerialKinds /\ uartCh' = Append(uartCh, n)
                     /\ n = None => uartCh' = uartCh
                     /\ hand # None => hand # n /\ status'[hand] \in Final
                     /\ \A q \in Ids : q # n => kind'[q] = kind[q] /\ seq'[q] = seq[q]
                     /\ \A q \in Ids : q # n /\ q # hand => status'[q] = status[q]
        <5>1. m \in Ids /\ m # hand
          BY <4>2, <4>4 DEF Ids
        <5>2. /\ status'[m] = "queued" /\ status'[hand] = o
              /\ \A q \in Ids : q # m /\ q # hand => status'[q] = status[q]
          BY <4>2, <4>4, <5>1 DEF IInv, TypeOK
        <5> QED
          BY <4>2, <4>4, <5>1, <5>2 DEF NewReply, IInv, TypeOK, SerialKinds, ReplyKinds
      <4> QED
        BY <4>1, <4>3, <4>4
    <3> QED
      BY <1>2, <3>1, <3>2
  <2>3. \A q \in Ids : status[q] \in {"queued", "written", "confirmed"} => q # n
    BY <2>2
  <2>4. hand # None => hand \in Ids /\ status[hand] # "queued"
    BY DEF IInv, TypeOK, HandInv
  <2>5. \A i \in 1 .. Len(uartCh) : uartCh[i] \in Ids /\ uartCh[i] # n /\ uartCh[i] # hand
    BY <2>3, <2>4 DEF IInv, TypeOK, QueuedOnce
  <2>6. QueuedOnce(uartCh, SerialKinds)'
    <3>1. CASE n = None
      BY <2>2, <2>5, <3>1 DEF IInv, QueuedOnce
    <3>2. CASE n # None
      <4>1. /\ Len(uartCh') = Len(uartCh) + 1 /\ Len(uartCh) \in Nat
            /\ \A i \in 1 .. Len(uartCh) : uartCh'[i] = uartCh[i]
            /\ uartCh'[Len(uartCh) + 1] = n
        <5>1. uartCh \in Seq(Ids) /\ n \in Ids /\ uartCh' = Append(uartCh, n)
          BY <2>2, <3>2 DEF IInv, TypeOK
        <5> QED
          BY <5>1, AppendProperties
      <4> QED
        BY <2>2, <2>5, <3>2, <4>1 DEF IInv, QueuedOnce
    <3> QED
      BY <3>1, <3>2
  <2>7. QueuedOnce(concurrentCh, {"meter"})'
    <3>1. \A i \in 1 .. Len(concurrentCh) :
            concurrentCh[i] \in Ids /\ concurrentCh[i] # n /\ concurrentCh[i] # hand
      BY <2>3, <2>4 DEF IInv, TypeOK, QueuedOnce
    <3> QED
      BY <2>1, <2>2, <3>1 DEF IInv, QueuedOnce
  <2>8. SlotInv'
    <3>1. req_info # None => req_info \in Ids /\ req_info # n /\ req_info # hand
      BY <2>3 DEF IInv, TypeOK, SlotInv, HandInv
    <3> QED
      BY <2>1, <2>2, <3>1 DEF IInv, SlotInv
  <2>9. MapInv'
    <3>1. \A s \in Seqs : concurrent_req_info[s] # None =>
            /\ concurrent_req_info[s] \in Ids /\ concurrent_req_info[s] # n
            /\ concurrent_req_info[s] # hand
      BY <2>3 DEF IInv, TypeOK, MapInv, HandInv
    <3> QED
      BY <2>1, <2>2, <3>1 DEF IInv, MapInv
  <2>10. HandInv'
    BY <2>1 DEF HandInv
  <2>11. SerialCustody' /\ ConcurrentCustody'
    <3>1. \A q \in Ids : status'[q] = "written" =>
            q # n /\ q # hand /\ status[q] = "written" /\ kind'[q] = kind[q] /\ seq'[q] = seq[q]
      BY <2>2 DEF Final
    <3> QED
      BY <2>1, <3>1 DEF IInv, SerialCustody, ConcurrentCustody
  <2> QED
    BY <2>1, <2>6, <2>7, <2>8, <2>9, <2>10, <2>11 DEF IInv
<1>3. CASE ReaderStops
  <2>1. QueuedOnce(uartCh, SerialKinds)' /\ QueuedOnce(concurrentCh, {"meter"})'
    BY <1>3 DEF ReaderStops, IInv, QueuedOnce, reqVars, history
  <2> QED
    BY <1>3, <2>1 DEF ReaderStops, IInv, TypeOK, SlotInv, MapInv, HandInv, SerialCustody,
       ConcurrentCustody, reqVars, history, lockVars, agentVars
<1> QED
  BY <1>1, <1>2, <1>3 DEF ReaderThread

----------------------------------------------------------------------------
(* The theorems. *)

\* The inductive invariant holds in every reachable state.
THEOREM Invariance == Spec => []IInv
<1>1. Init => IInv
  <2> SUFFICES ASSUME Init PROVE IInv
    OBVIOUS
  <2>1. TypeOK
    BY InitTypeOK
  <2>2. QueuedOnce(uartCh, SerialKinds) /\ QueuedOnce(concurrentCh, {"meter"})
    BY DEF Init, QueuedOnce
  <2> QED
    BY <2>1, <2>2 DEF Init, IInv, SlotInv, MapInv, HandInv, SerialCustody, ConcurrentCustody
<1>2. IInv /\ [Next]_vars => IInv'
  <2> SUFFICES ASSUME IInv, [Next]_vars PROVE IInv'
    OBVIOUS
  <2>1. TypeOK'
    BY TypeStep DEF IInv
  <2>2. CASE TimerBlocks \/ UNCHANGED vars
    <3>1. UNCHANGED <<reqVars, history, uartCh, concurrentCh, lockVars, agentVars, readerVars>>
      BY <2>2 DEF TimerBlocks, vars
    <3>2. QueuedOnce(uartCh, SerialKinds)' /\ QueuedOnce(concurrentCh, {"meter"})'
      BY <3>1 DEF IInv, QueuedOnce, reqVars, history
    <3> QED
      BY <2>1, <3>1, <3>2 DEF IInv, SlotInv, MapInv, HandInv, SerialCustody,
         ConcurrentCustody, reqVars, history, lockVars, agentVars, readerVars
  <2> QED
    BY <2>1, <2>2, SubmitStep, AgentStep, ConcurrentStep, TimerStep, ReaderStep DEF Next
<1> QED
  BY <1>1, <1>2, PTL DEF Spec

\* No serial request is forgotten: from the moment it is written until it has an outcome
\* the agent waits for it or the reader handles its answer.
THEOREM SerialCustodyHolds == Spec => []SerialCustody
<1>1. IInv => SerialCustody
  BY DEF IInv
<1> QED
  BY <1>1, Invariance, PTL

\* A written concurrent request has its entry and its guard, or the reader handles its answer.
THEOREM ConcurrentCustodyHolds == Spec => []ConcurrentCustody
<1>1. IInv => ConcurrentCustody
  BY DEF IInv
<1> QED
  BY <1>1, Invariance, PTL

\* The waiting agent finds its own request in the slot, or nothing.
THEOREM SlotIsCurrentHolds == Spec => []SlotIsCurrent
<1>1. IInv => SlotIsCurrent
  BY DEF IInv, SlotIsCurrent
<1> QED
  BY <1>1, Invariance, PTL

\* A request has one outcome: a step gives an outcome only to a request that waits in a
\* channel, in the slot, in the map or in the reader's hand, and none of those has one.
THEOREM OneOutcomeHolds == Spec => OneOutcome
<1> DEFINE Keeps == \A r \in Ids : status[r] \in Final => status'[r] = status[r]
<1>1. IInv /\ [Next]_vars => [Keeps]_vars
  <2> SUFFICES ASSUME IInv, Next PROVE Keeps
    OBVIOUS
  <2> USE IdFacts
  <2>1. \A r \in Ids : status[r] \in Final =>
          status[r] \notin {"unused", "queued", "written", "confirmed"}
    BY DEF Final
  <2>2. CASE Submit
    BY <2>1, <2>2 DEF Submit, SubmitSerial, SubmitMeter, NewRequest, IInv, TypeOK
  <2>3. CASE AgentThread
    <3>1. CASE AgentSend
      <4>1. Head(uartCh) = uartCh[1] /\ 1 \in 1 .. Len(uartCh)
        BY <3>1, HeadTailProperties DEF AgentSend, IInv, TypeOK
      <4>2. status[Head(uartCh)] = "queued"
        BY <4>1 DEF IInv, QueuedOnce
      <4> QED
        BY <2>1, <3>1, <4>2 DEF AgentSend, FillSlot, IInv, TypeOK
    <3>2. CASE AgentTimeout
      BY <2>1, <3>2 DEF AgentTimeout, CountTimeout, IInv, TypeOK, SlotInv
    <3>3. CASE AgentAnswered \/ AgentDies
      BY <3>3 DEF AgentAnswered, AgentDies, history
    <3> QED
      BY <2>3, <3>1, <3>2, <3>3 DEF AgentThread
  <2>4. CASE ConcurrentThread
    <3>1. CASE ConcurrentSend
      <4>1. /\ Head(concurrentCh) = concurrentCh[1] /\ 1 \in 1 .. Len(concurrentCh)
            /\ Head(concurrentCh) \in Ids
        BY <3>1, HeadTailProperties DEF ConcurrentSend, IInv, TypeOK
      <4>2. status[Head(concurrentCh)] = "queued" /\ seq[Head(concurrentCh)] \in Seqs
        BY <4>1 DEF IInv, QueuedOnce, TypeOK
      <4>3. \A q \in Ids : q = concurrent_req_info[seq[Head(concurrentCh)]] => status[q] = "written"
        BY <4>2 DEF IInv, MapInv
      <4> QED
        BY <2>1, <3>1, <4>1, <4>2, <4>3 DEF ConcurrentSend, File, IInv, TypeOK
    <3>2. CASE ConcurrentDies
      BY <3>2 DEF ConcurrentDies, history
    <3> QED
      BY <2>4, <3>1, <3>2 DEF ConcurrentThread
  <2>5. CASE TimerThread
    <3>1. CASE ConcurrentTimeout
      BY <2>1, <3>1 DEF ConcurrentTimeout, Remove, IInv, TypeOK, MapInv
    <3>2. CASE (\E s \in Seqs : TimerFires(s)) \/ CallbackPanics
      BY <3>2 DEF TimerFires, CallbackPanics, history
    <3> QED
      BY <2>5, <3>1, <3>2 DEF TimerThread
  <2>6. CASE ReaderThread
    <3>1. CASE (\E f \in Incoming : ReadFrame(f)) \/ ReaderStops
      BY <3>1 DEF ReadFrame, Remove, ReaderStops, history
    <3>2. CASE HandleReport
      BY <2>1, <3>2 DEF HandleReport, IInv, TypeOK
    <3>3. CASE HandleAnswer
      <4>1. hand \in Ids /\ status[hand] \in {"written", "confirmed"}
        BY <3>3 DEF HandleAnswer, IInv, TypeOK, HandInv
      <4> QED
        BY <2>1, <3>3, <4>1 DEF HandleAnswer, IInv, TypeOK
    <3> QED
      BY <2>6, <3>1, <3>2, <3>3 DEF ReaderThread
  <2>7. CASE TimerBlocks
    BY <2>7 DEF TimerBlocks, history
  <2> QED
    BY <2>2, <2>3, <2>4, <2>5, <2>6, <2>7 DEF Next
<1> QED
  BY <1>1, Invariance, PTL DEF Spec, OneOutcome

----------------------------------------------------------------------------
(* Answers belong to their requests. *)

\* A request in use is of a service's kind. A reply in use is a confirmation, or shares the
\* number of the monitorNodeDelay request whose 14H-F3 read it answers.
KindInv ==
  /\ \A r \in Requests : status[r] # "unused" => kind[r] \in RequestKinds \cup {"meter"}
  /\ \A n \in Replies : status[n] # "unused" =>
       \/ kind[n] = "confirm"
       \/ /\ kind[n] = "forward"
          /\ \E q \in Requests : status[q] # "unused" /\ kind[q] = "delay" /\ seq[q] = seq[n]

\* Only requests in use were written to the line.
SentInv == \A r \in sent : status[r] # "unused"

\* The frame being handled has the number of the request it was matched with, and, unless it
\* is a report, that of the request it answers.
FrameInv ==
  reader = "handle" =>
    /\ hand # None => frame.seq = seq[hand]
    /\ ~IsReport(frame) =>
         /\ frame.of \in Ids
         /\ status[frame.of] # "unused"
         /\ kind[frame.of] # "confirm"
         /\ seq[frame.of] = frame.seq

OwnInv == KindInv /\ SentInv /\ FrameInv /\ AnswersAreOwn

\* What a request in use is, and its number, never change.
UsedAreKept ==
  \A q \in Ids : status[q] # "unused" =>
    status'[q] # "unused" /\ kind'[q] = kind[q] /\ seq'[q] = seq[q]

\* Whether a number is a request's own can only change for the worse, so that an answer,
\* once given, stays the right one.
LEMMA AnswersKept ==
  ASSUME TypeOK, AnswersAreOwn, UsedAreKept, NEW x,
         \A q \in Ids : status'[q] = "answered" /\ q # x =>
           status[q] = "answered" /\ answeredBy'[q] = answeredBy[q]
  PROVE  \A r \in Ids :
           (r # x /\ status'[r] = "answered" /\ kind'[r] \in {"init", "mqtt", "meter"}
              /\ NumberIsOwn(r)')
             => answeredBy'[r] = r
<1> SUFFICES ASSUME NEW r \in Ids, r # x, status'[r] = "answered",
                    kind'[r] \in {"init", "mqtt", "meter"}, NumberIsOwn(r)'
             PROVE  answeredBy'[r] = r
  OBVIOUS
<1>1. status[r] = "answered" /\ answeredBy'[r] = answeredBy[r]
  OBVIOUS
<1>2. kind'[r] = kind[r] /\ seq'[r] = seq[r]
  BY <1>1 DEF UsedAreKept
<1>3. NumberIsOwn(r)
  BY <1>2 DEF NumberIsOwn, UsedAreKept, Ids
<1> QED
  BY <1>1, <1>2, <1>3 DEF AnswersAreOwn

\* A step that makes no request, answers none and leaves the reader alone keeps OwnInv.
LEMMA OwnKept ==
  ASSUME TypeOK, OwnInv, UNCHANGED <<kind, seq, answeredBy, readerVars>>,
         \A q \in Ids : status[q] # "unused" <=> status'[q] # "unused",
         \A q \in Ids : status'[q] = "answered" => status[q] = "answered",
         \A q \in sent' : q \in sent \/ status[q] # "unused",
         sent' \subseteq Ids
  PROVE  OwnInv'
<1>1. KindInv'
  BY DEF OwnInv, KindInv, Ids
<1>2. SentInv'
  BY DEF OwnInv, SentInv
<1>3. FrameInv'
  BY DEF OwnInv, FrameInv, IsReport, readerVars
<1>4. UsedAreKept
  BY DEF UsedAreKept
<1>5. AnswersAreOwn'
  <2>1. \A q \in Ids : status'[q] = "answered" =>
          status[q] = "answered" /\ answeredBy'[q] = answeredBy[q]
    OBVIOUS
  <2>2. None \notin Ids /\ AnswersAreOwn
    BY IdFacts DEF OwnInv
  <2>3. \A r \in Ids :
          (r # None /\ status'[r] = "answered" /\ kind'[r] \in {"init", "mqtt", "meter"}
             /\ NumberIsOwn(r)')
            => answeredBy'[r] = r
    BY <1>4, <2>1, <2>2, AnswersKept
  <2> QED
    BY <2>2, <2>3 DEF AnswersAreOwn
<1> QED
  BY <1>1, <1>2, <1>3, <1>5 DEF OwnInv

\* A new request takes an identity that nothing refers to.
LEMMA OwnSubmit == IInv /\ OwnInv /\ Submit => OwnInv'
<1> SUFFICES ASSUME IInv, OwnInv, Submit PROVE OwnInv'
  OBVIOUS
<1>1. PICK r \in Requests, k \in RequestKinds \cup {"meter"} :
        NewRequest(r, k) /\ UNCHANGED <<answeredBy, sent, readerVars>>
  BY DEF Submit, SubmitSerial, SubmitMeter
<1>2. r \in Ids /\ status[r] = "unused" /\ status'[r] = "queued" /\ kind'[r] = k
  BY <1>1 DEF NewRequest, Ids, IInv, TypeOK
<1>3. \A q \in Ids : q # r => status'[q] = status[q] /\ kind'[q] = kind[q] /\ seq'[q] = seq[q]
  BY <1>1 DEF NewRequest, IInv, TypeOK
<1>4. UsedAreKept
  BY <1>2, <1>3 DEF UsedAreKept
<1>5. KindInv'
  <2>1. \A q \in Requests : status'[q] # "unused" => kind'[q] \in RequestKinds \cup {"meter"}
    BY <1>2, <1>3 DEF OwnInv, KindInv, Ids
  <2>2. ASSUME NEW n \in Replies, status'[n] # "unused"
        PROVE  \/ kind'[n] = "confirm"
               \/ /\ kind'[n] = "forward"
                  /\ \E q \in Requests : status'[q] # "unused" /\ kind'[q] = "delay"
                                         /\ seq'[q] = seq'[n]
    <3>1. n \in Ids /\ n # r
      BY IdsAssumption DEF Ids
    <3>2. status[n] # "unused" /\ kind'[n] = kind[n] /\ seq'[n] = seq[n]
      BY <1>3, <2>2, <3>1
    <3> QED
      BY <1>4, <3>2 DEF OwnInv, KindInv, UsedAreKept, Ids
  <2> QED
    BY <2>1, <2>2 DEF KindInv
<1>6. SentInv'
  BY <1>1, <1>4 DEF OwnInv, SentInv, UsedAreKept, IInv, TypeOK
<1>7. FrameInv'
  <2>1. hand # None => hand \in Ids /\ status[hand] # "unused"
    BY DEF IInv, TypeOK, HandInv
  <2> QED
    BY <1>1, <1>4, <2>1 DEF OwnInv, FrameInv, IsReport, UsedAreKept, readerVars
<1>8. AnswersAreOwn'
  <2>1. \A q \in Ids : status'[q] = "answered" =>
          status[q] = "answered" /\ answeredBy'[q] = answeredBy[q]
    BY <1>1, <1>2, <1>3
  <2>2. None \notin Ids /\ AnswersAreOwn /\ TypeOK
    BY IdFacts DEF OwnInv, IInv
  <2>3. \A q \in Ids :
          (q # None /\ status'[q] = "answered" /\ kind'[q] \in {"init", "mqtt", "meter"}
             /\ NumberIsOwn(q)')
            => answeredBy'[q] = q
    BY <1>4, <2>1, <2>2, AnswersKept
  <2> QED
    BY <2>2, <2>3 DEF AnswersAreOwn
<1> QED
  BY <1>5, <1>6, <1>7, <1>8 DEF OwnInv

\* The agent, the concurrent thread and the timer answer no request.
LEMMA OwnThreads ==
  IInv /\ OwnInv /\ (AgentThread \/ ConcurrentThread \/ TimerThread) => OwnInv'
<1> SUFFICES ASSUME IInv, OwnInv, AgentThread \/ ConcurrentThread \/ TimerThread PROVE OwnInv'
  OBVIOUS
<1>1. TypeOK /\ TypeOK'
  <2>1. [Next]_vars
    BY DEF Next
  <2> QED
    BY <2>1, TypeStep DEF IInv
<1>2. sent' \subseteq Ids
  BY <1>1 DEF TypeOK
<1>3. UNCHANGED <<kind, seq, answeredBy, readerVars>>
  BY DEF AgentThread, AgentSend, AgentAnswered, AgentTimeout, AgentDies, ConcurrentThread,
     ConcurrentSend, ConcurrentDies, TimerThread, TimerFires, ConcurrentTimeout,
     CallbackPanics, reqVars, history
<1>4. /\ \A q \in Ids : status[q] # "unused" <=> status'[q] # "unused"
      /\ \A q \in Ids : status'[q] = "answered" => status[q] = "answered"
      /\ \A q \in sent' : q \in sent \/ status[q] # "unused"
  <2>1. CASE AgentSend
    <3> DEFINE r == Head(uartCh)
    <3>1. r \in Ids /\ r = uartCh[1] /\ 1 \in 1 .. Len(uartCh)
      BY <2>1, HeadTailProperties DEF AgentSend, IInv, TypeOK
    <3>2. status[r] = "queued"
      BY <3>1 DEF IInv, QueuedOnce
    <3>3. /\ sent' \subseteq sent \cup {r}
          /\ \/ status' = [status EXCEPT ![r] = "confirmed"]
             \/ status' = [status EXCEPT ![r] = "written"]
      BY <2>1 DEF AgentSend, Write
    <3> HIDE DEF r
    <3> QED
      BY <3>1, <3>2, <3>3 DEF IInv, TypeOK
  <2>2. CASE AgentTimeout
    BY <2>2, IdFacts DEF AgentTimeout, IInv, TypeOK, SlotInv
  <2>3. CASE ConcurrentSend
    <3> DEFINE r == Head(concurrentCh)
               old == concurrent_req_info[seq[r]]
    <3>1. r \in Ids /\ r = concurrentCh[1] /\ 1 \in 1 .. Len(concurrentCh)
      BY <2>3, HeadTailProperties DEF ConcurrentSend, IInv, TypeOK
    <3>2. status[r] = "queued" /\ seq[r] \in Seqs
      BY <3>1 DEF IInv, QueuedOnce, TypeOK
    <3>3. \A q \in Ids : q = old => status[q] = "written"
      BY <3>2, IdFacts DEF IInv, MapInv
    <3>4. /\ sent' \subseteq sent \cup {r}
          /\ \/ status' = [q \in Ids |-> IF q = r THEN "written"
                                         ELSE IF q = old THEN "lost" ELSE status[q]]
             \/ status' = [status EXCEPT ![r] = "lost"]
      BY <2>3 DEF ConcurrentSend
    <3> HIDE DEF r, old
    <3> QED
      BY <3>1, <3>2, <3>3, <3>4 DEF IInv, TypeOK
  <2>4. CASE ConcurrentTimeout
    <3>1. firing \in Seqs /\ concurrent_req_info[firing] \in Ids
          /\ status[concurrent_req_info[firing]] = "written"
      BY <2>4 DEF ConcurrentTimeout, IInv, TypeOK, MapInv
    <3> QED
      BY <2>4, <3>1 DEF ConcurrentTimeout, IInv, TypeOK
  <2>5. CASE UNCHANGED <<history, sent>>
    BY <2>5 DEF history
  <2>6. AgentAnswered \/ AgentDies \/ ConcurrentDies \/ CallbackPanics
          \/ (\E s \in Seqs : TimerFires(s)) => UNCHANGED <<history, sent>>
    BY DEF AgentAnswered, AgentDies, ConcurrentDies, CallbackPanics, TimerFires
  <2> QED
    BY <2>1, <2>2, <2>3, <2>4, <2>5, <2>6 DEF AgentThread, ConcurrentThread, TimerThread
<1> QED
  BY <1>1, <1>2, <1>3, <1>4, OwnKept

\* The reader hands over only a frame of the request's number, and replies to a 14H-F3 read
\* with its number, which is that of the monitorNodeDelay request.
LEMMA OwnReader == IInv /\ OwnInv /\ ReaderThread => OwnInv'
<1> SUFFICES ASSUME IInv, OwnInv, ReaderThread PROVE OwnInv'
  OBVIOUS
<1> USE IdFacts
<1>0. TypeOK
  BY DEF IInv
<1>1. ASSUME NEW f \in Incoming, ReadFrame(f) PROVE OwnInv'
  <2>1. f \in Answers \cup Reports /\ f.seq \in Seqs
    BY <1>0, IncomingFrames DEF Answers, Reports
  <2>2. UNCHANGED <<kind, seq, status, answeredBy, sent>>
    BY <1>1 DEF ReadFrame, reqVars, history
  <2>3. hand' # None => f.seq = seq[hand']
    <3>1. CASE IsNewReport(f) /\ hand' = None
      BY <3>1
    <3>2. CASE MatchesConcurrent(f) /\ hand' = concurrent_req_info[f.seq]
      BY <2>1, <3>2 DEF MatchesConcurrent, IInv, MapInv
    <3>3. CASE MatchesSerial(f) /\ hand' = req_info
      BY <3>3 DEF MatchesSerial
    <3> QED
      BY <1>1, <3>1, <3>2, <3>3 DEF ReadFrame
  <2>4. ~IsReport(f) => /\ f.of \in Ids /\ status[f.of] # "unused"
                        /\ kind[f.of] # "confirm" /\ seq[f.of] = f.seq
    <3>1. CASE f \in Reports
      BY <3>1 DEF Reports, IsReport
    <3>2. CASE f \notin Reports
      <4>1. PICK w \in {"answer", "badAnswer"}, r \in {q \in sent : kind[q] # "confirm"} :
              f = [what |-> w, seq |-> seq[r], of |-> r]
        BY <3>2 DEF Incoming
      <4>2. r \in Ids /\ status[r] # "unused"
        BY <4>1 DEF OwnInv, SentInv, IInv, TypeOK
      <4> QED
        BY <4>1, <4>2
    <3> QED
      BY <3>1, <3>2
  <2>5. FrameInv'
    <3>1. frame' = f
      BY <1>1 DEF ReadFrame
    <3> QED
      BY <2>2, <2>3, <2>4, <3>1 DEF FrameInv, IsReport
  <2>6. KindInv' /\ SentInv' /\ AnswersAreOwn'
    BY <2>2 DEF OwnInv, KindInv, SentInv, AnswersAreOwn, NumberIsOwn
  <2> QED
    BY <2>5, <2>6 DEF OwnInv
<1>2. CASE HandleReport \/ HandleAnswer
  \* The request in hand, if any, gets its outcome; n is the reply, if there is one.
  <2>1. PICK n \in Replies \cup {None} :
          /\ n # None => /\ status[n] = "unused" /\ status'[n] = "queued"
                         /\ kind'[n] \in ReplyKinds /\ seq'[n] = frame.seq
          /\ n # None /\ kind'[n] = "forward" => hand # None /\ kind[hand] = "delay"
          /\ hand # None => hand # n /\ status'[hand] \in HandlerOutcomes(hand, frame)
          /\ \A q \in Ids : q # n => kind'[q] = kind[q] /\ seq'[q] = seq[q]
          /\ \A q \in Ids : q # n /\ q # hand =>
               status'[q] = status[q] /\ answeredBy'[q] = answeredBy[q]
    <3> DEFINE Reply(n) ==
          /\ n # None => /\ status[n] = "unused" /\ status'[n] = "queued"
                         /\ kind'[n] \in ReplyKinds /\ seq'[n] = frame.seq
          /\ n # None /\ kind'[n] = "forward" => hand # None /\ kind[hand] = "delay"
          /\ hand # None => hand # n /\ status'[hand] \in HandlerOutcomes(hand, frame)
          /\ \A q \in Ids : q # n => kind'[q] = kind[q] /\ seq'[q] = seq[q]
          /\ \A q \in Ids : q # n /\ q # hand =>
               status'[q] = status[q] /\ answeredBy'[q] = answeredBy[q]
    <3>1. CASE HandleReport
      <4>1. CASE UNCHANGED <<status, reqVars, uartCh>>
        <5>1. Reply(None)
          BY <3>1, <4>1 DEF HandleReport, reqVars
        <5> QED
          BY <5>1
      <4>2. ASSUME NEW n \in Replies, status[n] = "unused", NewReply(n, "confirm"),
                   status' = [status EXCEPT ![n] = "queued"]
            PROVE  Reply(n)
        <5>1. n \in Ids
          BY DEF Ids
        <5> QED
          BY <3>1, <4>2, <5>1 DEF HandleReport, NewReply, IInv, TypeOK, ReplyKinds
      <4> QED
        BY <3>1, <4>1, <4>2 DEF HandleReport
    <3>2. CASE HandleAnswer
      <4>1. PICK o \in HandlerOutcomes(hand, frame) :
              \/ \E m \in Replies :
                   /\ kind[hand] = "delay"
                   /\ status[m] = "unused"
                   /\ status' = [status EXCEPT ![m] = "queued", ![hand] = o]
                   /\ NewReply(m, "forward")
              \/ /\ status' = [status EXCEPT ![hand] = o]
                 /\ UNCHANGED <<reqVars, uartCh>>
        BY <3>2 DEF HandleAnswer
      <4>2. /\ hand \in Ids /\ hand # None /\ status[hand] # "unused"
            /\ answeredBy' = [answeredBy EXCEPT ![hand] = frame.of]
        BY <3>2 DEF HandleAnswer, IInv, TypeOK, HandInv
      <4>3. CASE status' = [status EXCEPT ![hand] = o] /\ UNCHANGED <<reqVars, uartCh>>
        <5>1. Reply(None)
          BY <4>1, <4>2, <4>3 DEF reqVars, IInv, TypeOK
        <5> QED
          BY <5>1
      <4>4. ASSUME NEW m \in Replies, kind[hand] = "delay", status[m] = "unused",
                   NewReply(m, "forward"),
                   status' = [status EXCEPT ![m] = "queued", ![hand] = o]
            PROVE  Reply(m)
        <5>1. m \in Ids /\ m # hand
          BY <4>2, <4>4 DEF Ids
        <5>2. /\ status'[m] = "queued" /\ status'[hand] = o
              /\ \A q \in Ids : q # m /\ q # hand =>
                   status'[q] = status[q] /\ answeredBy'[q] = answeredBy[q]
          BY <4>2, <4>4, <5>1 DEF IInv, TypeOK
        <5>3. /\ kind'[m] = "forward" /\ seq'[m] = frame.seq
              /\ \A q \in Ids : q # m => kind'[q] = kind[q] /\ seq'[q] = seq[q]
          BY <4>4, <5>1 DEF NewReply, IInv, TypeOK
        <5> QED
          BY <4>1, <4>2, <4>4, <5>1, <5>2, <5>3 DEF ReplyKinds
      <4> QED
        BY <4>1, <4>3, <4>4
    <3> QED
      BY <1>2, <3>1, <3>2
  <2>2. /\ reader = "handle" /\ reader' # "handle" /\ sent' = sent
        /\ hand # None => answeredBy' = [answeredBy EXCEPT ![hand] = frame.of]
    BY <1>2 DEF HandleReport, HandleAnswer
  <2>3. hand # None => /\ hand \in Ids /\ status[hand] # "unused"
                       /\ status'[hand] # "unused"
    BY <2>1 DEF IInv, TypeOK, HandInv, HandlerOutcomes
  <2>4. UsedAreKept
    BY <2>1, <2>3 DEF UsedAreKept
  <2>5. FrameInv'
    BY <2>2 DEF FrameInv
  <2>6. SentInv'
    BY <1>0, <2>2, <2>4 DEF OwnInv, SentInv, UsedAreKept, TypeOK
  <2>7. KindInv'
    <3>1. ASSUME NEW q \in Requests, status'[q] # "unused"
          PROVE  kind'[q] \in RequestKinds \cup {"meter"}
      <4>1. q \in Ids /\ q # n
        BY IdsAssumption DEF Ids
      <4>2. status[q] # "unused"
        BY <2>1, <2>3, <3>1, <4>1
      <4> QED
        BY <2>1, <4>1, <4>2 DEF OwnInv, KindInv
    <3>2. ASSUME NEW m \in Replies, status'[m] # "unused"
          PROVE  \/ kind'[m] = "confirm"
                 \/ /\ kind'[m] = "forward"
                    /\ \E q \in Requests : status'[q] # "unused" /\ kind'[q] = "delay"
                                           /\ seq'[q] = seq'[m]
      <4>0. m \in Ids
        BY DEF Ids
      <4>1. CASE m = n /\ kind'[n] = "confirm"
        BY <4>1
      <4>2. CASE m = n /\ kind'[n] = "forward"
        <5>1. hand \in Ids /\ kind[hand] = "delay" /\ seq[hand] = frame.seq
          BY <2>1, <2>2, <2>3, <4>0, <4>2 DEF OwnInv, FrameInv
        <5>2. hand \in Requests
          BY <2>1, <2>3, <4>0, <4>2, <5>1 DEF OwnInv, KindInv, Ids
        <5>3. status'[hand] # "unused" /\ kind'[hand] = "delay" /\ seq'[hand] = seq'[m]
          BY <2>1, <2>3, <2>4, <4>0, <4>2, <5>1 DEF UsedAreKept
        <5> QED
          BY <4>2, <5>2, <5>3
      <4>3. CASE m # n
        <5>1. status[m] # "unused" /\ kind'[m] = kind[m] /\ seq'[m] = seq[m]
          BY <2>1, <2>3, <3>2, <4>0, <4>3
        <5> QED
          BY <2>4, <5>1 DEF OwnInv, KindInv, UsedAreKept, Ids
      <4> QED
        BY <2>1, <4>0, <4>1, <4>2, <4>3 DEF ReplyKinds
    <3> QED
      BY <3>1, <3>2 DEF KindInv
  <2>8. ASSUME NEW h \in Ids, h = hand, status'[h] = "answered",
               kind'[h] \in {"init", "mqtt", "meter"}, NumberIsOwn(h)'
        PROVE  answeredBy'[h] = h
    <3>1. hand # None /\ kind'[hand] = kind[hand] /\ seq'[hand] = seq[hand]
      BY <2>3, <2>4, <2>8 DEF UsedAreKept
    <3>2. ~IsReport(frame)
      BY <2>1, <2>8, <3>1 DEF HandlerOutcomes
    <3> DEFINE a == frame.of
    <3>3. a \in Ids /\ status[a] # "unused" /\ kind[a] # "confirm" /\ seq[a] = seq[hand]
      BY <2>2, <3>1, <3>2 DEF OwnInv, FrameInv
    <3>4. answeredBy'[h] = a
      BY <1>0, <2>2, <2>8, <3>1 DEF TypeOK
    <3> HIDE DEF a
    <3>5. \A q \in Requests : status[q] # "unused" /\ seq[q] = seq[hand] => q = hand
      BY <2>4, <2>8, <3>1 DEF NumberIsOwn, UsedAreKept, Ids
    <3>6. a \in Requests
      <4> SUFFICES ASSUME a \in Replies PROVE FALSE
        BY <3>3 DEF Ids
      <4>1. PICK q \in Requests : status[q] # "unused" /\ kind[q] = "delay" /\ seq[q] = seq[a]
        BY <3>3 DEF OwnInv, KindInv
      <4>2. q = hand
        BY <3>3, <3>5, <4>1
      <4> QED
        BY <2>8, <3>1, <4>1, <4>2
    <3> QED
      BY <2>8, <3>3, <3>4, <3>5, <3>6
  <2>9. AnswersAreOwn'
    <3>1. \A q \in Ids : status'[q] = "answered" /\ q # hand =>
            status[q] = "answered" /\ answeredBy'[q] = answeredBy[q]
      BY <2>1
    <3>2. \A r \in Ids :
            (r # hand /\ status'[r] = "answered" /\ kind'[r] \in {"init", "mqtt", "meter"}
               /\ NumberIsOwn(r)')
              => answeredBy'[r] = r
      <4>1. AnswersAreOwn
        BY DEF OwnInv
      <4> QED
        BY <1>0, <2>4, <3>1, <4>1, AnswersKept
    <3> QED
      BY <2>8, <3>2 DEF AnswersAreOwn
  <2> QED
    BY <2>5, <2>6, <2>7, <2>9 DEF OwnInv
<1>3. CASE ReaderStops
  <2>1. UNCHANGED <<kind, seq, status, answeredBy, sent>> /\ reader' # "handle"
    BY <1>3 DEF ReaderStops, reqVars, history
  <2>2. KindInv' /\ SentInv' /\ AnswersAreOwn'
    BY <2>1 DEF OwnInv, KindInv, SentInv, AnswersAreOwn, NumberIsOwn
  <2> QED
    BY <2>1, <2>2 DEF OwnInv, FrameInv
<1> QED
  BY <1>1, <1>2, <1>3 DEF ReaderThread

\* A request whose number no other request has is answered by the module's answer to it,
\* never by a late or a second one to another, nor by the answer to a reply.
THEOREM AnswersAreOwnHolds == Spec => []AnswersAreOwn
<1>1. Init => OwnInv
  BY DEF Init, OwnInv, KindInv, SentInv, FrameInv, AnswersAreOwn, Ids
<1>2. IInv /\ OwnInv /\ [Next]_vars => OwnInv'
  <2> SUFFICES ASSUME IInv, OwnInv, [Next]_vars PROVE OwnInv'
    OBVIOUS
  <2>1. CASE TimerBlocks \/ UNCHANGED vars
    <3>1. UNCHANGED <<reqVars, history, sent, readerVars>>
      BY <2>1 DEF TimerBlocks, vars
    <3> QED
      BY <3>1 DEF OwnInv, KindInv, SentInv, FrameInv, IsReport, AnswersAreOwn, NumberIsOwn,
         reqVars, history, readerVars
  <2> QED
    BY <2>1, OwnSubmit, OwnThreads, OwnReader DEF Next
<1>3. OwnInv => AnswersAreOwn
  BY DEF OwnInv
<1> QED
  BY <1>1, <1>2, <1>3, Invariance, PTL DEF Spec

----------------------------------------------------------------------------
(* The agent implements the safety part of RequestService. *)

\* A thread that takes the next message waits for nothing, and an identity that is not in
\* use has no kind yet.
IdleInv ==
  /\ agent = "recv" => cur = None
  /\ \A r \in Ids : status[r] = "unused" => kind[r] = None

\* A step gives outcome o to request x and changes no other outcome.
LEMMA OutcomeEnds ==
  ASSUME NEW x \in Ids, NEW o, OutcomeOf(x)' = o,
         \A q \in Ids : q # x => OutcomeOf(q)' = OutcomeOf(q)
  PROVE  Service!EndAll({x}, o)
  BY DEF OutcomesSoFar, Service!EndAll

\* A step changes no outcome.
LEMMA OutcomesKept ==
  ASSUME \A r \in Ids : OutcomeOf(r)' = OutcomeOf(r)
  PROVE  OutcomesSoFar' = OutcomesSoFar
  BY DEF OutcomesSoFar

\* A request whose kind and status stay has the same outcome.
LEMMA OutcomeStays ==
  ASSUME NEW r \in Ids, kind'[r] = kind[r], status'[r] = status[r]
  PROVE  OutcomeOf(r)' = OutcomeOf(r)
  BY DEF OutcomeOf

\* An identity that is not in use is unused for the service as well.
LEMMA UnusedIsUnused ==
  ASSUME IInv, IdleInv, NEW r \in Ids, status[r] = "unused"
  PROVE  Service!Unused(r) /\ OutcomeOf(r) = None
<1> USE IdFacts
<1>1. \A i \in DOMAIN uartCh : uartCh[i] # r
  BY DEF IInv, TypeOK, QueuedOnce
<1>2. \A i \in DOMAIN concurrentCh : concurrentCh[i] # r
  BY DEF IInv, TypeOK, QueuedOnce
<1>3. r \notin OpenMeters
  BY DEF OpenMeters, IInv, MapInv
<1>4. r # OpenSlot
  BY DEF OpenSlot, IInv, SlotInv
<1>5. r # InHand
  BY DEF InHand, IInv, HandInv
<1>6. OutcomeOf(r) = None
  BY NoneAssumption DEF OutcomeOf, IdleInv, Kinds, SerialKinds, ReplyKinds, Final
<1>7. OutcomesSoFar[r] = None
  BY <1>6 DEF OutcomesSoFar
<1> QED
  BY <1>1, <1>2, <1>3, <1>4, <1>5, <1>6, <1>7 DEF Service!Unused, Service!Queued

\* Only the timer's thread and what blocks it change whether it is stalled.
LEMMA StallKept ==
  Submit \/ AgentThread \/ ConcurrentThread \/ ReaderThread \/ UNCHANGED vars => timer' = timer
  BY DEF Submit, SubmitSerial, SubmitMeter, AgentThread, AgentSend, AgentAnswered, AgentTimeout,
     AgentDies, ConcurrentThread, ConcurrentSend, ConcurrentDies, ReaderThread, ReadFrame,
     HandleReport, HandleAnswer, ReaderStops, timerVars, vars

\* A service sends a request.
LEMMA ServiceSubmit ==
  ASSUME IInv, IdleInv, Submit
  PROVE  Service!Next
<1>0. timer' = timer
  BY StallKept
<1> USE <1>0
<1>1. PICK r \in Requests, k \in RequestKinds \cup {"meter"} :
        /\ NewRequest(r, k)
        /\ \/ concurrentCh' = Append(concurrentCh, r) /\ uartCh' = uartCh
           \/ uartCh' = Append(uartCh, r) /\ concurrentCh' = concurrentCh
        /\ UNCHANGED <<answeredBy, lockVars, sent, agentVars, conc, readerVars, timerVars>>
  BY DEF Submit, SubmitSerial, SubmitMeter
<1>2. r \in Ids /\ status[r] = "unused" /\ status'[r] = "queued" /\ kind'[r] = k
  BY <1>1 DEF NewRequest, Ids, IInv, TypeOK
<1>3. \A q \in Ids : q # r => status'[q] = status[q] /\ kind'[q] = kind[q]
  BY <1>1 DEF NewRequest, IInv, TypeOK
<1>4. Service!Unused(r) /\ OutcomeOf(r) = None
  BY <1>2, UnusedIsUnused
<1>5. OutcomeOf(r)' = None
  BY <1>2 DEF OutcomeOf, Final
<1>6. OutcomesSoFar' = OutcomesSoFar
  BY <1>3, <1>4, <1>5, OutcomeStays, OutcomesKept
<1>7. UNCHANGED <<OpenSlot, OpenMeters, poisoned>>
  BY <1>1 DEF OpenSlot, OpenMeters, lockVars, agentVars
<1>8. InHand' = InHand
  <2>1. hand # None => hand \in Ids /\ hand # r
    BY <1>2 DEF IInv, TypeOK, HandInv
  <2> QED
    BY <1>1, <1>3, <2>1 DEF InHand, IsResponse, readerVars
<1>9. Service!Submit(r)
  BY <1>1, <1>4, <1>6, <1>7, <1>8 DEF Service!Submit
<1> QED
  BY <1>2, <1>9 DEF Service!Next

\* The agent starts the next message or confirms it, gives up, or does what nobody sees.
LEMMA ServiceAgent ==
  ASSUME IInv, IdleInv, AgentThread
  PROVE  Service!Next \/ UNCHANGED Service!vars
<1>0. timer' = timer
  BY StallKept
<1> USE <1>0, IdFacts
<1>1. CASE AgentSend
  <2>1. PICK r \in Ids : r = Head(uartCh) /\ r = uartCh[1] /\ 1 \in 1 .. Len(uartCh)
    BY <1>1, HeadTailProperties DEF AgentSend, IInv, TypeOK
  <2>2. status[r] = "queued" /\ kind[r] \in SerialKinds
    BY <2>1 DEF IInv, QueuedOnce
  <2>3. OpenSlot = None
    BY <1>1 DEF AgentSend, OpenSlot, IdleInv
  <2>4. /\ ~poisoned /\ uartCh # << >> /\ uartCh' = Tail(uartCh) /\ req_info' = r
        /\ UNCHANGED <<kind, concurrentCh, concurrent_req_info, poisoned, hand>>
    BY <1>1, <2>1 DEF AgentSend, FillSlot, reqVars, readerVars
  <2>5. UNCHANGED <<OpenMeters, InHand>>
    BY <2>4 DEF OpenMeters, InHand, IsResponse
  <2>6. CASE kind[r] = "confirm"
    <3>1. cur' = None /\ status' = [status EXCEPT ![r] = "confirmed"]
      BY <1>1, <2>1, <2>6 DEF AgentSend, IsResponse, IdleInv
    <3>2. OpenSlot' = None
      BY <3>1 DEF OpenSlot
    <3>3. OutcomeOf(r)' = "confirmed"
      BY <2>1, <2>4, <2>6, <3>1 DEF OutcomeOf, IInv, TypeOK
    <3>4. \A q \in Ids : q # r => status'[q] = status[q] /\ kind'[q] = kind[q]
      BY <2>4, <3>1 DEF IInv, TypeOK
    <3>5. Service!EndAll({r}, "confirmed")
      <4>1. \A q \in Ids : q # r => OutcomeOf(q)' = OutcomeOf(q)
        BY <3>4, OutcomeStays
      <4> QED
        BY <3>3, <4>1, OutcomeEnds
    <3>6. Service!Confirm
      BY <2>1, <2>3, <2>4, <2>5, <3>2, <3>5 DEF Service!Confirm
    <3> QED
      BY <3>6 DEF Service!Next, Service!SerialStep
  <2>7. CASE kind[r] # "confirm"
    <3>1. cur' = r /\ status' = [status EXCEPT ![r] = "written"]
      BY <1>1, <2>1, <2>7 DEF AgentSend, IsResponse
    <3>2. OpenSlot' = r
      BY <2>1, <2>4, <3>1 DEF OpenSlot
    <3>3. OutcomeOf(r)' = OutcomeOf(r)
      BY <2>1, <2>2, <2>4, <2>7, <3>1 DEF OutcomeOf, Final, IInv, TypeOK
    <3>4. \A q \in Ids : q # r => status'[q] = status[q] /\ kind'[q] = kind[q]
      BY <2>4, <3>1 DEF IInv, TypeOK
    <3>5. OutcomesSoFar' = OutcomesSoFar
      BY <3>3, <3>4, OutcomeStays, OutcomesKept
    <3>6. Service!Start
      BY <2>1, <2>3, <2>4, <2>5, <3>2, <3>5 DEF Service!Start
    <3> QED
      BY <3>6 DEF Service!Next, Service!SerialStep
  <2> QED
    BY <2>6, <2>7
<1>2. CASE AgentTimeout
  <2>1. PICK r \in Ids : /\ r = req_info /\ r = OpenSlot /\ r # None
                         /\ kind[r] # "confirm" /\ ~poisoned
    BY <1>2 DEF AgentTimeout, OpenSlot, IInv, TypeOK, SlotInv
  <2>2. /\ status' = [status EXCEPT ![r] = "timeout"] /\ req_info' = None
        /\ UNCHANGED <<kind, uartCh, concurrentCh, concurrent_req_info, poisoned, hand>>
    BY <1>2, <2>1 DEF AgentTimeout, reqVars, readerVars
  <2>3. OpenSlot' = None /\ UNCHANGED <<OpenMeters, InHand>>
    BY <2>2 DEF OpenSlot, OpenMeters, InHand, IsResponse
  <2>4. OutcomeOf(r)' = "timeout"
    BY <2>1, <2>2 DEF OutcomeOf, Final, IInv, TypeOK
  <2>5. \A q \in Ids : q # r => status'[q] = status[q] /\ kind'[q] = kind[q]
    BY <2>2 DEF IInv, TypeOK
  <2>6. Service!EndAll({r}, "timeout")
    <3>1. \A q \in Ids : q # r => OutcomeOf(q)' = OutcomeOf(q)
      BY <2>5, OutcomeStays
    <3> QED
      BY <2>4, <3>1, OutcomeEnds
  <2>7. Service!TimeOut
    BY <2>1, <2>2, <2>3, <2>6 DEF Service!TimeOut
  <2> QED
    BY <2>7 DEF Service!Next, Service!SerialStep
<1>3. CASE AgentAnswered \/ AgentDies
  <2>1. /\ UNCHANGED <<kind, status, uartCh, concurrentCh, req_info, concurrent_req_info,
                       poisoned, hand>>
        /\ req_info = None \/ cur' = cur
    BY <1>3 DEF AgentAnswered, AgentDies, reqVars, history, lockVars, readerVars
  <2>2. UNCHANGED <<OpenSlot, OpenMeters, InHand>>
    BY <2>1 DEF OpenSlot, OpenMeters, InHand, IsResponse
  <2>3. OutcomesSoFar' = OutcomesSoFar
    BY <2>1, OutcomeStays, OutcomesKept
  <2> QED
    BY <2>1, <2>2, <2>3 DEF Service!vars
<1> QED
  BY <1>1, <1>2, <1>3 DEF AgentThread

\* A meter reading opens, perhaps in the place of another one, or is lost.
LEMMA ServiceConcurrent ==
  ASSUME IInv, ConcurrentThread
  PROVE  Service!Next \/ UNCHANGED Service!vars
<1>0. timer' = timer
  BY StallKept
<1> USE <1>0, IdFacts
<1>1. CASE ConcurrentSend
  <2>1. PICK r \in Ids : /\ r = Head(concurrentCh) /\ r = concurrentCh[1]
                          /\ 1 \in 1 .. Len(concurrentCh)
    BY <1>1, HeadTailProperties DEF ConcurrentSend, IInv, TypeOK
  <2>2. status[r] = "queued" /\ kind[r] = "meter" /\ seq[r] \in Seqs
    BY <2>1 DEF IInv, QueuedOnce, TypeOK
  <2>3. /\ ~poisoned /\ concurrentCh # << >> /\ concurrentCh' = Tail(concurrentCh)
        /\ UNCHANGED <<kind, uartCh, req_info, cur, poisoned, hand>>
    BY <1>1 DEF ConcurrentSend, reqVars, agentVars, readerVars
  <2>4. UNCHANGED <<OpenSlot, InHand>>
    BY <2>3 DEF OpenSlot, InHand, IsResponse
  <2>5. PICK old \in Ids \cup {None} :
          /\ old = concurrent_req_info[seq[r]]
          /\ old # None => status[old] = "written" /\ kind[old] = "meter" /\ old \in OpenMeters
    BY <2>2 DEF IInv, TypeOK, MapInv, OpenMeters
  <2>6. \/ /\ concurrent_req_info' = [concurrent_req_info EXCEPT ![seq[r]] = r]
           /\ status' = [q \in Ids |-> IF q = r THEN "written"
                                       ELSE IF q = old THEN "lost" ELSE status[q]]
        \/ /\ status' = [status EXCEPT ![r] = "lost"]
           /\ UNCHANGED concurrent_req_info
    BY <1>1, <2>1, <2>5 DEF ConcurrentSend, File
  <2>7. CASE /\ concurrent_req_info' = [concurrent_req_info EXCEPT ![seq[r]] = r]
             /\ status' = [q \in Ids |-> IF q = r THEN "written"
                                         ELSE IF q = old THEN "lost" ELSE status[q]]
    <3>1. OutcomeOf(r)' = OutcomeOf(r)
      BY <2>1, <2>2, <2>3, <2>7 DEF OutcomeOf, Final
    <3>2. \A q \in Ids : q \notin {r, old} => status'[q] = status[q] /\ kind'[q] = kind[q]
      BY <2>3, <2>7
    <3>3. OpenMeters' = (OpenMeters \ {old}) \cup {r}
      <4>1. \A s \in Seqs : concurrent_req_info'[s] =
                              IF s = seq[r] THEN r ELSE concurrent_req_info[s]
        BY <2>7 DEF IInv, TypeOK
      <4>2. r # None /\ \A s \in Seqs : s # seq[r] /\ concurrent_req_info[s] # None =>
                                          concurrent_req_info[s] # old
        BY <2>1, <2>2, <2>5 DEF IInv, MapInv
      <4>3. ASSUME NEW x PROVE x \in OpenMeters' <=> x \in (OpenMeters \ {old}) \cup {r}
        <5>1. x \in OpenMeters' <=> x # None /\ \E s \in Seqs : concurrent_req_info'[s] = x
          BY DEF OpenMeters
        <5>2. x \in OpenMeters <=> x # None /\ \E s \in Seqs : concurrent_req_info[s] = x
          BY DEF OpenMeters
        <5>3. CASE x = r
          BY <2>2, <4>1, <4>2, <5>1, <5>3
        <5>4. CASE x # r
          <6>1. x \in OpenMeters' => x \in OpenMeters /\ x # old
            BY <4>1, <4>2, <5>1, <5>2, <5>4
          <6>2. x \in OpenMeters /\ x # old => x \in OpenMeters'
            BY <2>5, <4>1, <5>1, <5>2, <5>4
          <6> QED
            BY <5>4, <6>1, <6>2
        <5> QED
          BY <5>3, <5>4
      <4> QED
        BY <4>3
    <3>4. CASE old = None
      <4>1. OpenMeters' = OpenMeters \cup {r}
        BY <3>3, <3>4 DEF OpenMeters
      <4>2. OutcomesSoFar' = OutcomesSoFar
        BY <3>1, <3>2, <3>4, OutcomeStays, OutcomesKept
      <4>3. Service!StartMeter
        BY <2>1, <2>3, <2>4, <4>1, <4>2 DEF Service!StartMeter
      <4> QED
        BY <4>3 DEF Service!Next
    <3>5. CASE old # None
      <4>1. old \in Ids /\ old # r /\ kind'[old] = "meter" /\ status'[old] = "lost"
        BY <2>2, <2>3, <2>5, <2>7, <3>5
      <4>2. OutcomeOf(old)' = "lost"
        BY <4>1 DEF OutcomeOf, Final
      <4>3. Service!EndAll({old}, "lost")
        <5>1. \A q \in Ids : q # old => OutcomeOf(q)' = OutcomeOf(q)
          BY <3>1, <3>2, OutcomeStays
        <5> QED
          BY <4>1, <4>2, <5>1, OutcomeEnds
      <4>4. Service!StartMeter
        BY <2>1, <2>3, <2>4, <2>5, <3>3, <3>5, <4>3 DEF Service!StartMeter
      <4> QED
        BY <4>4 DEF Service!Next
    <3> QED
      BY <3>4, <3>5
  <2>8. CASE status' = [status EXCEPT ![r] = "lost"] /\ UNCHANGED concurrent_req_info
    <3>1. OutcomeOf(r)' = "lost"
      BY <2>1, <2>2, <2>3, <2>8 DEF OutcomeOf, Final, IInv, TypeOK
    <3>2. \A q \in Ids : q # r => status'[q] = status[q] /\ kind'[q] = kind[q]
      BY <2>3, <2>8 DEF IInv, TypeOK
    <3>3. Service!EndAll({r}, "lost")
      <4>1. \A q \in Ids : q # r => OutcomeOf(q)' = OutcomeOf(q)
        BY <3>2, OutcomeStays
      <4> QED
        BY <3>1, <4>1, OutcomeEnds
    <3>4. OpenMeters' = OpenMeters
      BY <2>8 DEF OpenMeters
    <3>5. Service!StartMeter
      BY <2>1, <2>3, <2>4, <3>3, <3>4 DEF Service!StartMeter
    <3> QED
      BY <3>5 DEF Service!Next
  <2> QED
    BY <2>6, <2>7, <2>8
<1>2. CASE ConcurrentDies
  <2>1. UNCHANGED <<kind, status, uartCh, concurrentCh, req_info, concurrent_req_info,
                    poisoned, hand, cur>>
    BY <1>2 DEF ConcurrentDies, reqVars, history, lockVars, agentVars, readerVars
  <2>2. UNCHANGED <<OpenSlot, OpenMeters, InHand>>
    BY <2>1 DEF OpenSlot, OpenMeters, InHand, IsResponse
  <2>3. OutcomesSoFar' = OutcomesSoFar
    BY <2>1, OutcomeStays, OutcomesKept
  <2> QED
    BY <2>1, <2>2, <2>3 DEF Service!vars
<1> QED
  BY <1>1, <1>2 DEF ConcurrentThread

\* What is taken out of the map is no longer open; it is there under its own number only.
LEMMA OpenWithout ==
  ASSUME TypeOK, MapInv, NEW s \in Seqs, NEW r \in Ids, concurrent_req_info[s] = r,
         concurrent_req_info' = Remove(concurrent_req_info, s)
  PROVE  r \in OpenMeters /\ OpenMeters' = OpenMeters \ {r}
<1> USE IdFacts
<1>1. \A t \in Seqs : concurrent_req_info'[t] = IF t = s THEN None ELSE concurrent_req_info[t]
  BY DEF Remove, TypeOK
<1>2. \A t \in Seqs : t # s => concurrent_req_info[t] # r
  BY DEF MapInv
<1>3. r \in OpenMeters
  BY DEF OpenMeters
<1>4. ASSUME NEW x PROVE x \in OpenMeters' <=> x \in OpenMeters \ {r}
  <2>1. x \in OpenMeters' <=> x # None /\ \E t \in Seqs : concurrent_req_info'[t] = x
    BY DEF OpenMeters
  <2>2. x \in OpenMeters <=> x # None /\ \E t \in Seqs : concurrent_req_info[t] = x
    BY DEF OpenMeters
  <2>3. x \in OpenMeters' => x \in OpenMeters /\ x # r
    BY <1>1, <1>2, <2>1, <2>2
  <2>4. x \in OpenMeters /\ x # r => x \in OpenMeters'
    BY <1>1, <2>1, <2>2
  <2> QED
    BY <2>3, <2>4
<1> QED
  BY <1>3, <1>4

\* An open meter reading times out while the timer runs, or the agent breaks down.
LEMMA ServiceTimer ==
  ASSUME IInv, TimerThread
  PROVE  Service!Next \/ UNCHANGED Service!vars
<1> USE IdFacts
<1>1. CASE ConcurrentTimeout
  <2>1. PICK r \in Ids : /\ r = concurrent_req_info[firing] /\ firing \in Seqs
                         /\ kind[r] = "meter" /\ ~poisoned
    BY <1>1 DEF ConcurrentTimeout, IInv, TypeOK, MapInv
  <2>2. /\ status' = [status EXCEPT ![r] = "timeout"]
        /\ concurrent_req_info' = Remove(concurrent_req_info, firing)
        /\ UNCHANGED <<kind, uartCh, concurrentCh, req_info, poisoned, cur, hand, timer>>
        /\ timer = "alive"
    BY <1>1, <2>1 DEF ConcurrentTimeout, reqVars, agentVars, readerVars
  <2>3. UNCHANGED <<OpenSlot, InHand>>
    BY <2>2 DEF OpenSlot, InHand, IsResponse
  <2>4. r \in OpenMeters /\ OpenMeters' = OpenMeters \ {r}
    <3>1. TypeOK /\ MapInv
      BY DEF IInv
    <3> QED
      BY <2>1, <2>2, <3>1, OpenWithout
  <2>5. Service!EndAll({r}, "timeout")
    <3>1. OutcomeOf(r)' = "timeout"
      BY <2>1, <2>2 DEF OutcomeOf, Final, IInv, TypeOK
    <3>2. \A q \in Ids : q # r => status'[q] = status[q] /\ kind'[q] = kind[q]
      BY <2>2 DEF IInv, TypeOK
    <3>3. \A q \in Ids : q # r => OutcomeOf(q)' = OutcomeOf(q)
      BY <3>2, OutcomeStays
    <3> QED
      BY <3>1, <3>3, OutcomeEnds
  <2>6. Service!TimeOutMeter
    BY <2>1, <2>2, <2>3, <2>4, <2>5 DEF Service!TimeOutMeter
  <2> QED
    BY <2>6 DEF Service!Next
<1>2. CASE CallbackPanics \/ \E s \in Seqs : TimerFires(s)
  <2>1. /\ UNCHANGED <<kind, status, uartCh, concurrentCh, req_info, concurrent_req_info, cur,
                       hand>>
        /\ poisoned' = poisoned \/ poisoned' = TRUE
        /\ timer = "alive" /\ timer' # "blocked"
    BY <1>2
    DEF CallbackPanics, TimerFires, reqVars, history, lockVars, agentVars, readerVars
  <2>2. UNCHANGED <<OpenSlot, OpenMeters, InHand>>
    BY <2>1 DEF OpenSlot, OpenMeters, InHand, IsResponse
  <2>3. OutcomesSoFar' = OutcomesSoFar
    BY <2>1, OutcomeStays, OutcomesKept
  <2>4. CASE poisoned' = poisoned
    BY <2>1, <2>2, <2>3, <2>4 DEF Service!vars
  <2>5. CASE poisoned' # poisoned
    <3>1. ~poisoned /\ poisoned' = TRUE
      BY <2>1, <2>5 DEF IInv, TypeOK
    <3>2. Service!Halt
      BY <2>1, <2>2, <2>3, <3>1 DEF Service!Halt
    <3> QED
      BY <3>2 DEF Service!Next
  <2> QED
    BY <2>4, <2>5
<1> QED
  BY <1>1, <1>2 DEF TimerThread

\* The timer's thread blocks in a callback of route control.
LEMMA ServiceStall == TimerBlocks => Service!Next
<1> SUFFICES ASSUME TimerBlocks PROVE Service!Next
  OBVIOUS
<1>1. /\ UNCHANGED <<kind, status, uartCh, concurrentCh, req_info, concurrent_req_info, poisoned,
                     cur, hand>>
      /\ timer = "alive" /\ timer' = "blocked"
  BY DEF TimerBlocks, reqVars, history, lockVars, agentVars, readerVars
<1>2. UNCHANGED <<OpenSlot, OpenMeters, InHand>>
  BY <1>1 DEF OpenSlot, OpenMeters, InHand, IsResponse
<1>3. OutcomesSoFar' = OutcomesSoFar
  BY <1>1, OutcomeStays, OutcomesKept
<1>4. Service!Stall
  BY <1>1, <1>2, <1>3 DEF Service!Stall
<1> QED
  BY <1>4 DEF Service!Next

\* An answer arrives, is delivered, a report is replied to, or nothing that the services see
\* happens: among these are a confirmation that is taken for a request and its panic.
LEMMA ServiceReader ==
  ASSUME IInv, IdleInv, ReaderThread
  PROVE  Service!Next \/ UNCHANGED Service!vars
<1>0. timer' = timer
  BY StallKept
<1> USE <1>0, IdFacts
<1>1. ASSUME NEW f \in Incoming, ReadFrame(f)
      PROVE  Service!Next \/ UNCHANGED Service!vars
  <2>1. f.seq \in Seqs
    <3>1. TypeOK
      BY DEF IInv
    <3> QED
      BY <3>1, IncomingFrames DEF Answers, Reports
  <2>2. /\ ~poisoned /\ hand = None
        /\ UNCHANGED <<kind, status, uartCh, concurrentCh, poisoned, cur>>
    BY <1>1 DEF ReadFrame, reqVars, history, agentVars, IInv, TypeOK
  <2>3. OutcomesSoFar' = OutcomesSoFar
    BY <2>2, OutcomeStays, OutcomesKept
  <2>4. InHand = None
    BY <2>2 DEF InHand
  <2>5. CASE hand' = None /\ UNCHANGED <<req_info, concurrent_req_info>>
    <3>1. UNCHANGED <<OpenSlot, OpenMeters, InHand>>
      BY <2>2, <2>5 DEF OpenSlot, OpenMeters, InHand
    <3> QED
      BY <2>2, <2>3, <3>1 DEF Service!vars
  <2>6. CASE /\ MatchesConcurrent(f) /\ hand' = concurrent_req_info[f.seq]
             /\ concurrent_req_info' = Remove(concurrent_req_info, f.seq)
             /\ UNCHANGED req_info
    <3>1. PICK r \in Ids : /\ r = concurrent_req_info[f.seq] /\ kind[r] = "meter"
      BY <2>1, <2>6 DEF MatchesConcurrent, IInv, TypeOK, MapInv
    <3>2. InHand' = r
      BY <2>2, <2>6, <3>1 DEF InHand, IsResponse
    <3>3. OpenSlot' = OpenSlot
      BY <2>2, <2>6 DEF OpenSlot
    <3>4. r \in OpenMeters /\ OpenMeters' = OpenMeters \ {r}
      <4>1. TypeOK /\ MapInv
        BY DEF IInv
      <4> QED
        BY <2>1, <2>6, <3>1, <4>1, OpenWithout
    <3>5. Service!Answer
      BY <2>2, <2>3, <2>4, <3>2, <3>3, <3>4 DEF Service!Answer
    <3> QED
      BY <3>5 DEF Service!Next
  <2>7. CASE MatchesSerial(f) /\ hand' = req_info /\ req_info' = None
             /\ UNCHANGED concurrent_req_info
    <3>1. OpenMeters' = OpenMeters /\ OpenSlot' = None
      BY <2>7 DEF OpenMeters, OpenSlot
    <3>2. req_info \in Ids /\ agent # "dead"
      BY <2>2, <2>7 DEF MatchesSerial, IInv, TypeOK
    <3>3. CASE kind[req_info] = "confirm"
      <4>1. OpenSlot = None
        BY <3>2, <3>3 DEF OpenSlot, IInv, TypeOK, SlotInv, IdleInv
      <4>2. InHand' = None
        BY <2>2, <2>7, <3>3 DEF InHand, IsResponse
      <4> QED
        BY <2>2, <2>3, <2>4, <3>1, <4>1, <4>2 DEF Service!vars
    <3>4. CASE kind[req_info] # "confirm"
      <4>1. OpenSlot = req_info /\ OpenSlot # None
        BY <2>2, <3>2, <3>4 DEF OpenSlot, IInv, SlotInv
      <4>2. InHand' = req_info
        BY <2>2, <2>7, <3>4 DEF InHand, IsResponse
      <4>3. Service!Answer
        BY <2>2, <2>3, <2>4, <3>1, <4>1, <4>2 DEF Service!Answer
      <4> QED
        BY <4>3 DEF Service!Next
    <3> QED
      BY <3>3, <3>4
  <2> QED
    BY <1>1, <2>5, <2>6, <2>7 DEF ReadFrame
<1>2. CASE HandleReport
  <2>1. /\ hand = None /\ hand' = None
        /\ UNCHANGED <<concurrentCh, req_info, concurrent_req_info, poisoned, cur>>
    BY <1>2 DEF HandleReport, lockVars, agentVars
  <2>2. UNCHANGED <<OpenSlot, OpenMeters, InHand>>
    BY <2>1 DEF OpenSlot, OpenMeters, InHand
  <2>3. CASE UNCHANGED <<status, reqVars, uartCh>>
    <3>1. OutcomesSoFar' = OutcomesSoFar
      BY <2>3, OutcomeStays, OutcomesKept DEF reqVars
    <3> QED
      BY <2>1, <2>2, <2>3, <3>1 DEF Service!vars
  <2>4. ASSUME NEW n \in Replies, status[n] = "unused", NewReply(n, "confirm"),
               status' = [status EXCEPT ![n] = "queued"]
        PROVE  Service!Next
    <3>1. n \in Ids
      BY DEF Ids
    <3>2. Service!Unused(n) /\ OutcomeOf(n) = None
      BY <2>4, <3>1, UnusedIsUnused
    <3>3. status'[n] = "queued"
          /\ \A q \in Ids : q # n => status'[q] = status[q] /\ kind'[q] = kind[q]
      BY <2>4, <3>1 DEF NewReply, IInv, TypeOK
    <3>4. OutcomeOf(n)' = None
      BY <3>3 DEF OutcomeOf, Final
    <3>5. OutcomesSoFar' = OutcomesSoFar
      BY <3>2, <3>3, <3>4, OutcomeStays, OutcomesKept
    <3>6. uartCh' = Append(uartCh, n)
      BY <2>4 DEF NewReply
    <3>7. Service!Submit(n)
      BY <2>1, <2>2, <3>2, <3>5, <3>6 DEF Service!Submit
    <3> QED
      BY <3>1, <3>7 DEF Service!Next
  <2> QED
    BY <1>2, <2>3, <2>4 DEF HandleReport
<1>3. CASE HandleAnswer
  <2>1. PICK h \in Ids : h = hand /\ status[h] # "unused" /\ status[h] # "queued"
    BY <1>3 DEF HandleAnswer, IInv, TypeOK, HandInv
  <2>2. /\ hand' = None
        /\ UNCHANGED <<concurrentCh, req_info, concurrent_req_info, poisoned, cur>>
    BY <1>3 DEF HandleAnswer, lockVars, agentVars
  <2>3. UNCHANGED <<OpenSlot, OpenMeters>> /\ InHand' = None
    BY <2>2 DEF OpenSlot, OpenMeters, InHand
  <2>4. PICK o \in HandlerOutcomes(h, frame) :
          \/ \E m \in Replies :
               /\ kind[h] = "delay"
               /\ status[m] = "unused"
               /\ status' = [status EXCEPT ![m] = "queued", ![h] = o]
               /\ NewReply(m, "forward")
          \/ /\ status' = [status EXCEPT ![h] = o]
             /\ UNCHANGED <<reqVars, uartCh>>
    BY <1>3, <2>1 DEF HandleAnswer
  <2>5. o \in {"answered", "dropped", "panicked"} /\ o \in Final
    BY DEF HandlerOutcomes, Final
  <2>6. CASE status' = [status EXCEPT ![h] = o] /\ UNCHANGED <<reqVars, uartCh>>
    <3>1. status'[h] = o /\ kind'[h] = kind[h]
          /\ \A q \in Ids : q # h => status'[q] = status[q] /\ kind'[q] = kind[q]
      BY <2>6 DEF reqVars, IInv, TypeOK
    <3>2. \A q \in Ids : q # h => OutcomeOf(q)' = OutcomeOf(q)
      BY <3>1, OutcomeStays
    <3>3. CASE kind[h] = "confirm"
      <4>1. InHand = None
        BY <2>1, <3>3 DEF InHand, IsResponse
      <4>2. OutcomeOf(h)' = OutcomeOf(h)
        BY <2>1, <2>5, <3>1, <3>3 DEF OutcomeOf
      <4>3. OutcomesSoFar' = OutcomesSoFar
        BY <3>2, <4>2, OutcomesKept
      <4> QED
        BY <2>2, <2>3, <2>6, <4>1, <4>3 DEF Service!vars
    <3>4. CASE kind[h] # "confirm"
      <4>1. InHand = h /\ InHand # None
        BY <2>1, <3>4 DEF InHand, IsResponse
      <4>2. OutcomeOf(h)' = o
        BY <2>5, <3>1, <3>4 DEF OutcomeOf
      <4>3. Service!EndAll({h}, o)
        BY <3>2, <4>2, OutcomeEnds
      <4>4. Service!Deliver
        BY <2>2, <2>3, <2>5, <2>6, <4>1, <4>3 DEF Service!Deliver
      <4> QED
        BY <4>4 DEF Service!Next
    <3> QED
      BY <3>3, <3>4
  <2>7. ASSUME NEW m \in Replies, kind[h] = "delay", status[m] = "unused",
               status' = [status EXCEPT ![m] = "queued", ![h] = o], NewReply(m, "forward")
        PROVE  Service!Next
    <3>1. m \in Ids /\ m # h
      BY <2>1, <2>7 DEF Ids
    <3>2. Service!Unused(m) /\ OutcomeOf(m) = None
      BY <2>7, <3>1, UnusedIsUnused
    <3>3. /\ status'[m] = "queued" /\ status'[h] = o
          /\ \A q \in Ids : q # m /\ q # h => status'[q] = status[q]
      BY <2>7, <3>1 DEF IInv, TypeOK
    <3>4. \A q \in Ids : q # m => kind'[q] = kind[q]
      BY <2>7, <3>1 DEF NewReply, IInv, TypeOK
    <3>5. OutcomeOf(m)' = OutcomeOf(m)
      BY <3>2, <3>3 DEF OutcomeOf, Final
    <3>6. OutcomeOf(h)' = o
      BY <2>5, <2>7, <3>1, <3>3, <3>4 DEF OutcomeOf
    <3>7. \A q \in Ids : q # h => OutcomeOf(q)' = OutcomeOf(q)
      BY <3>3, <3>4, <3>5, OutcomeStays
    <3>8. Service!EndAll({h}, o)
      BY <3>6, <3>7, OutcomeEnds
    <3>9. InHand = h /\ InHand # None
      BY <2>1, <2>7 DEF InHand, IsResponse
    <3>10. uartCh' = Append(uartCh, m)
      BY <2>7 DEF NewReply
    <3>11. Service!Deliver
      BY <2>2, <2>3, <2>5, <3>1, <3>2, <3>8, <3>9, <3>10 DEF Service!Deliver
    <3> QED
      BY <3>11 DEF Service!Next
  <2> QED
    BY <2>4, <2>6, <2>7
<1>4. CASE ReaderStops
  <2>1. UNCHANGED <<kind, status, uartCh, concurrentCh, req_info, concurrent_req_info, poisoned,
                    cur, hand>>
    BY <1>4 DEF ReaderStops, reqVars, history, lockVars, agentVars
  <2>2. UNCHANGED <<OpenSlot, OpenMeters, InHand>>
    BY <2>1 DEF OpenSlot, OpenMeters, InHand, IsResponse
  <2>3. OutcomesSoFar' = OutcomesSoFar
    BY <2>1, OutcomeStays, OutcomesKept
  <2> QED
    BY <2>1, <2>2, <2>3 DEF Service!vars
<1> QED
  BY <1>1, <1>2, <1>3, <1>4 DEF ReaderThread

\* The agent takes its next message only after it forgot the last, and a kind comes with use.
LEMMA IdleStep == IInv /\ IdleInv /\ [Next]_vars => IdleInv'
<1> SUFFICES ASSUME IInv, IdleInv, [Next]_vars PROVE IdleInv'
  OBVIOUS
<1>1. (agent = "recv" => cur = None)'
  <2>1. CASE AgentThread
    BY <2>1 DEF AgentThread, AgentSend, AgentAnswered, AgentTimeout, AgentDies, IdleInv
  <2>2. CASE \/ Submit \/ ConcurrentThread \/ TimerThread \/ TimerBlocks \/ ReaderThread
             \/ UNCHANGED vars
    <3>1. UNCHANGED agentVars
      BY <2>2 DEF Submit, SubmitSerial, SubmitMeter, ConcurrentThread, ConcurrentSend,
         ConcurrentDies, TimerThread, TimerFires, ConcurrentTimeout, CallbackPanics,
         TimerBlocks, ReaderThread, ReadFrame, HandleReport, HandleAnswer, ReaderStops, vars
    <3> QED
      BY <3>1 DEF agentVars, IdleInv
  <2> QED
    BY <2>1, <2>2 DEF Next
<1>2. (\A r \in Ids : status[r] = "unused" => kind[r] = None)'
  <2>1. \A r \in Ids : status'[r] = "unused" => status[r] = "unused" /\ kind'[r] = kind[r]
    <3>1. CASE Submit
      BY <3>1 DEF Submit, SubmitSerial, SubmitMeter, NewRequest, IInv, TypeOK
    <3>2. CASE AgentThread \/ ConcurrentThread \/ TimerThread
      <4>1. kind' = kind
        BY <3>2 DEF AgentThread, AgentSend, AgentAnswered, AgentTimeout, AgentDies,
           ConcurrentThread, ConcurrentSend, ConcurrentDies, TimerThread, TimerFires,
           ConcurrentTimeout, CallbackPanics, reqVars
      <4>2. \A r \in Ids : status'[r] = "unused" => status[r] = "unused"
        BY <3>2 DEF AgentThread, AgentSend, AgentAnswered, AgentTimeout, AgentDies,
           ConcurrentThread, ConcurrentSend, ConcurrentDies, TimerThread, TimerFires,
           ConcurrentTimeout, CallbackPanics, history, IInv, TypeOK
      <4> QED
        BY <4>1, <4>2
    <3>3. CASE \/ (\E f \in Incoming : ReadFrame(f)) \/ ReaderStops \/ TimerBlocks
               \/ UNCHANGED vars
      BY <3>3 DEF ReadFrame, ReaderStops, TimerBlocks, vars, reqVars, history
    <3>4. CASE HandleReport
      BY <3>4 DEF HandleReport, NewReply, reqVars, IInv, TypeOK, Ids
    <3>5. CASE HandleAnswer
      <4>1. PICK o \in HandlerOutcomes(hand, frame) :
              \/ \E m \in Replies :
                   /\ status' = [status EXCEPT ![m] = "queued", ![hand] = o]
                   /\ NewReply(m, "forward")
              \/ /\ status' = [status EXCEPT ![hand] = o]
                 /\ UNCHANGED <<reqVars, uartCh>>
        BY <3>5 DEF HandleAnswer
      <4>2. o # "unused"
        BY DEF HandlerOutcomes
      <4>3. CASE status' = [status EXCEPT ![hand] = o] /\ UNCHANGED <<reqVars, uartCh>>
        BY <4>2, <4>3 DEF reqVars, IInv, TypeOK
      <4>4. ASSUME NEW m \in Replies, NewReply(m, "forward"),
                   status' = [status EXCEPT ![m] = "queued", ![hand] = o]
            PROVE  \A r \in Ids : status'[r] = "unused" =>
                     status[r] = "unused" /\ kind'[r] = kind[r]
        <5>1. \A r \in Ids : status'[r] = "unused" => status[r] = "unused" /\ r # m
          BY <4>2, <4>4 DEF IInv, TypeOK
        <5>2. \A r \in Ids : r # m => kind'[r] = kind[r]
          BY <4>4 DEF NewReply, IInv, TypeOK
        <5> QED
          BY <5>1, <5>2
      <4> QED
        BY <4>1, <4>3, <4>4
    <3> QED
      BY <3>1, <3>2, <3>3, <3>4, <3>5 DEF Next, ReaderThread
  <2> QED
    BY <2>1 DEF IdleInv
<1> QED
  BY <1>1, <1>2 DEF IdleInv

\* Every behaviour of the four threads, the slot, the map and the wrapping sequence numbers is
\* one that RequestService allows: serial requests open one at a time and in order, nothing is
\* delivered that was not open, and nothing has two outcomes. (That everything ends, the
\* fairness of RequestService, is not part of this.)
THEOREM ServiceSafety == Spec => Service!Init /\ [][Service!Next]_(Service!vars)
<1>1. Init => Service!Init /\ IdleInv
  <2> SUFFICES ASSUME Init PROVE Service!Init /\ IdleInv
    OBVIOUS
  <2>1. IdleInv
    BY DEF Init, IdleInv
  <2>2. OpenSlot = None /\ OpenMeters = {} /\ InHand = None
    BY DEF Init, OpenSlot, OpenMeters, InHand
  <2>3. \A r \in Ids : OutcomeOf(r) = None
    BY NoneAssumption DEF Init, OutcomeOf, Kinds, SerialKinds, ReplyKinds, Final
  <2>4. OutcomesSoFar = [r \in Ids |-> None]
    BY <2>3 DEF OutcomesSoFar
  <2>5. uartCh = << >> /\ concurrentCh = << >> /\ poisoned = FALSE /\ timer = "alive"
    BY DEF Init
  <2> QED
    BY <2>1, <2>2, <2>4, <2>5 DEF Service!Init
<1>2. IInv /\ IdleInv /\ [Next]_vars => [Service!Next]_(Service!vars)
  <2> SUFFICES ASSUME IInv, IdleInv, [Next]_vars
               PROVE  Service!Next \/ UNCHANGED Service!vars
    OBVIOUS
  <2>1. CASE UNCHANGED vars
    <3>1. UNCHANGED <<kind, status, uartCh, concurrentCh, req_info, concurrent_req_info,
                      poisoned, cur, hand>>
      BY <2>1 DEF vars, reqVars, history, lockVars, agentVars, readerVars
    <3>2. UNCHANGED <<OpenSlot, OpenMeters, InHand>>
      BY <3>1 DEF OpenSlot, OpenMeters, InHand, IsResponse
    <3>3. OutcomesSoFar' = OutcomesSoFar
      BY <3>1, OutcomeStays, OutcomesKept
    <3>4. timer' = timer
      BY <2>1, StallKept
    <3> QED
      BY <3>1, <3>2, <3>3, <3>4 DEF Service!vars
  <2> QED
    BY <2>1, ServiceSubmit, ServiceAgent, ServiceConcurrent, ServiceTimer, ServiceStall,
       ServiceReader
    DEF Next
<1>3. IInv /\ IdleInv /\ [Next]_vars => IdleInv'
  BY IdleStep
<1> QED
  BY <1>1, <1>2, <1>3, Invariance, PTL DEF Spec
=============================================================================
