----------------------- MODULE ConcurrentMeterProofs -----------------------
(***************************************************************************)
(* Proofs about ConcurrentMeter for every set of requests and addresses    *)
(* (finite or not) and all limits: one request at a time is open for an    *)
(* address, accepted requests go out in order, and the limit of addresses  *)
(* is kept by all that do not reuse an idle cache.                         *)
(***************************************************************************)
EXTENDS ConcurrentMeter, FiniteSetTheorems, SequenceTheorems, TLAPS

----------------------------------------------------------------------------
(* The inductive invariant. *)

\* The flag is set while the dispatcher waits for another service.
FlagInv == metering <=> dispatch = "exclusive"

\* A queue holds requests for its address that were accepted and not sent on, each once.
QueueInv ==
  \A a \in Addrs :
    /\ \A i \in 1 .. Len(msg_cache_queue[a]) :
         addr[msg_cache_queue[a][i]] = a /\ status[msg_cache_queue[a][i]] = "queued"
    /\ \A i, j \in 1 .. Len(msg_cache_queue[a]) :
         i # j => msg_cache_queue[a][i] # msg_cache_queue[a][j]

\* An address without a cache neither waits nor has requests behind it, and one that has
\* requests but does not wait is kept back by the flag.
CacheInv ==
  \A a \in Addrs :
    /\ a \notin present => ~is_waiting_response[a] /\ msg_cache_queue[a] = << >>
    /\ msg_cache_queue[a] # << >> /\ ~is_waiting_response[a] => metering

\* A handler has a request that it reported on, and no other has the same one.
HandlerInv ==
  /\ \A t \in Threads : handling[t] # None => status[handling[t]] = "reported"
  /\ \A t, u \in Threads : handling[t] = handling[u] /\ handling[t] # None => t = u
  /\ \A m \in Msgs : status[m] # "unused" => addr[m] \in Addrs

BusyAddrs == {a \in Addrs : Busy(a)}

IInv ==
  /\ TypeOK
  /\ FlagInv
  /\ QueueInv
  /\ CacheInv
  /\ HandlerInv
  /\ OneOpenRequest
  /\ InOrder
  /\ IsFiniteSet(BusyAddrs)
  /\ AddressesAreLimited

----------------------------------------------------------------------------
(* Facts about sequences and sets. *)

\* A request that joins the queue, goes out past an empty one, or goes out from its head
\* leaves what was sent on followed by the queue in the order of arrival.
LEMMA OrderFacts ==
  ASSUME NEW S, NEW p \in Seq(S), NEW q \in Seq(S), NEW x \in S
  PROVE  /\ p \o Append(q, x) = Append(p \o q, x)
         /\ Append(p, x) \o << >> = Append(p \o << >>, x)
         /\ q # << >> => Append(p, Head(q)) \o Tail(q) = p \o q
<1>1. p \o Append(q, x) = Append(p \o q, x)
  OBVIOUS
<1>2. p \o << >> = p /\ Append(p, x) \o << >> = Append(p, x)
  BY ConcatEmptySeq, AppendProperties
<1>3. ASSUME q # << >>
      PROVE  Append(p, Head(q)) \o Tail(q) = p \o q
  <2>1. Head(q) \in S /\ Tail(q) \in Seq(S) /\ Append(p, Head(q)) \in Seq(S)
    BY <1>3, HeadTailProperties, AppendProperties
  <2>2. Len(Append(p, Head(q)) \o Tail(q)) = Len(p \o q)
    BY <1>3, <2>1, HeadTailProperties, AppendProperties, ConcatProperties
  <2>3. ASSUME NEW i \in 1 .. Len(p \o q)
        PROVE  (Append(p, Head(q)) \o Tail(q))[i] = (p \o q)[i]
    BY <1>3, <2>1, <2>3, HeadTailProperties, AppendProperties, ConcatProperties
  <2> QED
    BY <2>1, <2>2, <2>3, SeqEqual, ConcatProperties
<1> QED
  BY <1>1, <1>2, <1>3

\* A set within a set that keeps the limit keeps it.
LEMMA SmallerSet ==
  ASSUME NEW S, IsFiniteSet(S), NEW R \in SUBSET S, NEW n \in Nat, Cardinality(S) <= n
  PROVE  IsFiniteSet(R) /\ Cardinality(R) <= n
<1>1. IsFiniteSet(R) /\ Cardinality(R) <= Cardinality(S)
  BY FS_Subset
<1>2. Cardinality(R) \in Nat /\ Cardinality(S) \in Nat
  BY <1>1, FS_CardinalityType
<1> QED
  BY <1>1, <1>2

----------------------------------------------------------------------------
(* Facts about the states of the invariant. *)

IsOpen(m) == status[m] = "flight" \/ \E t \in Threads : handling[t] = m

\* A request that is open is the only one for its address, which waits.
LEMMA OpenFacts ==
  ASSUME IInv, NEW m \in Msgs, IsOpen(m)
  PROVE  /\ addr[m] \in Addrs
         /\ addr[m] \in present
         /\ is_waiting_response[addr[m]]
         /\ \A n \in Msgs : IsOpen(n) /\ addr[n] = addr[m] => n = m
<1>1. status[m] # "unused" /\ addr[m] \in Addrs
  BY NoneAssumption DEF IInv, HandlerInv, IsOpen
<1>2. m \in Open(addr[m])
  BY <1>1 DEF Open, IsOpen
<1>3. \A n \in Msgs : IsOpen(n) /\ addr[n] = addr[m] => n \in Open(addr[m])
  BY DEF Open, IsOpen
<1> QED
  BY <1>1, <1>2, <1>3 DEF IInv, OneOpenRequest

\* The converse: OneOpenRequest, said of the requests.
LEMMA OpenFromFacts ==
  ASSUME \A m \in Msgs : IsOpen(m) =>
           /\ addr[m] \in present
           /\ is_waiting_response[addr[m]]
           /\ \A n \in Msgs : IsOpen(n) /\ addr[n] = addr[m] => n = m
  PROVE  OneOpenRequest
  BY DEF OneOpenRequest, Open, IsOpen

\* A new request is in no queue and with no handler.
LEMMA FreshFacts ==
  ASSUME IInv, NEW m \in Msgs, status[m] = "unused"
  PROVE  /\ ~IsOpen(m)
         /\ \A t \in Threads : handling[t] # m
         /\ \A a \in Addrs : \A i \in 1 .. Len(msg_cache_queue[a]) : msg_cache_queue[a][i] # m
  BY NoneAssumption DEF IInv, HandlerInv, QueueInv, IsOpen

\* The first request of a queue is not open.
LEMMA HeadFacts ==
  ASSUME IInv, NEW a \in Addrs, msg_cache_queue[a] # << >>
  PROVE  /\ Head(msg_cache_queue[a]) \in Msgs
         /\ addr[Head(msg_cache_queue[a])] = a
         /\ status[Head(msg_cache_queue[a])] = "queued"
         /\ \A t \in Threads : handling[t] # Head(msg_cache_queue[a])
         /\ a \in present
         /\ Tail(msg_cache_queue[a]) \in Seq(Msgs)
         /\ Len(Tail(msg_cache_queue[a])) <= cache_queue_size
<1>1. msg_cache_queue[a] \in Seq(Msgs) /\ Len(msg_cache_queue[a]) <= cache_queue_size
  BY DEF IInv, TypeOK
<1>2. /\ Head(msg_cache_queue[a]) \in Msgs /\ Head(msg_cache_queue[a]) = msg_cache_queue[a][1]
      /\ Tail(msg_cache_queue[a]) \in Seq(Msgs) /\ Len(msg_cache_queue[a]) \in Nat \ {0}
      /\ Len(Tail(msg_cache_queue[a])) = Len(msg_cache_queue[a]) - 1
  BY <1>1, HeadTailProperties
<1>3. addr[Head(msg_cache_queue[a])] = a /\ status[Head(msg_cache_queue[a])] = "queued"
  BY <1>2 DEF IInv, QueueInv
<1>4. a \in present
  BY DEF IInv, CacheInv
<1>5. \A t \in Threads : handling[t] # Head(msg_cache_queue[a])
  BY <1>2, <1>3, NoneAssumption DEF IInv, HandlerInv
<1> QED
  BY <1>1, <1>2, <1>3, <1>4, <1>5, LimitsAssumption

\* Fewer addresses at work, and no new one among those the limit counts.
LEMMA LimitStep ==
  ASSUME IInv, BusyAddrs' \subseteq BusyAddrs, BusyAddrs' \ reused' \subseteq BusyAddrs \ reused
  PROVE  IsFiniteSet(BusyAddrs)' /\ AddressesAreLimited'
<1>1. IsFiniteSet(BusyAddrs) /\ IsFiniteSet(BusyAddrs \ reused)
  BY FS_Subset DEF IInv
<1>2. IsFiniteSet(BusyAddrs')
  BY <1>1, FS_Subset
<1>3. Cardinality(BusyAddrs' \ reused') <= concurrent_addr
  BY <1>1, SmallerSet, LimitsAssumption DEF IInv, AddressesAreLimited, BusyAddrs
<1> QED
  BY <1>2, <1>3 DEF AddressesAreLimited, BusyAddrs

----------------------------------------------------------------------------
(* The steps of the dispatcher. *)

\* A request that is refused changes nothing but itself, and may leave an idle cache.
LEMMA RefuseStep ==
  ASSUME IInv, NEW m \in Msgs, NEW a \in Addrs,
         status[m] = "unused",
         addr' = [addr EXCEPT ![m] = a],
         status' = [status EXCEPT ![m] = "rejected"],
         present' = present \/ present' = present \cup {a},
         UNCHANGED <<is_waiting_response, msg_cache_queue, history, dispatchVars, handling, blocked,
                     faults>>
  PROVE  IInv'
<1> USE DEF history, dispatchVars
<1>1. TypeOK'
  BY DEF IInv, TypeOK, Statuses
<1>2. /\ addr'[m] = a /\ status'[m] = "rejected"
      /\ \A n \in Msgs \ {m} : addr'[n] = addr[n] /\ status'[n] = status[n]
  BY DEF IInv, TypeOK
<1>3. FlagInv' /\ CacheInv' /\ InOrder'
  BY DEF IInv, FlagInv, CacheInv, InOrder
<1>4. QueueInv'
  <2>1. \A b \in Addrs : \A i \in 1 .. Len(msg_cache_queue[b]) : msg_cache_queue[b][i] \in Msgs \ {m}
    BY FreshFacts, ElementOfSeq DEF IInv, TypeOK
  <2> QED
    BY <1>2, <2>1 DEF IInv, QueueInv
<1>5. HandlerInv'
  BY <1>2, FreshFacts DEF IInv, HandlerInv, TypeOK
<1>6. OneOpenRequest'
  <2>1. \A n \in Msgs : IsOpen(n)' => n # m /\ IsOpen(n) /\ addr'[n] = addr[n]
    BY <1>2, FreshFacts DEF IsOpen
  <2>2. \A n \in Msgs : IsOpen(n)' =>
           /\ addr'[n] \in present'
           /\ is_waiting_response'[addr'[n]]
           /\ \A o \in Msgs : IsOpen(o)' /\ addr'[o] = addr'[n] => o = n
    BY <2>1, OpenFacts
  <2> QED
    BY <2>2, OpenFromFacts DEF OneOpenRequest, Open, IsOpen
<1>7. BusyAddrs' = BusyAddrs
  BY DEF BusyAddrs, Busy, IInv, CacheInv
<1> QED
  BY <1>1, <1>3, <1>4, <1>5, <1>6, <1>7, LimitStep DEF IInv

\* A request past the limit's check adds its address, which is new and below the limit, or
\* was at work before, or is one that reuses an idle cache.
LEMMA AdmitStep ==
  ASSUME IInv, NEW a \in Addrs, ~AddrLimit(a), Reuse(a), BusyAddrs' \subseteq BusyAddrs \cup {a}
  PROVE  IsFiniteSet(BusyAddrs)' /\ AddressesAreLimited'
<1>1. IsFiniteSet(BusyAddrs) /\ Cardinality(BusyAddrs) \in Nat
  BY FS_CardinalityType DEF IInv
<1>2. CASE a \in BusyAddrs
  BY <1>2, LimitStep DEF Reuse, BusyAddrs
<1>3. CASE a \notin present
  <2>1. Cardinality(BusyAddrs) < concurrent_addr
    BY <1>1, <1>3, LimitsAssumption DEF AddrLimit, concurrent_addr_num, BusyAddrs
  <2>2. a \notin BusyAddrs
    BY <1>3 DEF BusyAddrs, Busy
  <2>3. /\ IsFiniteSet(BusyAddrs \cup {a})
        /\ Cardinality(BusyAddrs \cup {a}) = Cardinality(BusyAddrs) + 1
    BY <1>1, <2>2, FS_AddElement
  <2>4. Cardinality(BusyAddrs \cup {a}) <= concurrent_addr
    BY <1>1, <2>1, <2>3, LimitsAssumption
  <2>5. IsFiniteSet(BusyAddrs') /\ Cardinality(BusyAddrs' \ reused') <= concurrent_addr
    BY <2>3, <2>4, SmallerSet, LimitsAssumption, FS_Subset
  <2> QED
    BY <2>5 DEF AddressesAreLimited, BusyAddrs
<1>4. CASE a \in present /\ a \notin BusyAddrs
  <2>1. reused' = reused \cup {a}
    BY <1>4 DEF Reuse, BusyAddrs
  <2>2. IsFiniteSet(BusyAddrs \cup {a})
    BY <1>1, FS_AddElement
  <2>3. IsFiniteSet(BusyAddrs') /\ IsFiniteSet(BusyAddrs \ reused)
    BY <1>1, <2>2, FS_Subset
  <2>4. BusyAddrs' \ reused' \subseteq BusyAddrs \ reused
    BY <2>1
  <2>5. Cardinality(BusyAddrs' \ reused') <= concurrent_addr
    BY <2>3, <2>4, SmallerSet, LimitsAssumption DEF IInv, AddressesAreLimited, BusyAddrs
  <2> QED
    BY <2>3, <2>5 DEF AddressesAreLimited, BusyAddrs
<1> QED
  BY <1>2, <1>3, <1>4

\* A request that must wait joins the queue of its address.
LEMMA QueueStep ==
  ASSUME IInv, NEW m \in Msgs, NEW a \in Addrs,
         status[m] = "unused", ~AddrLimit(a), MustWait(a), ~QueueLimit(a),
         addr' = [addr EXCEPT ![m] = a],
         present' = present \cup {a},
         Reuse(a),
         msg_cache_queue' = [msg_cache_queue EXCEPT ![a] = Append(@, m)],
         accepted' = [accepted EXCEPT ![a] = Append(@, m)],
         status' = [status EXCEPT ![m] = "queued"],
         UNCHANGED <<is_waiting_response, started, dispatchVars, handling, blocked, faults>>
  PROVE  IInv'
<1> USE DEF dispatchVars
<1>1. /\ msg_cache_queue \in [Addrs -> Seq(Msgs)]
      /\ accepted \in [Addrs -> Seq(Msgs)] /\ started \in [Addrs -> Seq(Msgs)]
  BY DEF IInv, TypeOK
<1>2. /\ addr'[m] = a /\ status'[m] = "queued"
      /\ \A n \in Msgs \ {m} : addr'[n] = addr[n] /\ status'[n] = status[n]
  BY DEF IInv, TypeOK
<1>3. /\ msg_cache_queue'[a] = Append(msg_cache_queue[a], m)
      /\ accepted'[a] = Append(accepted[a], m)
      /\ \A b \in Addrs \ {a} : msg_cache_queue'[b] = msg_cache_queue[b] /\ accepted'[b] = accepted[b]
  BY <1>1
<1>4. /\ Append(msg_cache_queue[a], m) \in Seq(Msgs)
      /\ Len(msg_cache_queue'[a]) = Len(msg_cache_queue[a]) + 1 /\ Len(msg_cache_queue[a]) \in Nat
      /\ \A i \in 1 .. Len(msg_cache_queue[a]) : msg_cache_queue'[a][i] = msg_cache_queue[a][i]
      /\ msg_cache_queue'[a][Len(msg_cache_queue[a]) + 1] = m
  BY <1>1, <1>3, AppendProperties
<1>5. TypeOK'
  <2>1. msg_cache_queue' \in [Addrs -> Seq(Msgs)] /\ accepted' \in [Addrs -> Seq(Msgs)]
    BY <1>1, <1>4, AppendProperties
  <2>2. \A b \in Addrs : Len(msg_cache_queue'[b]) <= cache_queue_size
    BY <1>3, <1>4, LimitsAssumption DEF QueueLimit, IInv, TypeOK
  <2>3. addr' \in [Msgs -> Addrs \cup {None}] /\ status' \in [Msgs -> Statuses] /\ reused' \subseteq Addrs
    BY DEF IInv, TypeOK, Statuses, Reuse
  <2> QED
    BY <2>1, <2>2, <2>3 DEF IInv, TypeOK
<1>6. FlagInv' /\ CacheInv'
  BY <1>3 DEF IInv, FlagInv, CacheInv, MustWait
<1>7. InOrder'
  <2>1. started[a] \o Append(msg_cache_queue[a], m) = Append(started[a] \o msg_cache_queue[a], m)
    BY <1>1, OrderFacts
  <2> QED
    BY <1>3, <2>1 DEF IInv, InOrder
<1>8. QueueInv'
  <2>1. \A b \in Addrs : \A i \in 1 .. Len(msg_cache_queue[b]) : msg_cache_queue[b][i] \in Msgs \ {m}
    BY <1>1, FreshFacts, ElementOfSeq
  <2>2. ASSUME NEW b \in Addrs \ {a}
        PROVE  /\ \A i \in 1 .. Len(msg_cache_queue'[b]) :
                    addr'[msg_cache_queue'[b][i]] = b /\ status'[msg_cache_queue'[b][i]] = "queued"
               /\ \A i, j \in 1 .. Len(msg_cache_queue'[b]) :
                    i # j => msg_cache_queue'[b][i] # msg_cache_queue'[b][j]
    BY <1>2, <1>3, <2>1 DEF IInv, QueueInv
  <2>3. \A i \in 1 .. Len(msg_cache_queue'[a]) : i \in 1 .. Len(msg_cache_queue[a]) \/ i = Len(msg_cache_queue[a]) + 1
    BY <1>4
  <2>4. \A i \in 1 .. Len(msg_cache_queue'[a]) :
          addr'[msg_cache_queue'[a][i]] = a /\ status'[msg_cache_queue'[a][i]] = "queued"
    BY <1>2, <1>4, <2>1, <2>3 DEF IInv, QueueInv
  <2>5. \A i, j \in 1 .. Len(msg_cache_queue'[a]) :
          i # j => msg_cache_queue'[a][i] # msg_cache_queue'[a][j]
    BY <1>4, <2>1, <2>3 DEF IInv, QueueInv
  <2> QED
    BY <2>2, <2>4, <2>5 DEF QueueInv
<1>9. HandlerInv'
  BY <1>2, FreshFacts DEF IInv, HandlerInv, TypeOK
<1>10. OneOpenRequest'
  <2>1. \A n \in Msgs : IsOpen(n)' => n # m /\ IsOpen(n) /\ addr'[n] = addr[n]
    BY <1>2, FreshFacts DEF IsOpen
  <2>2. \A n \in Msgs : IsOpen(n)' =>
           /\ addr'[n] \in present'
           /\ is_waiting_response'[addr'[n]]
           /\ \A o \in Msgs : IsOpen(o)' /\ addr'[o] = addr'[n] => o = n
    BY <2>1, OpenFacts
  <2> QED
    BY <2>2, OpenFromFacts DEF OneOpenRequest, Open, IsOpen
<1>11. BusyAddrs' \subseteq BusyAddrs \cup {a}
  BY <1>3 DEF BusyAddrs, Busy
<1> QED
  BY <1>5, <1>6, <1>7, <1>8, <1>9, <1>10, <1>11, AdmitStep DEF IInv

\* A request that need not wait goes out past an empty queue.
LEMMA SendStep ==
  ASSUME IInv, NEW m \in Msgs, NEW a \in Addrs,
         status[m] = "unused", ~AddrLimit(a), ~MustWait(a),
         addr' = [addr EXCEPT ![m] = a],
         present' = present \cup {a},
         Reuse(a),
         Start(m, a),
         accepted' = [accepted EXCEPT ![a] = Append(@, m)],
         status' = [status EXCEPT ![m] = "flight"],
         UNCHANGED <<msg_cache_queue, dispatchVars, handling, blocked, faults>>
  PROVE  IInv'
<1> USE DEF dispatchVars
<1>1. /\ msg_cache_queue \in [Addrs -> Seq(Msgs)] /\ is_waiting_response \in [Addrs -> BOOLEAN]
      /\ accepted \in [Addrs -> Seq(Msgs)] /\ started \in [Addrs -> Seq(Msgs)]
  BY DEF IInv, TypeOK
<1>2. /\ addr'[m] = a /\ status'[m] = "flight"
      /\ \A n \in Msgs \ {m} : addr'[n] = addr[n] /\ status'[n] = status[n]
  BY DEF IInv, TypeOK
<1>3. /\ started'[a] = Append(started[a], m)
      /\ accepted'[a] = Append(accepted[a], m)
      /\ is_waiting_response'[a] = TRUE
      /\ \A b \in Addrs \ {a} : /\ started'[b] = started[b] /\ accepted'[b] = accepted[b]
                                /\ is_waiting_response'[b] = is_waiting_response[b]
  BY <1>1 DEF Start
<1>4. msg_cache_queue[a] = << >> /\ ~is_waiting_response[a]
  BY DEF IInv, CacheInv, MustWait
<1>5. TypeOK'
  <2>1. /\ started' \in [Addrs -> Seq(Msgs)] /\ accepted' \in [Addrs -> Seq(Msgs)]
        /\ is_waiting_response' \in [Addrs -> BOOLEAN]
    BY <1>1, AppendProperties DEF Start
  <2>2. addr' \in [Msgs -> Addrs \cup {None}] /\ status' \in [Msgs -> Statuses] /\ reused' \subseteq Addrs
    BY DEF IInv, TypeOK, Statuses, Reuse
  <2> QED
    BY <2>1, <2>2 DEF IInv, TypeOK
<1>6. FlagInv' /\ CacheInv'
  BY <1>3 DEF IInv, FlagInv, CacheInv
<1>7. InOrder'
  <2>1. Append(started[a], m) \o << >> = Append(started[a] \o << >>, m)
    BY <1>1, OrderFacts
  <2> QED
    BY <1>3, <1>4, <2>1 DEF IInv, InOrder
<1>8. QueueInv'
  <2>1. \A b \in Addrs : \A i \in 1 .. Len(msg_cache_queue[b]) : msg_cache_queue[b][i] \in Msgs \ {m}
    BY <1>1, FreshFacts, ElementOfSeq
  <2> QED
    BY <1>2, <2>1 DEF IInv, QueueInv
<1>9. HandlerInv'
  BY <1>2, FreshFacts DEF IInv, HandlerInv, TypeOK
<1>10. OneOpenRequest'
  <2>1. \A n \in Msgs \ {m} : IsOpen(n)' => IsOpen(n) /\ addr'[n] = addr[n] /\ addr[n] # a
    BY <1>2, <1>4, OpenFacts DEF IsOpen
  <2>2. \A n \in Msgs : IsOpen(n)' =>
           /\ addr'[n] \in present'
           /\ is_waiting_response'[addr'[n]]
           /\ \A o \in Msgs : IsOpen(o)' /\ addr'[o] = addr'[n] => o = n
    BY <1>2, <1>3, <2>1, OpenFacts
  <2> QED
    BY <2>2, OpenFromFacts DEF OneOpenRequest, Open, IsOpen
<1>11. BusyAddrs' \subseteq BusyAddrs \cup {a}
  BY <1>3 DEF BusyAddrs, Busy
<1> QED
  BY <1>5, <1>6, <1>7, <1>8, <1>9, <1>10, <1>11, AdmitStep DEF IInv

\* A request that arrives is refused, queued or sent on.
LEMMA ReceiveStep ==
  ASSUME IInv, NEW m \in Msgs, NEW a \in Addrs, Receive(m, a)
  PROVE  IInv'
<1>1. CASE /\ AddrLimit(a)
           /\ status' = [status EXCEPT ![m] = "rejected"]
           /\ UNCHANGED <<cacheVars, history>>
  BY <1>1, RefuseStep DEF Receive, cacheVars
<1>2. CASE /\ present' = present \cup {a}
           /\ status' = [status EXCEPT ![m] = "rejected"]
           /\ UNCHANGED <<is_waiting_response, msg_cache_queue, history>>
  BY <1>2, RefuseStep DEF Receive
<1>3. CASE /\ ~AddrLimit(a) /\ present' = present \cup {a}
           /\ MustWait(a) /\ ~QueueLimit(a)
           /\ Reuse(a)
           /\ msg_cache_queue' = [msg_cache_queue EXCEPT ![a] = Append(@, m)]
           /\ accepted' = [accepted EXCEPT ![a] = Append(@, m)]
           /\ status' = [status EXCEPT ![m] = "queued"]
           /\ UNCHANGED <<is_waiting_response, started>>
  BY <1>3, QueueStep DEF Receive
<1>4. CASE /\ ~AddrLimit(a) /\ present' = present \cup {a}
           /\ ~MustWait(a)
           /\ Reuse(a)
           /\ Start(m, a)
           /\ accepted' = [accepted EXCEPT ![a] = Append(@, m)]
           /\ status' = [status EXCEPT ![m] = "flight"]
           /\ UNCHANGED msg_cache_queue
  BY <1>4, SendStep DEF Receive
<1> QED
  BY <1>1, <1>2, <1>3, <1>4 DEF Receive

\* The flag is set: the requests behind an address that does not wait are kept back.
LEMMA BeginStep == IInv /\ BeginExclusive => IInv'
<1> SUFFICES ASSUME IInv, BeginExclusive PROVE IInv'
  OBVIOUS
<1> USE DEF BeginExclusive, cacheVars, history
<1>1. TypeOK' /\ FlagInv'
  BY DEF IInv, TypeOK, FlagInv
<1>2. QueueInv' /\ HandlerInv' /\ InOrder'
  <2>1. QueueInv'
    BY DEF IInv, QueueInv
  <2>2. HandlerInv'
    BY DEF IInv, HandlerInv
  <2> QED
    BY <2>1, <2>2 DEF IInv, InOrder
<1>3. CacheInv'
  BY DEF IInv, CacheInv
<1>4. OneOpenRequest' /\ BusyAddrs' = BusyAddrs
  BY DEF IInv, OneOpenRequest, Open, BusyAddrs, Busy
<1> QED
  BY <1>1, <1>2, <1>3, <1>4, LimitStep DEF IInv

\* The flag is cleared and the first request of every queue that it kept back goes out.
LEMMA EndStep == IInv /\ EndExclusive => IInv'
<1> SUFFICES ASSUME IInv, EndExclusive PROVE IInv'
  OBVIOUS
<1> DEFINE Starts == {a \in present : ~is_waiting_response[a] /\ msg_cache_queue[a] # << >>}
           q == msg_cache_queue
           Sent == {Head(q[a]) : a \in Starts}
<1>1. /\ q \in [Addrs -> Seq(Msgs)] /\ is_waiting_response \in [Addrs -> BOOLEAN]
      /\ started \in [Addrs -> Seq(Msgs)] /\ status \in [Msgs -> Statuses]
      /\ Starts \subseteq Addrs /\ present \subseteq Addrs
  BY DEF IInv, TypeOK
<1>2. \A a \in Starts : /\ Head(q[a]) \in Msgs /\ addr[Head(q[a])] = a /\ status[Head(q[a])] = "queued"
                        /\ \A t \in Threads : handling[t] # Head(q[a])
                        /\ Tail(q[a]) \in Seq(Msgs) /\ Len(Tail(q[a])) <= cache_queue_size
  BY <1>1, HeadFacts
<1>3. /\ dispatch' = "recv" /\ metering' = FALSE
      /\ UNCHANGED <<addr, present, accepted, reused, handling, blocked, faults>>
      /\ \A a \in Addrs : is_waiting_response'[a] = (is_waiting_response[a] \/ a \in Starts)
      /\ \A a \in Starts : q'[a] = Tail(q[a]) /\ started'[a] = Append(started[a], Head(q[a]))
      /\ \A a \in Addrs \ Starts : q'[a] = q[a] /\ started'[a] = started[a]
  BY <1>1 DEF EndExclusive
<1>4. /\ \A m \in Sent : status'[m] = "flight"
      /\ \A m \in Msgs \ Sent : status'[m] = status[m]
  BY <1>1, <1>2 DEF EndExclusive
<1>5. TypeOK'
  <2>1. is_waiting_response' \in [Addrs -> BOOLEAN] /\ status' \in [Msgs -> Statuses]
    BY <1>1 DEF EndExclusive, Statuses
  <2>2. q' \in [Addrs -> Seq(Msgs)]
    BY <1>1, <1>2 DEF EndExclusive
  <2>3. started' \in [Addrs -> Seq(Msgs)]
    BY <1>1, <1>2, AppendProperties DEF EndExclusive
  <2>4. \A a \in Addrs : Len(q'[a]) <= cache_queue_size
    BY <1>2, <1>3 DEF IInv, TypeOK
  <2> QED
    BY <1>3, <2>1, <2>2, <2>3, <2>4 DEF IInv, TypeOK
<1>6. FlagInv' /\ CacheInv'
  BY <1>1, <1>3 DEF IInv, FlagInv, CacheInv
<1>7. InOrder'
  <2>1. \A a \in Starts : Append(started[a], Head(q[a])) \o Tail(q[a]) = started[a] \o q[a]
    <3> SUFFICES ASSUME NEW a \in Starts
                 PROVE  Append(started[a], Head(q[a])) \o Tail(q[a]) = started[a] \o q[a]
      OBVIOUS
    <3>1. started[a] \in Seq(Msgs) /\ q[a] \in Seq(Msgs) /\ q[a] # << >> /\ Head(q[a]) \in Msgs
      BY <1>1, <1>2
    <3> HIDE DEF q, Starts
    <3> QED
      BY <3>1, OrderFacts
  <2> QED
    BY <1>3, <2>1 DEF IInv, InOrder
<1>8. QueueInv'
  <2>1. ASSUME NEW a \in Addrs, NEW i \in 1 .. Len(q[a]), a \in Starts => i # 1
        PROVE  q[a][i] \in Msgs \ Sent
    <3>1. q[a][i] \in Msgs /\ addr[q[a][i]] = a
      BY <1>1, <2>1, ElementOfSeq DEF IInv, QueueInv
    <3>2. ASSUME NEW b \in Starts, q[a][i] = Head(q[b])
          PROVE  FALSE
      <4>1. b = a
        BY <1>2, <3>1, <3>2
      <4>2. Head(q[a]) = q[a][1] /\ 1 \in 1 .. Len(q[a])
        BY <1>1, <3>2, <4>1, HeadTailProperties
      <4> QED
        BY <2>1, <3>2, <4>1, <4>2 DEF IInv, QueueInv
    <3> QED
      BY <3>1, <3>2
  <2>2. ASSUME NEW a \in Addrs \ Starts
        PROVE  /\ \A i \in 1 .. Len(q'[a]) : addr'[q'[a][i]] = a /\ status'[q'[a][i]] = "queued"
               /\ \A i, j \in 1 .. Len(q'[a]) : i # j => q'[a][i] # q'[a][j]
    BY <1>3, <1>4, <2>1 DEF IInv, QueueInv
  <2>3. ASSUME NEW a \in Starts
        PROVE  /\ \A i \in 1 .. Len(q'[a]) : addr'[q'[a][i]] = a /\ status'[q'[a][i]] = "queued"
               /\ \A i, j \in 1 .. Len(q'[a]) : i # j => q'[a][i] # q'[a][j]
    <3>1. /\ Len(q[a]) \in Nat /\ Len(q'[a]) = Len(q[a]) - 1
          /\ \A i \in 1 .. Len(q'[a]) : q'[a][i] = q[a][i + 1]
      <4>1. q[a] \in Seq(Msgs) /\ q[a] # << >> /\ q'[a] = Tail(q[a])
        BY <1>1, <1>3
      <4> HIDE DEF q
      <4> QED
        BY <4>1, HeadTailProperties
    <3>2. \A i \in 1 .. Len(q'[a]) : i + 1 \in 1 .. Len(q[a]) /\ i + 1 # 1
      BY <3>1
    <3>3. \A i \in 1 .. Len(q'[a]) : q'[a][i] \in Msgs \ Sent
      BY <1>1, <2>1, <3>1, <3>2
    <3>4. /\ \A i \in 1 .. Len(q[a]) : addr[q[a][i]] = a /\ status[q[a][i]] = "queued"
          /\ \A i, j \in 1 .. Len(q[a]) : i # j => q[a][i] # q[a][j]
      BY <1>1 DEF IInv, QueueInv
    <3> HIDE DEF q, Starts, Sent
    <3>5. ASSUME NEW i \in 1 .. Len(q'[a])
          PROVE  addr'[q'[a][i]] = a /\ status'[q'[a][i]] = "queued"
      <4>1. i + 1 \in 1 .. Len(q[a]) /\ q'[a][i] = q[a][i + 1]
        BY <3>1, <3>2
      <4>2. addr[q'[a][i]] = a /\ status[q'[a][i]] = "queued"
        BY <3>4, <4>1
      <4>3. q'[a][i] \in Msgs \ Sent
        BY <3>3
      <4> QED
        BY <1>3, <1>4, <4>2, <4>3
    <3>6. ASSUME NEW i \in 1 .. Len(q'[a]), NEW j \in 1 .. Len(q'[a]), i # j
          PROVE  q'[a][i] # q'[a][j]
      <4>1. /\ i + 1 \in 1 .. Len(q[a]) /\ q'[a][i] = q[a][i + 1]
            /\ j + 1 \in 1 .. Len(q[a]) /\ q'[a][j] = q[a][j + 1]
        BY <3>1, <3>2
      <4>2. i + 1 # j + 1
        BY <3>6
      <4> QED
        BY <3>4, <4>1, <4>2
    <3> QED
      BY <3>5, <3>6
  <2> QED
    BY <2>2, <2>3 DEF QueueInv
<1>9. HandlerInv'
  <2>1. \A m \in Sent : m \in Msgs /\ addr[m] \in Addrs /\ \A t \in Threads : handling[t] # m
    BY <1>1, <1>2
  <2> QED
    BY <1>3, <1>4, <2>1 DEF IInv, HandlerInv, TypeOK
<1>10. OneOpenRequest'
  <2>1. \A n \in Msgs : IsOpen(n)' => IsOpen(n) \/ n \in Sent
    BY <1>3, <1>4 DEF IsOpen
  <2>2. \A n \in Msgs : IsOpen(n) => addr[n] \in Addrs /\ addr[n] \in present /\ is_waiting_response[addr[n]] /\ addr[n] \notin Starts
    BY OpenFacts
  <2>3. \A n \in Sent : addr[n] \in Starts /\ n = Head(q[addr[n]])
    BY <1>2
  <2>4. ASSUME NEW n \in Msgs, IsOpen(n)'
        PROVE  /\ addr'[n] \in present'
               /\ is_waiting_response'[addr'[n]]
               /\ \A o \in Msgs : IsOpen(o)' /\ addr'[o] = addr'[n] => o = n
    <3>1. Starts \subseteq present
      OBVIOUS
    <3> HIDE DEF q, Starts, Sent
    <3>2. CASE IsOpen(n)
      <4>1. \A o \in Msgs : IsOpen(o)' /\ addr[o] = addr[n] => o = n
        BY <2>1, <2>2, <2>3, <3>2, OpenFacts
      <4> QED
        BY <1>3, <2>2, <3>2, <4>1
    <3>3. CASE n \in Sent
      <4>1. \A o \in Msgs : IsOpen(o)' /\ addr[o] = addr[n] => o = n
        BY <2>1, <2>2, <2>3, <3>3
      <4> QED
        BY <1>1, <1>3, <2>3, <3>1, <3>3, <4>1
    <3> QED
      BY <2>1, <2>4, <3>2, <3>3
  <2> QED
    BY <2>4, OpenFromFacts DEF OneOpenRequest, Open, IsOpen
<1>11. BusyAddrs' \subseteq BusyAddrs
  BY <1>1, <1>3 DEF BusyAddrs, Busy
<1> QED
  BY <1>3, <1>5, <1>6, <1>7, <1>8, <1>9, <1>10, <1>11, LimitStep DEF IInv

----------------------------------------------------------------------------
(* The steps of the handlers, the faults and the aging timer. *)

\* A request leaves the UART agent: reported on by a handler that had none, or lost.
LEMMA LeaveStep ==
  ASSUME IInv, NEW m \in Msgs, status[m] = "flight",
         NEW s \in {"reported", "badBody", "lost"}, status' = [status EXCEPT ![m] = s],
         \/ handling' = handling
         \/ /\ s = "reported"
            /\ \E t \in Threads : handling[t] = None /\ handling' = [handling EXCEPT ![t] = m],
         faults' \in 0 .. MaxFaults,
         UNCHANGED <<addr, cacheVars, history, dispatchVars, blocked>>
  PROVE  IInv'
<1> USE DEF cacheVars, history, dispatchVars
<1>1. TypeOK'
  BY DEF IInv, TypeOK, Statuses
<1>2. status'[m] = s /\ \A n \in Msgs \ {m} : status'[n] = status[n]
  BY DEF IInv, TypeOK
<1>3. FlagInv' /\ CacheInv' /\ InOrder'
  BY DEF IInv, FlagInv, CacheInv, InOrder
<1>4. QueueInv'
  <2>1. \A b \in Addrs : \A i \in 1 .. Len(msg_cache_queue[b]) : msg_cache_queue[b][i] \in Msgs \ {m}
    BY ElementOfSeq DEF IInv, TypeOK, QueueInv
  <2> QED
    BY <1>2, <2>1 DEF IInv, QueueInv
<1>5. \A t \in Threads : handling[t] # m
  BY NoneAssumption DEF IInv, HandlerInv
<1>6. \A t \in Threads : handling'[t] # handling[t] => s = "reported" /\ handling'[t] = m /\ handling[t] = None
  BY DEF IInv, TypeOK
<1>7. \A t, u \in Threads : handling'[t] = m /\ handling'[u] = m => t = u
  BY <1>5 DEF IInv, TypeOK
<1>8. HandlerInv'
  <2>1. \A t \in Threads : handling'[t] # None => status'[handling'[t]] = "reported"
    BY <1>2, <1>5, <1>6 DEF IInv, HandlerInv, TypeOK
  <2>2. \A t, u \in Threads : handling'[t] = handling'[u] /\ handling'[t] # None => t = u
    BY <1>5, <1>6, <1>7 DEF IInv, HandlerInv, TypeOK
  <2> QED
    BY <1>2, <2>1, <2>2 DEF IInv, HandlerInv, TypeOK
<1>9. OneOpenRequest'
  <2>1. \A n \in Msgs : IsOpen(n)' => IsOpen(n)
    BY <1>2, <1>6 DEF IsOpen
  <2>2. \A n \in Msgs : IsOpen(n)' =>
           /\ addr'[n] \in present'
           /\ is_waiting_response'[addr'[n]]
           /\ \A o \in Msgs : IsOpen(o)' /\ addr'[o] = addr'[n] => o = n
    BY <2>1, OpenFacts
  <2> QED
    BY <2>2, OpenFromFacts DEF OneOpenRequest, Open, IsOpen
<1>10. BusyAddrs' = BusyAddrs
  BY DEF BusyAddrs, Busy
<1> QED
  BY <1>1, <1>3, <1>4, <1>8, <1>9, <1>10, LimitStep DEF IInv

\* A handler that reported takes the lock: the next request of the address goes out in the
\* place of its own, or the address stops waiting.
LEMMA NextRequestStep ==
  ASSUME IInv, NEW t \in Threads, NextRequest(t)
  PROVE  IInv'
<1> DEFINE h == handling[t]
           a == addr[h]
           q == msg_cache_queue
<1>1. /\ handling \in [Threads -> Msgs \cup {None}] /\ status \in [Msgs -> Statuses]
      /\ q \in [Addrs -> Seq(Msgs)] /\ started \in [Addrs -> Seq(Msgs)]
      /\ is_waiting_response \in [Addrs -> BOOLEAN]
  BY DEF IInv, TypeOK
<1>2. h \in Msgs /\ IsOpen(h)
  BY <1>1 DEF NextRequest, IsOpen
<1>3. /\ a \in Addrs /\ a \in present /\ is_waiting_response[a]
      /\ \A n \in Msgs : IsOpen(n) /\ addr[n] = a => n = h
  BY <1>2, OpenFacts
<1>4. /\ handling' = [handling EXCEPT ![t] = None]
      /\ UNCHANGED <<addr, present, accepted, metering, dispatch, blocked, faults>>
  BY DEF NextRequest, dispatchVars
<1>5. handling'[t] = None /\ \A u \in Threads \ {t} : handling'[u] = handling[u] /\ handling[u] # h
  BY <1>1, <1>2, <1>4, NoneAssumption DEF IInv, HandlerInv
<1>6. status[h] = "reported"
  BY <1>2, NoneAssumption DEF IInv, HandlerInv
<1> HIDE DEF h, a, q
<1>7. CASE /\ q[a] # << >>
           /\ Start(Head(q[a]), a)
           /\ q' = [q EXCEPT ![a] = Tail(@)]
           /\ status' = [status EXCEPT ![Head(q[a])] = "flight"]
           /\ UNCHANGED reused
  <2> DEFINE n == Head(q[a])
  <2>1. /\ n \in Msgs /\ addr[n] = a /\ status[n] = "queued"
        /\ \A u \in Threads : handling[u] # n
        /\ Tail(q[a]) \in Seq(Msgs) /\ Len(Tail(q[a])) <= cache_queue_size
    BY <1>3, <1>7, HeadFacts DEF q
  <2>2. /\ Head(q[a]) = q[a][1] /\ Len(q[a]) \in Nat \ {0} /\ Len(Tail(q[a])) = Len(q[a]) - 1
        /\ \A i \in 1 .. Len(Tail(q[a])) : Tail(q[a])[i] = q[a][i + 1]
    BY <1>1, <1>3, <1>7, HeadTailProperties
  <2> HIDE DEF n
  <2>3. /\ q'[a] = Tail(q[a]) /\ started'[a] = Append(started[a], n) /\ is_waiting_response'[a] = TRUE
        /\ \A b \in Addrs \ {a} : /\ q'[b] = q[b] /\ started'[b] = started[b]
                                  /\ is_waiting_response'[b] = is_waiting_response[b]
        /\ status'[n] = "flight" /\ \A m \in Msgs \ {n} : status'[m] = status[m]
    BY <1>1, <1>3, <1>7, <2>1 DEF Start, n
  <2>4. TypeOK'
    <3>1. q' \in [Addrs -> Seq(Msgs)]
      BY <1>1, <1>7, <2>1
    <3>2. started' \in [Addrs -> Seq(Msgs)] /\ is_waiting_response' \in [Addrs -> BOOLEAN]
      BY <1>1, <1>3, <1>7, <2>1, AppendProperties DEF Start, n
    <3>3. status' \in [Msgs -> Statuses]
      BY <1>1, <1>7, <2>1 DEF n, Statuses
    <3>4. \A b \in Addrs : Len(q'[b]) <= cache_queue_size
      BY <2>1, <2>3 DEF IInv, TypeOK, q
    <3>5. handling' \in [Threads -> Msgs \cup {None}]
      BY <1>1, <1>4
    <3> QED
      BY <1>4, <1>7, <3>1, <3>2, <3>3, <3>4, <3>5 DEF IInv, TypeOK, q
  <2>5. FlagInv' /\ CacheInv'
    BY <1>3, <1>4, <2>3 DEF IInv, FlagInv, CacheInv, q
  <2>6. InOrder'
    <3>1. Append(started[a], n) \o Tail(q[a]) = started[a] \o q[a]
      BY <1>1, <1>3, <1>7, <2>1, OrderFacts DEF n
    <3> QED
      BY <1>3, <1>4, <2>3, <3>1 DEF IInv, InOrder, q
  <2>7. QueueInv'
    <3>1. \A b \in Addrs : \A i \in 1 .. Len(q[b]) :
             q[b][i] \in Msgs /\ addr[q[b][i]] = b /\ status[q[b][i]] = "queued"
      BY <1>1, ElementOfSeq DEF IInv, QueueInv, q
    <3>2. ASSUME NEW b \in Addrs \ {a}
          PROVE  /\ \A i \in 1 .. Len(q'[b]) : addr'[q'[b][i]] = b /\ status'[q'[b][i]] = "queued"
                 /\ \A i, j \in 1 .. Len(q'[b]) : i # j => q'[b][i] # q'[b][j]
      <4>1. \A i \in 1 .. Len(q[b]) : q[b][i] # n
        BY <2>1, <3>1
      <4>2. \A i, j \in 1 .. Len(q[b]) : i # j => q[b][i] # q[b][j]
        BY DEF IInv, QueueInv, q
      <4>3. q'[b] = q[b] /\ addr' = addr
        BY <1>4, <2>3
      <4>4. \A i \in 1 .. Len(q[b]) : addr[q[b][i]] = b /\ status'[q[b][i]] = "queued"
        BY <2>3, <3>1, <4>1
      <4> QED
        BY <4>2, <4>3, <4>4
    <3>3. \A i \in 1 .. Len(q'[a]) : i + 1 \in 1 .. Len(q[a]) /\ q'[a][i] = q[a][i + 1]
      BY <2>2, <2>3
    <3>4. \A i, j \in 1 .. Len(q[a]) : i # j => q[a][i] # q[a][j]
      BY <1>3 DEF IInv, QueueInv, q
    <3>5. \A i \in 1 .. Len(q'[a]) : q'[a][i] # n
      BY <2>2, <3>3, <3>4 DEF n
    <3>6. \A i \in 1 .. Len(q'[a]) : addr'[q'[a][i]] = a /\ status'[q'[a][i]] = "queued"
      BY <1>3, <1>4, <2>3, <3>1, <3>3, <3>5
    <3>7. \A i, j \in 1 .. Len(q'[a]) : i # j => q'[a][i] # q'[a][j]
      BY <3>3, <3>4
    <3> QED
      BY <3>2, <3>6, <3>7 DEF QueueInv, q
  <2>8. HandlerInv'
    <3>1. \A u \in Threads : handling'[u] # None => handling'[u] = handling[u] /\ handling[u] # n /\ handling[u] \in Msgs
      BY <1>1, <1>5, <2>1
    <3>2. \A m \in Msgs : status'[m] # "unused" => addr'[m] \in Addrs
      BY <1>3, <1>4, <2>1, <2>3 DEF IInv, HandlerInv
    <3>3. \A u \in Threads : handling'[u] # None => status'[handling'[u]] = "reported"
      BY <2>3, <3>1 DEF IInv, HandlerInv
    <3> QED
      BY <3>1, <3>2, <3>3 DEF IInv, HandlerInv
  <2>9. OneOpenRequest'
    <3>1. \A m \in Msgs \ {n} : IsOpen(m)' => IsOpen(m) /\ m # h
      BY <1>2, <1>5, <1>6, <2>3, NoneAssumption DEF IsOpen
    <3>2. \A m \in Msgs \ {n} : IsOpen(m)' => addr[m] \in Addrs \ {a}
      BY <1>3, <3>1, OpenFacts
    <3>3. ASSUME NEW m \in Msgs, IsOpen(m)'
          PROVE  /\ addr'[m] \in present'
                 /\ is_waiting_response'[addr'[m]]
                 /\ \A o \in Msgs : IsOpen(o)' /\ addr'[o] = addr'[m] => o = m
      <4>1. CASE m = n
        BY <1>3, <1>4, <2>1, <2>3, <3>2, <4>1
      <4>2. CASE m # n
        BY <1>4, <2>1, <2>3, <3>1, <3>2, <3>3, <4>2, OpenFacts
      <4> QED
        BY <4>1, <4>2
    <3> QED
      BY <3>3, OpenFromFacts DEF OneOpenRequest, Open, IsOpen
  <2>10. BusyAddrs' \subseteq BusyAddrs
    BY <1>3, <1>4, <2>3 DEF BusyAddrs, Busy, q
  <2> QED
    BY <1>7, <2>4, <2>5, <2>6, <2>7, <2>8, <2>9, <2>10, LimitStep DEF IInv
<1>8. CASE /\ q[a] = << >>
           /\ is_waiting_response' = [is_waiting_response EXCEPT ![a] = FALSE]
           /\ reused' = reused \ {a}
           /\ UNCHANGED <<msg_cache_queue, started, status>>
  <2>1. /\ is_waiting_response'[a] = FALSE
        /\ \A b \in Addrs \ {a} : is_waiting_response'[b] = is_waiting_response[b]
    BY <1>1, <1>3, <1>8
  <2>2. TypeOK'
    <3>1. is_waiting_response' \in [Addrs -> BOOLEAN] /\ handling' \in [Threads -> Msgs \cup {None}]
      BY <1>1, <1>4, <1>8
    <3> QED
      BY <1>4, <1>8, <3>1 DEF IInv, TypeOK
  <2>3. FlagInv' /\ CacheInv' /\ InOrder' /\ QueueInv'
    <3>1. FlagInv' /\ InOrder'
      BY <1>4, <1>8 DEF IInv, FlagInv, InOrder
    <3>2. CacheInv'
      BY <1>3, <1>4, <1>8, <2>1 DEF IInv, CacheInv, q
    <3>3. QueueInv'
      BY <1>4, <1>8 DEF IInv, QueueInv
    <3> QED
      BY <3>1, <3>2, <3>3
  <2>4. HandlerInv'
    <3>1. \A u \in Threads : handling'[u] # None => handling'[u] = handling[u]
      BY <1>5
    <3> QED
      BY <1>4, <1>8, <3>1 DEF IInv, HandlerInv
  <2>5. OneOpenRequest'
    <3>1. \A m \in Msgs : IsOpen(m)' => IsOpen(m) /\ m # h
      BY <1>2, <1>5, <1>6, <1>8, NoneAssumption DEF IsOpen
    <3>2. \A m \in Msgs : IsOpen(m)' => addr[m] \in Addrs \ {a}
      BY <1>3, <3>1, OpenFacts
    <3>3. \A m \in Msgs : IsOpen(m)' =>
             /\ addr'[m] \in present'
             /\ is_waiting_response'[addr'[m]]
             /\ \A o \in Msgs : IsOpen(o)' /\ addr'[o] = addr'[m] => o = m
      BY <1>4, <2>1, <3>1, <3>2, OpenFacts
    <3> QED
      BY <3>3, OpenFromFacts DEF OneOpenRequest, Open, IsOpen
  <2>6. BusyAddrs' \subseteq BusyAddrs \ {a}
    BY <1>3, <1>4, <1>8, <2>1 DEF BusyAddrs, Busy, q
  <2> QED
    BY <1>8, <2>2, <2>3, <2>4, <2>5, <2>6, LimitStep DEF IInv
<1> QED
  BY <1>7, <1>8 DEF NextRequest, h, a, q

\* The timer drops idle caches: nothing that is queued or open is in them.
LEMMA AgeStep == IInv /\ Age => IInv'
<1> SUFFICES ASSUME IInv, Age PROVE IInv'
  OBVIOUS
<1> USE DEF history, dispatchVars
<1>1. PICK S \in SUBSET {a \in present : MayAge(a)} \ {{}} :
        /\ present' = present \ S
        /\ is_waiting_response' = [a \in Addrs |-> is_waiting_response[a] /\ a \notin S]
        /\ msg_cache_queue' = [a \in Addrs |-> IF a \in S THEN << >> ELSE msg_cache_queue[a]]
  BY DEF Age
<1>2. UNCHANGED <<addr, status, history, dispatchVars, handling, blocked, faults>>
  BY DEF Age
<1>3. S \subseteq present /\ present \subseteq Addrs
      /\ \A a \in S : ~is_waiting_response[a] /\ msg_cache_queue[a] = << >>
  BY <1>1 DEF MayAge, IInv, TypeOK
<1>4. \A a \in Addrs : msg_cache_queue'[a] = msg_cache_queue[a] /\ is_waiting_response'[a] = is_waiting_response[a]
  BY <1>1, <1>3 DEF IInv, TypeOK
<1>5. msg_cache_queue' = msg_cache_queue /\ is_waiting_response' = is_waiting_response
  BY <1>1, <1>4 DEF IInv, TypeOK
<1>6. TypeOK' /\ FlagInv' /\ QueueInv' /\ HandlerInv' /\ InOrder'
  BY <1>1, <1>2, <1>5 DEF IInv, TypeOK, FlagInv, QueueInv, HandlerInv, InOrder
<1>7. CacheInv'
  BY <1>1, <1>2, <1>3, <1>5 DEF IInv, CacheInv
<1>8. OneOpenRequest'
  BY <1>1, <1>2, <1>3, <1>5 DEF IInv, OneOpenRequest, Open
<1>9. BusyAddrs' \subseteq BusyAddrs
  BY <1>1, <1>5 DEF BusyAddrs, Busy
<1> QED
  BY <1>2, <1>6, <1>7, <1>8, <1>9, LimitStep DEF IInv

----------------------------------------------------------------------------
(* The theorems. *)

\* The cache is empty at the start.
LEMMA InitInv == Init => IInv
<1> SUFFICES ASSUME Init PROVE IInv
  OBVIOUS
<1>1. TypeOK
  <2>1. /\ addr \in [Msgs -> Addrs \cup {None}] /\ status \in [Msgs -> Statuses]
        /\ is_waiting_response \in [Addrs -> BOOLEAN] /\ handling \in [Threads -> Msgs \cup {None}]
    BY DEF Init, Statuses
  <2>2. /\ msg_cache_queue \in [Addrs -> Seq(Msgs)] /\ accepted \in [Addrs -> Seq(Msgs)]
        /\ started \in [Addrs -> Seq(Msgs)]
    BY EmptySeq DEF Init
  <2>3. \A a \in Addrs : Len(msg_cache_queue[a]) <= cache_queue_size
    BY LimitsAssumption DEF Init
  <2>4. present = {} /\ reused = {} /\ metering = FALSE /\ dispatch = "recv" /\ blocked = FALSE
        /\ faults \in 0 .. MaxFaults
    BY MaxFaultsAssumption DEF Init
  <2> QED
    BY <2>1, <2>2, <2>3, <2>4 DEF TypeOK
<1>2. FlagInv /\ QueueInv /\ CacheInv /\ HandlerInv
  BY DEF Init, FlagInv, QueueInv, CacheInv, HandlerInv
<1>3. OneOpenRequest
  BY NoneAssumption DEF Init, OneOpenRequest, Open
<1>4. InOrder
  BY DEF Init, InOrder
<1>5. BusyAddrs = {} /\ BusyAddrs \ reused = {}
  BY DEF Init, BusyAddrs, Busy
<1>6. IsFiniteSet(BusyAddrs) /\ Cardinality(BusyAddrs \ reused) <= concurrent_addr
  BY <1>5, FS_EmptySet, LimitsAssumption
<1> QED
  BY <1>1, <1>2, <1>3, <1>4, <1>6 DEF IInv, AddressesAreLimited, BusyAddrs

\* Every step of the dispatcher, a handler, a fault or the aging timer keeps the invariant.
LEMMA InvStep == IInv /\ [Next]_vars => IInv'
<1> SUFFICES ASSUME IInv, [Next]_vars PROVE IInv'
  OBVIOUS
<1>1. CASE Dispatcher
  BY <1>1, ReceiveStep, BeginStep, EndStep DEF Dispatcher
<1>2. ASSUME NEW t \in Threads, NEW m \in Msgs, Report(t, m)
      PROVE  IInv'
  BY <1>2, LeaveStep DEF Report, IInv, TypeOK
<1>3. ASSUME NEW t \in Threads, NextRequest(t)
      PROVE  IInv'
  BY <1>3, NextRequestStep
<1>4. ASSUME NEW m \in Msgs, BadBody(m) \/ Lose(m)
      PROVE  IInv'
  <2>1. faults' \in 0 .. MaxFaults
    BY <1>4, MaxFaultsAssumption DEF BadBody, Lose, IInv, TypeOK
  <2>2. CASE BadBody(m)
    BY <2>1, <2>2, LeaveStep DEF BadBody
  <2>3. CASE Lose(m)
    BY <2>1, <2>3, LeaveStep DEF Lose
  <2> QED
    BY <1>4, <2>2, <2>3
<1>5. CASE Age
  BY <1>5, AgeStep
<1>6. CASE TimerBlocks \/ UNCHANGED vars
  <2>0. /\ UNCHANGED <<addr, status, cacheVars, history, dispatchVars, handling, faults>>
        /\ blocked' \in BOOLEAN
    BY <1>6 DEF TimerBlocks, vars, IInv, TypeOK
  <2>1. TypeOK' /\ FlagInv' /\ QueueInv' /\ CacheInv' /\ HandlerInv' /\ OneOpenRequest' /\ InOrder'
    BY <2>0 DEF cacheVars, history, dispatchVars, IInv, TypeOK, FlagInv, QueueInv, CacheInv,
       HandlerInv, OneOpenRequest, Open, InOrder
  <2>2. BusyAddrs' = BusyAddrs /\ reused' = reused
    BY <2>0 DEF cacheVars, history, BusyAddrs, Busy
  <2> QED
    BY <2>1, <2>2, LimitStep DEF IInv
<1> QED
  BY <1>1, <1>2, <1>3, <1>4, <1>5, <1>6 DEF Next, Handler, Faulty

\* The inductive invariant holds of every behaviour.
THEOREM Invariance == Spec => []IInv
  BY InitInv, InvStep, PTL DEF Spec

\* The cache keeps its types, and no queue exceeds cache_queue_size.
THEOREM TypeCorrect == Spec => []TypeOK
<1>1. IInv => TypeOK
  BY DEF IInv
<1> QED
  BY <1>1, Invariance, PTL

\* For an address the module has one request at a time, whatever the interleaving of the
\* dispatcher, the two handler threads and the aging timer.
THEOREM OneAtATime == Spec => []OneOpenRequest
<1>1. IInv => OneOpenRequest
  BY DEF IInv
<1> QED
  BY <1>1, Invariance, PTL

\* Accepted requests go out in the order they came, each once.
THEOREM SentInOrder == Spec => []InOrder
<1>1. IInv => InOrder
  BY DEF IInv
<1> QED
  BY <1>1, Invariance, PTL

\* concurrent_addr limits the addresses at work but for those that reuse an idle cache.
THEOREM LimitKept == Spec => []AddressesAreLimited
<1>1. IInv => AddressesAreLimited
  BY DEF IInv
<1> QED
  BY <1>1, Invariance, PTL

----------------------------------------------------------------------------
(* Nobody waits for nothing: the safety part of AcceptedAreReported. *)

Holds(q, x) == \E i \in 1 .. Len(q) : q[i] = x

\* A request for a was lost or badly answered.
Faulted(a) == \E n \in Msgs : addr[n] = a /\ status[n] \in {"badBody", "lost"}

\* A request that is queued is in the queue of its address.
Kept == \A m \in Msgs : status[m] = "queued" => Holds(msg_cache_queue[addr[m]], m)

\* An address that waits has an open request whose end wakes it, or lost it to a fault.
Awaited ==
  \A a \in Addrs :
    is_waiting_response[a] => (\E m \in Msgs : addr[m] = a /\ IsOpen(m)) \/ Faulted(a)

\* A request that is queued is in its queue, and somebody will come for it: the handler of
\* the open request for its address, or the dispatcher that holds the metering flag; unless
\* a request for that address was lost or badly answered.
QueuedAreServed ==
  \A m \in Msgs :
    status[m] = "queued" =>
      /\ addr[m] \in present
      /\ Holds(msg_cache_queue[addr[m]], m)
      /\ metering \/ Open(addr[m]) # {} \/ Faulted(addr[m])

\* What joins a queue is in it, and so is what was in it before.
LEMMA HoldsAppend ==
  ASSUME NEW S, NEW q \in Seq(S), NEW x \in S
  PROVE  /\ Holds(Append(q, x), x)
         /\ \A y : Holds(q, y) => Holds(Append(q, x), y)
<1>1. /\ Len(Append(q, x)) = Len(q) + 1 /\ Len(q) \in Nat
      /\ Append(q, x)[Len(q) + 1] = x
      /\ \A i \in 1 .. Len(q) : Append(q, x)[i] = q[i]
  BY AppendProperties, LenProperties
<1>2. Len(q) + 1 \in 1 .. Len(Append(q, x)) /\ 1 .. Len(q) \subseteq 1 .. Len(Append(q, x))
  BY <1>1
<1> QED
  BY <1>1, <1>2 DEF Holds

\* What leaves a queue is its head.
LEMMA HoldsTail ==
  ASSUME NEW S, NEW q \in Seq(S), q # << >>, NEW x, x # Head(q), Holds(q, x)
  PROVE  Holds(Tail(q), x)
<1>1. PICK i \in 1 .. Len(q) : q[i] = x
  BY DEF Holds
<1>2. /\ Len(q) \in Nat /\ Head(q) = q[1] /\ Len(Tail(q)) = Len(q) - 1
      /\ \A j \in 1 .. Len(Tail(q)) : Tail(q)[j] = q[j + 1]
  BY HeadTailProperties, LenProperties
<1>3. i - 1 \in 1 .. Len(Tail(q)) /\ (i - 1) + 1 = i
  BY <1>1, <1>2
<1>4. Tail(q)[i - 1] = x
  BY <1>1, <1>2, <1>3
<1> QED
  BY <1>3, <1>4 DEF Holds

\* A request that is received was neither open nor the cause of a fault.
LEMMA ReceiveKeeps ==
  ASSUME IInv, Kept, Awaited, NEW m \in Msgs, NEW a \in Addrs, Receive(m, a)
  PROVE  Kept' /\ Awaited'
<1>1. /\ addr \in [Msgs -> Addrs \cup {None}] /\ status \in [Msgs -> Statuses]
      /\ is_waiting_response \in [Addrs -> BOOLEAN] /\ msg_cache_queue \in [Addrs -> Seq(Msgs)]
  BY DEF IInv, TypeOK
<1>2. /\ status[m] = "unused" /\ addr' = [addr EXCEPT ![m] = a] /\ handling' = handling
      /\ \E s \in {"rejected", "queued", "flight"} : status' = [status EXCEPT ![m] = s]
  BY DEF Receive
<1>3. /\ addr'[m] = a
      /\ \A n \in Msgs \ {m} : addr'[n] = addr[n] /\ status'[n] = status[n]
  BY <1>1, <1>2
<1>4. ~IsOpen(m)
  BY <1>2, FreshFacts
<1>5. \A n \in Msgs : IsOpen(n) => n # m /\ IsOpen(n)' /\ addr'[n] = addr[n]
  BY <1>2, <1>3, <1>4 DEF IsOpen
<1>6. \A n \in Msgs : status[n] \in {"badBody", "lost"} => n # m /\ status'[n] = status[n] /\ addr'[n] = addr[n]
  BY <1>2, <1>3
<1>7. \A n \in Msgs \ {m} : status'[n] = "queued" => addr[n] \in Addrs /\ Holds(msg_cache_queue[addr[n]], n)
  BY <1>3 DEF Kept, IInv, HandlerInv
<1>8. CASE is_waiting_response' = is_waiting_response
  <2>1. Awaited'
    BY <1>5, <1>6, <1>8 DEF Awaited, Faulted
  <2>2. CASE status'[m] # "queued" /\ msg_cache_queue' = msg_cache_queue
    BY <1>3, <1>7, <2>1, <2>2 DEF Kept
  <2>3. CASE msg_cache_queue' = [msg_cache_queue EXCEPT ![a] = Append(@, m)]
    <3>1. \A b \in Addrs : msg_cache_queue'[b] = IF b = a THEN Append(msg_cache_queue[a], m) ELSE msg_cache_queue[b]
      BY <1>1, <2>3
    <3>2. /\ Holds(msg_cache_queue'[a], m)
          /\ \A n \in Msgs : Holds(msg_cache_queue[a], n) => Holds(msg_cache_queue'[a], n)
      BY <1>1, <3>1, HoldsAppend
    <3> QED
      BY <1>3, <1>7, <2>1, <3>1, <3>2 DEF Kept
  <2>4. \/ status'[m] # "queued" /\ msg_cache_queue' = msg_cache_queue
        \/ msg_cache_queue' = [msg_cache_queue EXCEPT ![a] = Append(@, m)]
    BY <1>1, <1>8 DEF Receive, Start, cacheVars
  <2> QED
    BY <2>2, <2>3, <2>4
<1>9. CASE Start(m, a) /\ status' = [status EXCEPT ![m] = "flight"] /\ UNCHANGED msg_cache_queue
  <2>1. status'[m] = "flight" /\ IsOpen(m)'
    BY <1>1, <1>9 DEF IsOpen
  <2>2. \A b \in Addrs \ {a} : is_waiting_response'[b] = is_waiting_response[b]
    BY <1>1, <1>9 DEF Start
  <2>3. Awaited'
    BY <1>3, <1>5, <1>6, <2>1, <2>2 DEF Awaited, Faulted
  <2> QED
    BY <1>3, <1>7, <1>9, <2>1, <2>3 DEF Kept
<1> QED
  BY <1>8, <1>9 DEF Receive, cacheVars

\* The dispatcher that clears the flag starts the first request of every queue that was
\* kept back: that address has an open request again.
LEMMA EndKeeps ==
  ASSUME IInv, Kept, Awaited, EndExclusive
  PROVE  Kept' /\ Awaited'
<1> DEFINE q == msg_cache_queue
           Starts == {a \in present : ~is_waiting_response[a] /\ q[a] # << >>}
<1>1. /\ is_waiting_response' = [a \in Addrs |-> is_waiting_response[a] \/ a \in Starts]
      /\ q' = [a \in Addrs |-> IF a \in Starts THEN Tail(q[a]) ELSE q[a]]
      /\ status' = [m \in Msgs |-> IF \E a \in Starts : m = Head(q[a]) THEN "flight" ELSE status[m]]
      /\ UNCHANGED <<addr, handling>>
  BY DEF EndExclusive
<1>2. q \in [Addrs -> Seq(Msgs)] /\ present \subseteq Addrs
  BY DEF IInv, TypeOK
<1>3. \A a \in Starts : /\ a \in Addrs /\ q[a] # << >>
                        /\ Head(q[a]) \in Msgs /\ addr[Head(q[a])] = a /\ status[Head(q[a])] = "queued"
  BY <1>2, HeadFacts
<1>4. \A m \in Msgs : status[m] # "queued" => status'[m] = status[m]
  BY <1>1, <1>3
<1>5. \A m \in Msgs : IsOpen(m) => IsOpen(m)'
  BY <1>1, <1>4 DEF IsOpen
<1>6. \A a \in Starts : \A m \in Msgs : m = Head(q[a]) => IsOpen(m)'
  BY <1>1, <1>3 DEF IsOpen
<1>7. ASSUME NEW a \in Addrs, is_waiting_response'[a]
      PROVE  (\E m \in Msgs : addr'[m] = a /\ IsOpen(m)') \/ Faulted(a)'
  <2>1. CASE a \in Starts
    BY <1>1, <1>3, <1>6, <2>1
  <2>2. CASE a \notin Starts
    <3>1. is_waiting_response[a]
      BY <1>1, <1>7, <2>2
    <3>2. CASE \E m \in Msgs : addr[m] = a /\ IsOpen(m)
      BY <1>1, <1>5, <3>2
    <3>3. CASE Faulted(a)
      BY <1>1, <1>4, <3>3 DEF Faulted
    <3> QED
      BY <3>1, <3>2, <3>3 DEF Awaited
  <2> QED
    BY <2>1, <2>2
<1>8. ASSUME NEW m \in Msgs, status'[m] = "queued"
      PROVE  Holds(q'[addr'[m]], m)
  <2>1. status[m] = "queued" /\ \A a \in Starts : m # Head(q[a])
    BY <1>1, <1>8
  <2>2. addr[m] \in Addrs /\ Holds(q[addr[m]], m)
    BY <2>1 DEF IInv, HandlerInv, Kept
  <2>3. CASE addr[m] \in Starts
    <3>1. q[addr[m]] \in Seq(Msgs) /\ q[addr[m]] # << >> /\ m # Head(q[addr[m]])
      BY <1>2, <1>3, <2>1, <2>2, <2>3
    <3>2. Holds(Tail(q[addr[m]]), m)
      BY <2>2, <3>1, HoldsTail
    <3> QED
      BY <1>1, <2>2, <2>3, <3>2
  <2>4. CASE addr[m] \notin Starts
    BY <1>1, <2>2, <2>4
  <2> QED
    BY <2>3, <2>4
<1> QED
  BY <1>7, <1>8 DEF Kept, Awaited

\* A request that leaves the UART agent is in its handler's hand or a fault of its address.
LEMMA LeaveKeeps ==
  ASSUME IInv, Kept, Awaited, NEW m \in Msgs,
         (\E t \in Threads : Report(t, m)) \/ BadBody(m) \/ Lose(m)
  PROVE  Kept' /\ Awaited'
<1>1. /\ status[m] = "flight" /\ UNCHANGED <<addr, is_waiting_response, msg_cache_queue>>
      /\ \/ /\ status' = [status EXCEPT ![m] = "reported"]
            /\ \E t \in Threads : handling[t] = None /\ handling' = [handling EXCEPT ![t] = m]
         \/ /\ \E s \in {"badBody", "lost"} : status' = [status EXCEPT ![m] = s]
            /\ UNCHANGED handling
  BY DEF Report, BadBody, Lose, cacheVars
<1>2. status \in [Msgs -> Statuses] /\ handling \in [Threads -> Msgs \cup {None}]
  BY DEF IInv, TypeOK
<1>3. \A n \in Msgs \ {m} : status'[n] = status[n]
  BY <1>1, <1>2
<1>4. status'[m] \in {"reported", "badBody", "lost"}
  BY <1>1, <1>2
<1>5. \A n \in Msgs \ {m} : IsOpen(n) => IsOpen(n)'
  BY <1>1, <1>2, <1>3, NoneAssumption DEF IsOpen
<1>6. IsOpen(m)' \/ status'[m] \in {"badBody", "lost"}
  BY <1>1, <1>2 DEF IsOpen
<1>7. Kept'
  BY <1>1, <1>3, <1>4 DEF Kept
<1>8. ASSUME NEW a \in Addrs, is_waiting_response'[a]
      PROVE  (\E n \in Msgs : addr'[n] = a /\ IsOpen(n)') \/ Faulted(a)'
  <2>1. CASE \E n \in Msgs : addr[n] = a /\ IsOpen(n)
    BY <1>1, <1>5, <1>6, <2>1 DEF Faulted
  <2>2. CASE Faulted(a)
    BY <1>1, <1>3, <2>2 DEF Faulted
  <2> QED
    BY <1>1, <1>8, <2>1, <2>2 DEF Awaited
<1> QED
  BY <1>7, <1>8 DEF Awaited

\* A handler that takes the lock leaves the address with the next request open, or no
\* longer waiting.
LEMMA NextRequestKeeps ==
  ASSUME IInv, Kept, Awaited, NEW t \in Threads, NextRequest(t)
  PROVE  Kept' /\ Awaited'
<1> DEFINE q == msg_cache_queue
           a == addr[handling[t]]
<1>1. /\ status \in [Msgs -> Statuses] /\ handling \in [Threads -> Msgs \cup {None}]
      /\ q \in [Addrs -> Seq(Msgs)] /\ is_waiting_response \in [Addrs -> BOOLEAN]
  BY DEF IInv, TypeOK
<1>2. handling[t] \in Msgs /\ IsOpen(handling[t])
  BY <1>1 DEF NextRequest, IsOpen
<1>3. a \in Addrs
  BY <1>2, OpenFacts
<1>4. handling' = [handling EXCEPT ![t] = None] /\ addr' = addr
  BY DEF NextRequest
<1>5. \A b \in Addrs \ {a} : q'[b] = q[b] /\ is_waiting_response'[b] = is_waiting_response[b]
  BY <1>1 DEF NextRequest, Start
<1>6. CASE q[a] # << >>
  <2>1. PICK n \in Msgs : n = Head(q[a]) /\ addr[n] = a /\ status[n] = "queued"
    BY <1>3, <1>6, HeadFacts
  <2>2. q'[a] = Tail(q[a]) /\ status' = [status EXCEPT ![n] = "flight"]
    BY <1>1, <1>3, <1>6, <2>1 DEF NextRequest
  <2>3. status'[n] = "flight" /\ \A k \in Msgs \ {n} : status'[k] = status[k]
    BY <1>1, <2>1, <2>2
  <2>4. IsOpen(n)'
    BY <2>3 DEF IsOpen
  <2>5. \A k \in Msgs : IsOpen(k) /\ addr[k] # a => IsOpen(k)'
    BY <1>1, <1>4, <2>1, <2>3 DEF IsOpen
  <2>6. \A k \in Msgs : status[k] \in {"badBody", "lost"} => status'[k] = status[k]
    BY <2>1, <2>3
  <2>7. Awaited'
    BY <1>4, <1>5, <2>1, <2>4, <2>5, <2>6 DEF Awaited, Faulted
  <2>8. ASSUME NEW k \in Msgs, status'[k] = "queued"
        PROVE  Holds(q'[addr'[k]], k)
    <3>1. k # n /\ status[k] = "queued" /\ addr[k] \in Addrs /\ Holds(q[addr[k]], k)
      BY <2>3, <2>8 DEF IInv, HandlerInv, Kept
    <3>2. CASE addr[k] = a
      <4>1. q[a] \in Seq(Msgs) /\ Holds(q[a], k)
        BY <1>1, <1>3, <3>1, <3>2
      <4>2. Holds(Tail(q[a]), k)
        BY <1>6, <2>1, <3>1, <4>1, HoldsTail
      <4> QED
        BY <1>4, <2>2, <3>2, <4>2
    <3>3. CASE addr[k] # a
      BY <1>4, <1>5, <3>1, <3>3
    <3> QED
      BY <3>2, <3>3
  <2> QED
    BY <2>7, <2>8 DEF Kept
<1>7. CASE q[a] = << >>
  <2>1. UNCHANGED <<q, status>> /\ ~is_waiting_response'[a]
    BY <1>1, <1>3, <1>7 DEF NextRequest
  <2>2. \A k \in Msgs : IsOpen(k) /\ addr[k] # a => IsOpen(k)'
    BY <1>1, <1>4, <2>1 DEF IsOpen
  <2>3. Awaited'
    BY <1>4, <1>5, <2>1, <2>2 DEF Awaited, Faulted
  <2> QED
    BY <1>4, <2>1, <2>3 DEF Kept
<1> QED
  BY <1>6, <1>7

\* Aging drops no request and no address that waits.
LEMMA AgeKeeps ==
  ASSUME IInv, Kept, Awaited, Age
  PROVE  Kept' /\ Awaited'
<1>1. PICK S \in SUBSET {a \in present : MayAge(a)} \ {{}} :
        /\ is_waiting_response' = [a \in Addrs |-> is_waiting_response[a] /\ a \notin S]
        /\ msg_cache_queue' = [a \in Addrs |-> IF a \in S THEN << >> ELSE msg_cache_queue[a]]
  BY DEF Age
<1>2. UNCHANGED <<addr, status, handling>>
  BY DEF Age
<1>3. \A a \in Addrs : /\ msg_cache_queue'[a] = msg_cache_queue[a]
                       /\ is_waiting_response'[a] => is_waiting_response[a]
  BY <1>1 DEF MayAge, IInv, TypeOK
<1>4. \A m \in Msgs : status[m] = "queued" => addr[m] \in Addrs
  BY DEF IInv, HandlerInv
<1> QED
  BY <1>2, <1>3, <1>4 DEF Kept, Awaited, Faulted, IsOpen

\* No queued request is left behind: in every state it is in its queue and its address has
\* an open request or waits for the end of another service's exchange, but for an address
\* that a lost request or a bad answer stopped. What is left to liveness is that the timer
\* and the handlers go on.
THEOREM NoneLeftBehind == Spec => []QueuedAreServed
<1>1. Init => Kept /\ Awaited
  BY DEF Init, Kept, Awaited
<1>2. ASSUME IInv, Kept, Awaited, [Next]_vars
      PROVE  Kept' /\ Awaited'
  <2>1. CASE BeginExclusive \/ TimerBlocks \/ UNCHANGED vars
    BY <1>2, <2>1 DEF BeginExclusive, TimerBlocks, dispatchVars, vars, cacheVars, Kept, Awaited, Faulted, IsOpen
  <2>2. CASE EndExclusive
    BY <1>2, <2>2, EndKeeps
  <2>3. CASE Age
    BY <1>2, <2>3, AgeKeeps
  <2>4. ASSUME NEW m \in Msgs, NEW a \in Addrs, Receive(m, a)
        PROVE  Kept' /\ Awaited'
    BY <1>2, <2>4, ReceiveKeeps
  <2>5. ASSUME NEW m \in Msgs, (\E t \in Threads : Report(t, m)) \/ BadBody(m) \/ Lose(m)
        PROVE  Kept' /\ Awaited'
    BY <1>2, <2>5, LeaveKeeps
  <2>6. ASSUME NEW t \in Threads, NextRequest(t)
        PROVE  Kept' /\ Awaited'
    BY <1>2, <2>6, NextRequestKeeps
  <2> QED
    BY <1>2, <2>1, <2>2, <2>3, <2>4, <2>5, <2>6 DEF Next, Dispatcher, Handler, Faulty
<1>3. ASSUME IInv, Kept, Awaited
      PROVE  QueuedAreServed
  <2> SUFFICES ASSUME NEW m \in Msgs, status[m] = "queued"
               PROVE  /\ addr[m] \in present
                      /\ Holds(msg_cache_queue[addr[m]], m)
                      /\ metering \/ Open(addr[m]) # {} \/ Faulted(addr[m])
    BY DEF QueuedAreServed
  <2>1. addr[m] \in Addrs /\ Holds(msg_cache_queue[addr[m]], m)
    BY <1>3 DEF IInv, HandlerInv, Kept
  <2>2. msg_cache_queue[addr[m]] # << >>
    BY <2>1 DEF Holds
  <2>3. addr[m] \in present /\ (metering \/ is_waiting_response[addr[m]])
    BY <1>3, <2>1, <2>2 DEF IInv, CacheInv
  <2>4. is_waiting_response[addr[m]] => Open(addr[m]) # {} \/ Faulted(addr[m])
    BY <1>3, <2>1 DEF Awaited, Open, IsOpen
  <2> QED
    BY <2>1, <2>3, <2>4
<1> QED
  BY <1>1, <1>2, <1>3, Invariance, PTL DEF Spec

=============================================================================
