--------------------------- MODULE DispatchProofs ---------------------------
(***************************************************************************)
(* Proofs about Dispatch for any set of messages, any network and any      *)
(* number of nodes in a page: a mailbox holds a result only for the        *)
(* message that is handled, the dispatcher never waits for what nobody     *)
(* will post, the pages of a query make up the whole network, no message   *)
(* is forgotten, and no client is told twice. The heap keeps its messages  *)
(* whatever the order in which it gives them out.                          *)
(***************************************************************************)
EXTENDS Dispatch, SequenceTheorems, FiniteSetTheorems, WellFoundedInduction, TLAPS

----------------------------------------------------------------------------
(* The inductive invariant. *)

\* What the dispatcher may wait for: its requests, the data after a delay, and a pause.
Waits == Paged \cup {"node", "delay", "data", "transfer", "pause"}
Monitors == {"node", "delay"}
IsWaited(r) == r.what # "query"
NoneWaited(q) == \A i \in 1 .. Len(q) : ~IsWaited(q[i])
IsSeq(s) == s \in Seq(Range(s))

\* The requests are in a queue, at most one of them is waited for.
RequestsInv ==
  /\ IsSeq(uart)
  /\ \A i \in 1 .. Len(uart) : /\ uart[i].what \in Waits \cup {"query"}
                               /\ uart[i].what = "query" => uart[i].message.kind = "query"
  /\ \A i, j \in 1 .. Len(uart) : IsWaited(uart[i]) /\ IsWaited(uart[j]) => i = j

\* The dispatcher waits for what the kind of its message calls for.
DispatcherInv ==
  \/ dispatcher = Idle
  \/ /\ dispatcher.for \in Waits
     /\ dispatcher = Wait(dispatcher.message, dispatcher.for)
     /\ dispatcher.message.kind \in IF dispatcher.for = "data" THEN {"delay"}
                                    ELSE IF dispatcher.for = "pause" THEN Monitors
                                    ELSE {dispatcher.for}

\* The request that is waited for is of the message that is handled. The data may be asked
\* for, and come, before the dispatcher has seen the delay.
OwnRequest(r) ==
  /\ dispatcher # Idle /\ r.message = dispatcher.message
  /\ r.what = dispatcher.for \/ (dispatcher.for = "delay" /\ r.what = "data")

CurrentInv == \A i \in 1 .. Len(uart) : IsWaited(uart[i]) => OwnRequest(uart[i])

\* Only the mailbox that is waited at holds a result, and then no request of the message is
\* left, except the one for the data behind a delay.
OwnResult(b) ==
  /\ dispatcher.waits = b
  /\ box[b].is = "page" => box[b].kind = dispatcher.for
  /\ \A i \in 1 .. Len(uart) :
       IsWaited(uart[i]) => dispatcher.for = "delay" /\ uart[i].what = "data" /\ box[b] = Delay

BoxInv ==
  /\ box = [b \in Boxes |-> box[b]]
  /\ \A b \in Boxes : box[b] # Empty => OwnResult(b)

\* A delay in the mailbox is not the end: the data are still to come or are lost.
SilentInv ==
  dispatcher # Idle => \/ ~NoneWaited(uart)
                       \/ box[dispatcher.waits] \notin {Empty, Delay}
                       \/ dispatcher.message \in lost

Core == RequestsInv /\ DispatcherInv /\ CurrentInv /\ BoxInv /\ SilentInv

\* While the network stays as it was, the pages so far are its first nodes, the next page
\* begins behind them, and its total is that of the network.
IsPage(r, n) ==
  /\ r.is = "page" /\ r.total = Len(net)
  /\ \E k \in 0 .. Len(net) - n : r.body = SubSeq(net, n + 1, n + k)

PagesInv ==
  dispatcher.waits = "hplc" /\ netThen # Changed =>
    LET n == Len(items.body) IN
    /\ netThen = net
    /\ n \in 0 .. Len(net) /\ items.body = SubSeq(net, 1, n)
    /\ \A i \in 1 .. Len(uart) : IsWaited(uart[i]) => uart[i].start = n + 1
    /\ box["hplc"] \in {Empty, Err} \/ IsPage(box["hplc"], n)

ToldInv == told = [m \in Messages |-> told[m]] /\ \A m \in Messages : IsSeq(told[m])

IInv == Core /\ IsSeq(net) /\ ToldInv /\ PagesInv

----------------------------------------------------------------------------
(* Facts about the queue, the mailboxes and the messages. *)

\* A queue grows at its end.
LEMMA PutFacts ==
  ASSUME NEW q, IsSeq(q), NEW x
  PROVE  /\ IsSeq(Append(q, x))
         /\ Len(Append(q, x)) = Len(q) + 1 /\ Len(q) \in Nat
         /\ \A i \in 1 .. Len(q) : Append(q, x)[i] = q[i]
         /\ Append(q, x)[Len(q) + 1] = x
<1> DEFINE S == Range(q) \cup {x}
<1>1. q \in Seq(S) /\ x \in S
  BY DEF IsSeq
<1> HIDE DEF S
<1>2. Append(q, x) \in Seq(S)
  BY <1>1
<1>3. IsSeq(Append(q, x))
  BY <1>2, SeqOfRange DEF IsSeq
<1> QED
  BY <1>1, <1>3, AppendProperties

\* The first request leaves.
LEMMA TakeFacts ==
  ASSUME NEW q, IsSeq(q), q # << >>
  PROVE  /\ IsSeq(Tail(q)) /\ Head(q) = q[1] /\ 1 \in 1 .. Len(q)
         /\ Len(q) \in Nat \ {0} /\ Len(Tail(q)) = Len(q) - 1
         /\ \A i \in 1 .. Len(Tail(q)) : Tail(q)[i] = q[i + 1] /\ i + 1 \in 1 .. Len(q)
<1>1. /\ Tail(q) \in Seq(Range(q)) /\ Head(q) = q[1] /\ Len(q) \in Nat \ {0}
      /\ Len(Tail(q)) = Len(q) - 1 /\ \A i \in 1 .. Len(Tail(q)) : Tail(q)[i] = q[i + 1]
  BY HeadTailProperties DEF IsSeq
<1>2. IsSeq(Tail(q))
  BY <1>1, SeqOfRange DEF IsSeq
<1> QED
  BY <1>1, <1>2

\* Results are told apart.
LEMMA ResultFacts ==
  /\ Err \notin {Empty, Delay, Ok} /\ Ok \notin {Empty, Delay} /\ Delay # Empty
  /\ Err.is # "page" /\ Ok.is # "page" /\ Delay.is # "page"
  /\ \A kind, total, body : /\ Page(kind, total, body) \notin {Empty, Delay, Err}
                            /\ Page(kind, total, body).is = "page" /\ Page(kind, total, body).kind = kind
                            /\ Page(kind, total, body).total = total /\ Page(kind, total, body).body = body
<1>1. Err.is = "err" /\ Ok.is = "ok" /\ Delay.is = "delay" /\ Empty.is = "none"
  BY DEF Err, Ok, Delay, Empty
<1>2. \A kind, total, body : /\ Page(kind, total, body).is = "page" /\ Page(kind, total, body).kind = kind
                             /\ Page(kind, total, body).total = total /\ Page(kind, total, body).body = body
  BY DEF Page
<1> QED
  BY <1>1, <1>2

\* Every wait has a mailbox, that of pages is for pages only.
LEMMA WaitFacts ==
  ASSUME NEW m, NEW f \in Waits
  PROVE  /\ Wait(m, f) # Idle /\ Wait(m, f).message = m /\ Wait(m, f).for = f
         /\ Wait(m, f).waits = BoxOf(f) /\ BoxOf(f) \in Boxes /\ f # "query"
         /\ BoxOf(f) = "hplc" <=> f \in Paged
         /\ f \in {"delay", "data", "node"} <=> BoxOf(f) = "monitor"
         /\ f = "pause" <=> BoxOf(f) = "route"
<1>1. Wait(m, f).message = m /\ Wait(m, f).for = f /\ Wait(m, f).waits = BoxOf(f)
  BY DEF Wait
<1>2. /\ BoxOf(f) \in Boxes /\ f # "query" /\ (BoxOf(f) = "hplc" <=> f \in Paged)
      /\ f \in {"delay", "data", "node"} <=> BoxOf(f) = "monitor"
      /\ f = "pause" <=> BoxOf(f) = "route"
  BY DEF BoxOf, Boxes, Waits, Paged
<1>3. Idle.waits = "no" /\ "no" \notin Boxes
  BY DEF Idle, Boxes
<1> QED
  BY <1>1, <1>2, <1>3

\* What the dispatcher waits for.
LEMMA StateFacts ==
  ASSUME DispatcherInv
  PROVE  /\ dispatcher = Idle => dispatcher.waits = "no" /\ "no" \notin Boxes
         /\ dispatcher # Idle => /\ dispatcher.for \in Waits /\ dispatcher.waits \in Boxes
                                 /\ dispatcher.waits = BoxOf(dispatcher.for)
<1>1. dispatcher = Idle => dispatcher.waits = "no" /\ "no" \notin Boxes
  BY DEF Idle, Boxes
<1>2. ASSUME dispatcher # Idle
      PROVE  /\ dispatcher.for \in Waits /\ dispatcher.waits \in Boxes
             /\ dispatcher.waits = BoxOf(dispatcher.for)
  <2>1. dispatcher.for \in Waits /\ dispatcher = Wait(dispatcher.message, dispatcher.for)
    BY <1>2 DEF DispatcherInv
  <2> QED
    BY <2>1, WaitFacts
<1> QED
  BY <1>1, <1>2

\* Pages are waited for only by the messages that ask for them.
LEMMA KindFacts ==
  ASSUME DispatcherInv, dispatcher # Idle
  PROVE  /\ dispatcher.message.kind # "query"
         /\ dispatcher.for \in Paged => dispatcher.message.kind = dispatcher.for
         /\ dispatcher.for \notin Paged => dispatcher.message.kind \notin Paged
         /\ dispatcher.for = "pause" => dispatcher.message.kind \in Monitors
<1> DEFINE f == dispatcher.for
           kind == dispatcher.message.kind
<1>1. f \in Waits /\ kind \in IF f = "data" THEN {"delay"} ELSE IF f = "pause" THEN Monitors ELSE {f}
  BY DEF DispatcherInv
<1> DEFINE Facts == /\ kind # "query"
                    /\ f \in Paged => kind = f
                    /\ f \notin Paged => kind \notin Paged
                    /\ f = "pause" => kind \in Monitors
<1> HIDE DEF f, kind
<1>2. ASSUME f = "data" PROVE Facts
  BY <1>1, <1>2 DEF Paged
<1>3. ASSUME f = "pause" PROVE Facts
  BY <1>1, <1>3 DEF Paged, Monitors
<1>4. ASSUME f # "data", f # "pause" PROVE Facts
  BY <1>1, <1>4 DEF Waits, Paged
<1>5. Facts
  BY <1>2, <1>3, <1>4
<1> QED
  BY <1>5 DEF f, kind

\* Only the client of the message is told something.
LEMMA TellFacts ==
  ASSUME ToldInv, NEW m, NEW reply, Tell(m, reply)
  PROVE  /\ ToldInv'
         /\ \A x \in Messages : told'[x] # told[x] => x = m /\ Last(told'[x]) = reply
<1>1. \A x \in Messages : told'[x] = IF x = m THEN Append(told[x], reply) ELSE told[x]
  BY DEF Tell, ToldInv
<1>2. \A x \in Messages : IsSeq(told[x])
  BY DEF ToldInv
<1>3. \A x \in Messages : IsSeq(Append(told[x], reply)) /\ Last(Append(told[x], reply)) = reply
  BY <1>2, PutFacts DEF Last
<1>4. told' = [x \in Messages |-> told'[x]]
  BY DEF Tell, ToldInv
<1>5. \A x \in Messages : IsSeq(told'[x])
  BY <1>1, <1>2, <1>3
<1> QED
  BY <1>1, <1>3, <1>4, <1>5 DEF ToldInv, IsSeq

----------------------------------------------------------------------------
(* The dispatcher. *)

AllEmpty == [b \in Boxes |-> Empty]

\* Nothing is left of an earlier message when the dispatcher takes the next, or a result.
LEMMA NothingLeft ==
  ASSUME Core
  PROVE  /\ dispatcher = Idle => NoneWaited(uart) /\ box = AllEmpty
         /\ \A b \in Boxes : box[b] # Empty /\ Take(b) => box' = AllEmpty
<1>1. ASSUME dispatcher = Idle
      PROVE  NoneWaited(uart) /\ box = AllEmpty
  <2>1. NoneWaited(uart)
    BY <1>1 DEF Core, CurrentInv, OwnRequest, NoneWaited
  <2>2. \A b \in Boxes : box[b] = Empty
    BY <1>1, StateFacts DEF Core, BoxInv, OwnResult
  <2>3. box = AllEmpty
    BY <2>2 DEF Core, BoxInv, AllEmpty
  <2> QED
    BY <2>1, <2>3
<1>2. ASSUME NEW b \in Boxes, box[b] # Empty, Take(b)
      PROVE  box' = AllEmpty
  <2>1. \A c \in Boxes : c # b => box[c] = Empty
    BY <1>2 DEF Core, BoxInv, OwnResult
  <2>2. box = [c \in Boxes |-> box[c]] /\ box' = [box EXCEPT ![b] = Empty]
    BY <1>2 DEF Core, BoxInv, Take
  <2> QED
    BY <2>1, <2>2 DEF AllEmpty
<1> QED
  BY <1>1, <1>2

\* A request is sent for the message that is handled from now on.
LEMMA SendStep ==
  ASSUME RequestsInv, NoneWaited(uart), NEW m, NEW what \in Waits, NEW start,
         \/ what = m.kind /\ what \notin {"data", "pause"}
         \/ what = "pause" /\ m.kind \in Monitors,
         SendAndWait(m, what, start), box' = AllEmpty
  PROVE  Core' /\ \A i \in 1 .. Len(uart') : IsWaited(uart'[i]) => uart'[i].start = start
<1> DEFINE r == Request(m, what, start)
           n == Len(uart) + 1
<1>1. r.message = m /\ r.what = what /\ r.start = start /\ IsWaited(r)
  BY DEF Request, Waits, Paged, IsWaited
<1>2. uart' = Append(uart, r) /\ dispatcher' = Wait(m, what)
  BY DEF SendAndWait
<1> HIDE DEF r
<1>3. /\ IsSeq(uart') /\ Len(uart') = n /\ Len(uart) \in Nat
      /\ \A i \in 1 .. Len(uart) : uart'[i] = uart[i]
      /\ uart'[n] = r
  BY <1>2, PutFacts DEF RequestsInv
<1>4. \A i \in 1 .. Len(uart') : (i \in 1 .. Len(uart) /\ uart'[i] = uart[i] /\ ~IsWaited(uart'[i])) \/ (i = n /\ uart'[i] = r)
  BY <1>3 DEF NoneWaited
<1>5. /\ dispatcher' # Idle /\ dispatcher'.message = m /\ dispatcher'.for = what
      /\ dispatcher'.waits \in Boxes
  BY <1>2, WaitFacts
<1>6. RequestsInv'
  <2>1. \A i \in 1 .. Len(uart') : /\ uart'[i].what \in Waits \cup {"query"}
                                   /\ uart'[i].what = "query" => uart'[i].message.kind = "query"
    BY <1>1, <1>4 DEF RequestsInv, IsWaited
  <2>2. \A i, j \in 1 .. Len(uart') : IsWaited(uart'[i]) /\ IsWaited(uart'[j]) => i = j
    BY <1>4
  <2> QED
    BY <1>3, <2>1, <2>2 DEF RequestsInv, IsSeq
<1>7. DispatcherInv'
  BY <1>2, <1>5 DEF DispatcherInv
<1>8. CurrentInv'
  BY <1>1, <1>4, <1>5 DEF CurrentInv, OwnRequest
<1>9. BoxInv'
  BY DEF BoxInv, AllEmpty
<1>10. SilentInv'
  <2>1. n \in 1 .. Len(uart')
    BY <1>3
  <2>2. ~NoneWaited(uart')
    BY <1>1, <1>3, <2>1 DEF NoneWaited
  <2> QED
    BY <2>2 DEF SilentInv
<1> QED
  BY <1>1, <1>4, <1>6, <1>7, <1>8, <1>9, <1>10 DEF Core

\* The dispatcher is done with the message.
LEMMA ReturnStep ==
  ASSUME RequestsInv, NoneWaited(uart), uart' = uart, dispatcher' = Idle, box' = AllEmpty
  PROVE  Core'
<1>1. RequestsInv' /\ DispatcherInv'
  BY DEF RequestsInv, DispatcherInv, IsSeq
<1>2. CurrentInv' /\ BoxInv' /\ SilentInv'
  BY DEF CurrentInv, BoxInv, SilentInv, NoneWaited, AllEmpty
<1> QED
  BY <1>1, <1>2 DEF Core

\* What PagesAreWhole says of a step.
Whole ==
  \A m \in Messages :
    (m.kind \in Paged /\ told'[m] # told[m] /\ Last(told'[m]).is = "success" /\ netThen # Changed)
      => \/ Last(told'[m]).body = netThen
         \/ /\ box["hplc"].body = <<>>
            /\ IsPrefix(Last(told'[m]).body, netThen)

\* A client that is told of a failure, or did not ask for pages, is told of no pages.
LEMMA NotOfPages ==
  ASSUME ToldInv,
         \/ told' = told
         \/ \E m : Tell(m, Failure)
         \/ \E m, reply : Tell(m, reply) /\ m.kind \notin Paged
  PROVE  ToldInv' /\ Whole
<1>1. CASE told' = told
  BY <1>1 DEF ToldInv, Whole, IsSeq
<1>2. ASSUME NEW m, Tell(m, Failure)
      PROVE  ToldInv' /\ Whole
  BY <1>2, TellFacts DEF Whole, Failure
<1>3. ASSUME NEW m, NEW reply, Tell(m, reply), m.kind \notin Paged
      PROVE  ToldInv' /\ Whole
  BY <1>3, TellFacts DEF Whole
<1> QED
  BY <1>1, <1>2, <1>3

\* The dispatcher takes a message and sends its first request.
LEMMA PopStep == IInv /\ Pop => IInv' /\ Whole
<1> SUFFICES ASSUME IInv, Pop PROVE IInv' /\ Whole
  OBVIOUS
<1> DEFINE m == heap[1].message
<1>1. /\ dispatcher = Idle /\ UNCHANGED <<box, net, lost>>
      /\ SendQuery(m) \/ SendPaged(m) \/ SendTransfer(m) \/ SendMonitor(m)
  BY DEF Pop
<1> HIDE DEF m
<1>2. /\ RequestsInv /\ NoneWaited(uart) /\ box = AllEmpty /\ box' = AllEmpty
  BY <1>1, NothingLeft DEF IInv, Core
<1>3. ToldInv' /\ Whole
  BY <1>1, NotOfPages DEF IInv, SendQuery, SendPaged, SendTransfer, SendMonitor
<1>4. IsSeq(net)'
  BY <1>1 DEF IInv, IsSeq
<1>5. CASE SendQuery(m)
  <2> DEFINE r == Request(m, "query", 0)
  <2>1. uart' = Append(uart, r) /\ dispatcher' = Idle /\ m.kind = "query"
    BY <1>1, <1>5 DEF SendQuery
  <2>2. r.message = m /\ r.what = "query" /\ ~IsWaited(r)
    BY DEF Request, IsWaited
  <2> HIDE DEF r
  <2>3. /\ IsSeq(uart') /\ Len(uart') = Len(uart) + 1 /\ Len(uart) \in Nat
        /\ \A i \in 1 .. Len(uart) : uart'[i] = uart[i]
        /\ uart'[Len(uart) + 1] = r
    BY <1>2, <2>1, PutFacts DEF RequestsInv
  <2>4. \A i \in 1 .. Len(uart') : ~IsWaited(uart'[i]) /\ uart'[i].what = "query" /\ uart'[i].message.kind = "query"
    BY <1>2, <2>1, <2>2, <2>3 DEF RequestsInv, NoneWaited, IsWaited
  <2>5. RequestsInv'
    BY <2>3, <2>4 DEF RequestsInv, IsSeq
  <2>6. DispatcherInv' /\ CurrentInv' /\ BoxInv' /\ SilentInv'
    BY <1>2, <2>1, <2>4 DEF DispatcherInv, CurrentInv, BoxInv, SilentInv, AllEmpty
  <2>7. PagesInv'
    BY <2>1 DEF PagesInv, Idle
  <2> QED
    BY <1>3, <1>4, <2>5, <2>6, <2>7 DEF IInv, Core
<1>6. CASE SendPaged(m)
  <2>1. /\ m.kind \in Paged /\ SendAndWait(m, m.kind, 1)
        /\ items' = [total |-> 0, body |-> <<>>] /\ netThen' = net
    BY <1>6 DEF SendPaged, start_index
  <2>2. Core' /\ \A i \in 1 .. Len(uart') : IsWaited(uart'[i]) => uart'[i].start = 1
    BY <1>2, <2>1, SendStep DEF Waits, Paged
  <2>3. net' = net /\ items'.body = << >> /\ Len(items'.body) = 0 /\ Len(net) \in Nat
    BY <1>1, <2>1 DEF IInv, IsSeq
  <2>4. SubSeq(net, 1, 0) = << >>
    BY SubSeqEmpty
  <2>5. PagesInv'
    BY <1>2, <2>1, <2>2, <2>3, <2>4 DEF PagesInv, AllEmpty, Boxes
  <2> QED
    BY <1>3, <1>4, <2>2, <2>5 DEF IInv
<1>7. ASSUME NEW what, SendAndWait(m, what, 0),
             \/ what = m.kind /\ m.kind \in {"transfer", "node", "delay"}
             \/ what = "pause" /\ m.kind \in Monitors
      PROVE  IInv' /\ Whole
  <2>1. what \in Waits /\ what \notin Paged
    BY <1>7 DEF Waits, Paged
  <2>2. Core'
    BY <1>2, <1>7, <2>1, SendStep
  <2>3. dispatcher' = Wait(m, what)
    BY <1>7 DEF SendAndWait
  <2>4. dispatcher'.waits # "hplc"
    BY <2>1, <2>3, WaitFacts
  <2>5. PagesInv'
    BY <2>4 DEF PagesInv
  <2> QED
    BY <1>3, <1>4, <2>2, <2>5 DEF IInv
<1> QED
  BY <1>1, <1>5, <1>6, <1>7 DEF SendTransfer, SendMonitor, Monitors

\* A wait for data ends with the result.
LEMMA TakeDataStep == IInv /\ TakeData => IInv' /\ Whole
<1> SUFFICES ASSUME IInv, TakeData PROVE IInv' /\ Whole
  OBVIOUS
<1> DEFINE m == dispatcher.message
           b == dispatcher.waits
<1>1. /\ UNCHANGED <<uart, net>> /\ b \in {"monitor", "transfer"} /\ dispatcher.for # "delay"
      /\ box[b] # Empty /\ Take(b) /\ (\E reply : Return(m, reply))
  BY DEF TakeData
<1> HIDE DEF m
<1>2. b \in Boxes /\ dispatcher # Idle
  BY <1>1 DEF Boxes, Idle
<1>3. box' = AllEmpty
  BY <1>1, <1>2, NothingLeft DEF IInv
<1>4. NoneWaited(uart) /\ RequestsInv
  BY <1>1, <1>2 DEF IInv, Core, BoxInv, OwnResult, NoneWaited
<1>5. dispatcher' = Idle /\ \E reply : Tell(m, reply)
  BY <1>1 DEF Return
<1>6. Core'
  BY <1>1, <1>3, <1>4, <1>5, ReturnStep
<1>7. m.kind \notin Paged
  <2>1. dispatcher.for \in Waits /\ b = BoxOf(dispatcher.for)
    BY <1>2, StateFacts DEF IInv, Core
  <2>2. dispatcher.for \notin Paged
    BY <1>1, <2>1, WaitFacts
  <2> QED
    BY <1>2, <2>2, KindFacts DEF IInv, Core, m
<1>8. ToldInv' /\ Whole
  BY <1>5, <1>7, NotOfPages DEF IInv
<1>9. PagesInv' /\ IsSeq(net)'
  BY <1>1, <1>5 DEF IInv, IsSeq, PagesInv, Idle
<1> QED
  BY <1>6, <1>8, <1>9 DEF IInv

\* A wait for a delay ends with the delay, after which the data are waited for, or not.
LEMMA TakeDelayStep == IInv /\ TakeDelay => IInv' /\ Whole
<1> SUFFICES ASSUME IInv, TakeDelay PROVE IInv' /\ Whole
  OBVIOUS
<1> DEFINE m == dispatcher.message
<1>1. /\ UNCHANGED <<uart, net, lost>> /\ dispatcher.waits = "monitor" /\ dispatcher.for = "delay"
      /\ box["monitor"] # Empty /\ Take("monitor")
      /\ \/ box["monitor"] = Delay /\ dispatcher' = Wait(m, "data") /\ told' = told
         \/ box["monitor"] # Delay /\ Return(m, Failure)
  BY DEF TakeDelay
<1> HIDE DEF m
<1>2. "monitor" \in Boxes /\ dispatcher # Idle
  BY <1>1 DEF Boxes, Idle
<1>3. box' = AllEmpty
  BY <1>1, <1>2, NothingLeft DEF IInv
<1>4. /\ RequestsInv /\ RequestsInv' /\ m.kind = "delay" /\ CurrentInv /\ OwnResult("monitor")
  BY <1>1, <1>2 DEF IInv, Core, DispatcherInv, BoxInv, RequestsInv, IsSeq, m
<1>5. ToldInv' /\ Whole /\ IsSeq(net)'
  BY <1>1, NotOfPages DEF IInv, Return, IsSeq
<1>6. CASE box["monitor"] = Delay /\ dispatcher' = Wait(m, "data")
  <2>1. "data" \in Waits /\ "data" \notin Paged
    BY DEF Waits, Paged
  <2>2. /\ dispatcher' # Idle /\ dispatcher'.message = m /\ dispatcher'.for = "data"
        /\ dispatcher'.waits \in Boxes /\ dispatcher'.waits # "hplc"
    BY <1>6, <2>1, WaitFacts
  <2>3. DispatcherInv'
    BY <1>4, <1>6, <2>1, <2>2 DEF DispatcherInv
  <2>4. CurrentInv'
    BY <1>1, <1>4, <2>2 DEF CurrentInv, OwnResult, OwnRequest, m
  <2>5. BoxInv'
    BY <1>3 DEF BoxInv, AllEmpty
  <2>6. SilentInv'
    BY <1>1, <1>2, <1>6, <2>2 DEF IInv, Core, SilentInv, m
  <2>7. PagesInv'
    BY <2>2 DEF PagesInv
  <2> QED
    BY <1>4, <1>5, <2>3, <2>4, <2>5, <2>6, <2>7 DEF IInv, Core
<1>7. CASE box["monitor"] # Delay /\ Return(m, Failure)
  <2>1. NoneWaited(uart)
    BY <1>4, <1>7 DEF OwnResult, NoneWaited
  <2>2. dispatcher' = Idle
    BY <1>7 DEF Return
  <2>3. Core'
    BY <1>1, <1>3, <1>4, <2>1, <2>2, ReturnStep
  <2>4. PagesInv'
    BY <2>2 DEF PagesInv, Idle
  <2> QED
    BY <1>5, <2>3, <2>4 DEF IInv
<1> QED
  BY <1>1, <1>6, <1>7

\* A wait for a pause ends with the pause, after which the request itself is sent, or not.
LEMMA TakePauseStep == IInv /\ TakePause => IInv' /\ Whole
<1> SUFFICES ASSUME IInv, TakePause PROVE IInv' /\ Whole
  OBVIOUS
<1> DEFINE m == dispatcher.message
<1>1. /\ net' = net /\ dispatcher.waits = "route" /\ box["route"] # Empty /\ Take("route")
      /\ \/ SendAndWait(m, m.kind, 0) /\ told' = told
         \/ Return(m, Failure) /\ uart' = uart
  BY DEF TakePause
<1> HIDE DEF m
<1>2. "route" \in Boxes /\ dispatcher # Idle
  BY <1>1 DEF Boxes, Idle
<1>3. box' = AllEmpty
  BY <1>1, <1>2, NothingLeft DEF IInv
<1>4. dispatcher.for = "pause"
  <2>1. dispatcher.for \in Waits /\ BoxOf(dispatcher.for) = "route"
    BY <1>1, <1>2, StateFacts DEF IInv, Core
  <2> QED
    BY <2>1, WaitFacts
<1>5. m.kind \in Monitors
  BY <1>2, <1>4, KindFacts DEF IInv, Core, m
<1>6. NoneWaited(uart) /\ RequestsInv
  BY <1>1, <1>2, <1>4 DEF IInv, Core, BoxInv, OwnResult, NoneWaited
<1>7. ToldInv' /\ Whole /\ IsSeq(net)'
  BY <1>1, NotOfPages DEF IInv, Return, IsSeq
<1>8. CASE SendAndWait(m, m.kind, 0)
  <2>1. m.kind \in Waits /\ m.kind \notin Paged \cup {"data", "pause"}
    BY <1>5 DEF Monitors, Waits, Paged
  <2>2. Core'
    BY <1>3, <1>6, <1>8, <2>1, SendStep
  <2>3. dispatcher' = Wait(m, m.kind)
    BY <1>8 DEF SendAndWait
  <2>4. dispatcher'.waits # "hplc"
    BY <2>1, <2>3, WaitFacts
  <2>5. PagesInv'
    BY <2>4 DEF PagesInv
  <2> QED
    BY <1>7, <2>2, <2>5 DEF IInv
<1>9. CASE Return(m, Failure) /\ uart' = uart
  <2>1. dispatcher' = Idle
    BY <1>9 DEF Return
  <2>2. Core'
    BY <1>3, <1>6, <1>9, <2>1, ReturnStep
  <2>3. PagesInv'
    BY <2>1 DEF PagesInv, Idle
  <2> QED
    BY <1>7, <2>2, <2>3 DEF IInv
<1> QED
  BY <1>1, <1>8, <1>9

\* A page behind the first n nodes makes up the first nodes again; when it is the last one
\* these are all, unless the page is empty.
LEMMA PageFacts ==
  ASSUME IsSeq(net), NEW n \in 0 .. Len(net), NEW r, IsPage(r, n), NEW body,
         body = SubSeq(net, 1, n) \o r.body
  PROVE  /\ Len(body) \in 0 .. Len(net) /\ body = SubSeq(net, 1, Len(body))
         /\ IsPrefix(body, net)
         /\ IsLast(r, body) => body = net \/ r.body = << >>
<1>1. PICK k \in 0 .. Len(net) - n : r.body = SubSeq(net, n + 1, n + k)
  BY DEF IsPage
<1>2. net \in Seq(Range(net)) /\ Len(net) \in Nat /\ r.total = Len(net)
  BY DEF IsSeq, IsPage
<1>3. body = SubSeq(net, 1, n + k)
  BY <1>1, <1>2, ConcatAdjacentSubSeq
<1>4. Len(body) = n + k
  BY <1>1, <1>2, <1>3
<1>5. n + k = Len(net) => body = net
  BY <1>2, <1>3, SubSeqFull
<1>6. SubSeq(body, 1, Len(body)) = body
  BY <1>1, <1>2, <1>3, <1>4
<1>7. n + k \in 0 .. Len(net) /\ (n + k >= Len(net) => n + k = Len(net))
  BY <1>1, <1>2
<1>8. Len(body) \in 0 .. Len(net) /\ body = SubSeq(net, 1, Len(body)) /\ Len(body) <= Len(net)
  <2>1. body = SubSeq(net, 1, Len(body))
    BY <1>3, <1>4, Zenon
  <2>2. n + k <= Len(net)
    BY <1>2, <1>7
  <2> QED
    BY <1>4, <1>7, <2>1, <2>2
<1>9. IsPrefix(body, net)
  BY <1>6, <1>8 DEF IsPrefix
<1>10. IsLast(r, body) => body = net \/ r.body = << >>
  <2>1. IsLast(r, body) => r.body = << >> \/ n + k >= Len(net)
    BY <1>2, <1>4 DEF IsLast
  <2> QED
    BY <1>5, <1>7, <2>1
<1> QED
  BY <1>8, <1>9, <1>10

\* A wait for a page ends: with a failure, with the whole list, or with the next request.
LEMMA TakePageStep == IInv /\ TakePage => IInv' /\ Whole
<1> SUFFICES ASSUME IInv, TakePage PROVE IInv' /\ Whole
  OBVIOUS
<1> DEFINE m == dispatcher.message
           data == box["hplc"]
           body == items.body \o data.body
           n == Len(items.body)
<1>1. /\ UNCHANGED <<net, netThen>> /\ dispatcher.waits = "hplc" /\ box["hplc"] # Empty /\ Take("hplc")
      /\ \/ data = Err /\ Return(m, Failure) /\ uart' = uart
         \/ /\ data # Err /\ items' = [total |-> data.total, body |-> body]
            /\ IF IsLast(data, body)
               THEN Return(m, Success(body)) /\ uart' = uart
               ELSE SendAndWait(m, m.kind, start_index(body)) /\ told' = told
  BY DEF TakePage
<1>2. "hplc" \in Boxes /\ dispatcher # Idle
  BY <1>1 DEF Boxes, Idle
<1>3. box' = AllEmpty
  BY <1>1, <1>2, NothingLeft DEF IInv
<1>4. dispatcher.for \in Paged /\ dispatcher.for \in Waits
  BY <1>1, <1>2, StateFacts, WaitFacts DEF IInv, Core
<1>5. m.kind \in Paged /\ m.kind \in Waits \ {"data", "pause"}
  BY <1>2, <1>4, KindFacts DEF IInv, Core, Paged
<1>6. NoneWaited(uart) /\ RequestsInv
  BY <1>1, <1>2, <1>4 DEF IInv, Core, BoxInv, OwnResult, NoneWaited, Paged
<1>7. IsSeq(net)'
  BY <1>1 DEF IInv, IsSeq
<1>8. ASSUME netThen # Changed, data # Err
      PROVE  /\ netThen = net /\ Len(body) \in 0 .. Len(net) /\ body = SubSeq(net, 1, Len(body))
             /\ IsPrefix(body, net)
             /\ IsLast(data, body) => body = net \/ data.body = << >>
  <2>1. netThen = net /\ n \in 0 .. Len(net) /\ items.body = SubSeq(net, 1, n) /\ IsPage(data, n)
    BY <1>1, <1>8 DEF IInv, PagesInv
  <2>2. body = SubSeq(net, 1, n) \o data.body /\ IsSeq(net)
    BY <2>1 DEF IInv
  <2> HIDE DEF n, data, body
  <2>3. /\ Len(body) \in 0 .. Len(net) /\ body = SubSeq(net, 1, Len(body)) /\ IsPrefix(body, net)
        /\ IsLast(data, body) => body = net \/ data.body = << >>
    BY <2>1, <2>2, PageFacts
  <2> QED
    BY <2>1, <2>3
<1> HIDE DEF m, data, body, n
<1>9. CASE data = Err /\ Return(m, Failure) /\ uart' = uart
  <2>1. dispatcher' = Idle /\ Tell(m, Failure)
    BY <1>9 DEF Return
  <2>2. Core'
    BY <1>3, <1>6, <1>9, <2>1, ReturnStep
  <2>3. PagesInv'
    BY <2>1 DEF PagesInv, Idle
  <2>4. ToldInv' /\ Whole
    BY <2>1, NotOfPages DEF IInv
  <2> QED
    BY <1>7, <2>2, <2>3, <2>4 DEF IInv
<1>10. CASE data # Err /\ IsLast(data, body) /\ Return(m, Success(body)) /\ uart' = uart
  <2>1. dispatcher' = Idle /\ Tell(m, Success(body))
    BY <1>10 DEF Return
  <2>2. Core'
    BY <1>3, <1>6, <1>10, <2>1, ReturnStep
  <2>3. PagesInv'
    BY <2>1 DEF PagesInv, Idle
  <2>4. ToldInv' /\ \A x \in Messages : told'[x] # told[x] => Last(told'[x]) = Success(body)
    BY <2>1, TellFacts DEF IInv
  <2>5. Success(body).body = body
    BY DEF Success
  <2>6. netThen # Changed => body = netThen \/ (box["hplc"].body = << >> /\ IsPrefix(body, netThen))
    BY <1>8, <1>10 DEF data
  <2>7. Whole
    BY <2>4, <2>5, <2>6 DEF Whole
  <2> QED
    BY <1>7, <2>2, <2>3, <2>4, <2>7 DEF IInv
<1>11. CASE /\ data # Err /\ items' = [total |-> data.total, body |-> body]
            /\ SendAndWait(m, m.kind, start_index(body)) /\ told' = told
  <2>1. Core' /\ \A i \in 1 .. Len(uart') : IsWaited(uart'[i]) => uart'[i].start = 1 + Len(body)
    BY <1>3, <1>5, <1>6, <1>11, SendStep DEF start_index
  <2>2. items'.body = body
    BY <1>11
  <2>3. Len(net) \in Nat
    BY DEF IInv, IsSeq
  <2>4. PagesInv'
    <3> SUFFICES ASSUME netThen' # Changed
                 PROVE  /\ netThen' = net' /\ Len(items'.body) \in 0 .. Len(net')
                        /\ items'.body = SubSeq(net', 1, Len(items'.body))
                        /\ \A i \in 1 .. Len(uart') : IsWaited(uart'[i]) => uart'[i].start = Len(items'.body) + 1
                        /\ box'["hplc"] = Empty
      BY DEF PagesInv
    <3>1. netThen = net /\ Len(body) \in 0 .. Len(net) /\ body = SubSeq(net, 1, Len(body))
      BY <1>1, <1>8, <1>11
    <3>2. 1 + Len(body) = Len(body) + 1
      BY <2>3, <3>1
    <3>3. box'["hplc"] = Empty
      BY <1>2, <1>3 DEF AllEmpty
    <3> QED
      BY <1>1, <2>1, <2>2, <3>1, <3>2, <3>3
  <2>5. ToldInv' /\ Whole
    BY <1>11, NotOfPages DEF IInv
  <2> QED
    BY <1>7, <2>1, <2>4, <2>5 DEF IInv
<1> QED
  BY <1>1, <1>9, <1>10, <1>11

----------------------------------------------------------------------------
(* The end of a request. *)

\* A query that nobody waits for leaves the queue.
LEMMA QueryStep ==
  ASSUME IInv, uart # <<>>, Head(uart).what = "query", uart' = Tail(uart),
         UNCHANGED <<dispatcher, box, items, net, netThen>>, lost \subseteq lost'
  PROVE  Core' /\ PagesInv'
<1>1. /\ IsSeq(uart') /\ Head(uart) = uart[1] /\ 1 \in 1 .. Len(uart) /\ Len(uart) \in Nat \ {0}
      /\ Len(uart') = Len(uart) - 1
      /\ \A i \in 1 .. Len(uart') : uart'[i] = uart[i + 1] /\ i + 1 \in 1 .. Len(uart)
  BY TakeFacts DEF IInv, Core, RequestsInv
<1>2. RequestsInv'
  <2>1. \A i \in 1 .. Len(uart') : /\ uart'[i].what \in Waits \cup {"query"}
                                   /\ uart'[i].what = "query" => uart'[i].message.kind = "query"
    BY <1>1 DEF IInv, Core, RequestsInv
  <2>2. \A i, j \in 1 .. Len(uart') : IsWaited(uart'[i]) /\ IsWaited(uart'[j]) => i + 1 = j + 1
    BY <1>1 DEF IInv, Core, RequestsInv
  <2>3. \A i, j \in 1 .. Len(uart') : i + 1 = j + 1 => i = j
    BY <1>1
  <2> QED
    BY <1>1, <2>1, <2>2, <2>3 DEF RequestsInv, IsSeq
<1>3. DispatcherInv'
  BY DEF IInv, Core, DispatcherInv
<1>4. CurrentInv'
  BY <1>1 DEF IInv, Core, CurrentInv, OwnRequest
<1>5. BoxInv'
  BY <1>1 DEF IInv, Core, BoxInv, OwnResult
<1>6. NoneWaited(uart') => NoneWaited(uart)
  <2> SUFFICES ASSUME NEW i \in 1 .. Len(uart), IsWaited(uart[i]), NoneWaited(uart')
               PROVE  FALSE
    BY DEF NoneWaited
  <2>1. i # 1
    BY <1>1 DEF IsWaited
  <2>2. i - 1 \in 1 .. Len(uart') /\ (i - 1) + 1 = i
    BY <1>1, <2>1
  <2>3. uart'[i - 1] = uart[i]
    BY <1>1, <2>2
  <2> QED
    BY <2>2, <2>3 DEF NoneWaited
<1>7. SilentInv'
  BY <1>6 DEF IInv, Core, SilentInv
<1>8. PagesInv'
  BY <1>1 DEF IInv, PagesInv, IsPage
<1> QED
  BY <1>2, <1>3, <1>4, <1>5, <1>7, <1>8 DEF Core

\* The request that is waited for leaves the queue; what is left are queries.
LEMMA WaitedFacts ==
  ASSUME Core, uart # <<>>, Head(uart).what # "query"
  PROVE  /\ OwnRequest(Head(uart)) /\ Head(uart).what \in Waits
         /\ BoxOf(Head(uart).what) = dispatcher.waits
         /\ IsSeq(Tail(uart)) /\ NoneWaited(Tail(uart)) /\ Len(Tail(uart)) \in Nat
         /\ \A i \in 1 .. Len(Tail(uart)) : /\ Tail(uart)[i].what = "query"
                                            /\ Tail(uart)[i].message.kind = "query"
<1>1. /\ IsSeq(Tail(uart)) /\ Head(uart) = uart[1] /\ 1 \in 1 .. Len(uart) /\ Len(uart) \in Nat \ {0}
      /\ Len(Tail(uart)) = Len(uart) - 1
      /\ \A i \in 1 .. Len(Tail(uart)) : Tail(uart)[i] = uart[i + 1] /\ i + 1 \in 1 .. Len(uart)
  BY TakeFacts DEF Core, RequestsInv
<1>2. OwnRequest(Head(uart)) /\ Head(uart).what \in Waits
  BY <1>1 DEF Core, CurrentInv, RequestsInv, IsWaited
<1>3. dispatcher.for \in Waits /\ dispatcher.waits = BoxOf(dispatcher.for)
  BY <1>2, StateFacts DEF Core, OwnRequest
<1>4. BoxOf("data") = BoxOf("delay")
  BY DEF BoxOf, Paged
<1>5. BoxOf(Head(uart).what) = dispatcher.waits
  BY <1>2, <1>3, <1>4 DEF OwnRequest
<1>6. \A i \in 1 .. Len(Tail(uart)) : i + 1 # 1
  BY <1>1
<1>7. NoneWaited(Tail(uart))
  BY <1>1, <1>6 DEF Core, RequestsInv, NoneWaited, IsWaited
<1>8. \A i \in 1 .. Len(Tail(uart)) : /\ Tail(uart)[i].what = "query"
                                      /\ Tail(uart)[i].message.kind = "query"
  BY <1>1, <1>7 DEF Core, RequestsInv, NoneWaited, IsWaited
<1> QED
  BY <1>1, <1>2, <1>5, <1>7, <1>8

\* The end of the request is not posted, and is one of those that nobody posts.
Unheard(r) == lost' = lost \cup {r.message} /\ UNCHANGED <<box, told>>

\* Its end is posted to the mailbox that is waited at, or is unheard.
LEMMA EndStep ==
  ASSUME Core, uart # <<>>, Head(uart).what # "query", uart' = Tail(uart),
         dispatcher' = dispatcher,
         \/ \E result : /\ Post(Head(uart), result) /\ result \notin {Empty, Delay}
                        /\ result.is = "page" => result.kind = Head(uart).what /\ Head(uart).what \in Paged
         \/ Unheard(Head(uart))
  PROVE  Core'
<1> DEFINE r == Head(uart)
<1>1. /\ OwnRequest(r) /\ BoxOf(r.what) = dispatcher.waits /\ IsSeq(uart') /\ NoneWaited(uart')
      /\ \A i \in 1 .. Len(uart') : uart'[i].what = "query" /\ uart'[i].message.kind = "query"
  BY WaitedFacts
<1> HIDE DEF r
<1>2. RequestsInv'
  BY <1>1 DEF RequestsInv, NoneWaited, IsSeq
<1>3. DispatcherInv' /\ CurrentInv'
  BY <1>1 DEF Core, DispatcherInv, CurrentInv, NoneWaited
<1>4. dispatcher # Idle /\ dispatcher.waits \in Boxes
  BY <1>1, StateFacts DEF Core, OwnRequest
<1>5. ASSUME NEW result, Post(r, result), result \notin {Empty, Delay},
             result.is = "page" => result.kind = r.what /\ r.what \in Paged
      PROVE  BoxInv' /\ SilentInv'
  <2>1. box' = [box EXCEPT ![dispatcher.waits] = result] /\ box = [b \in Boxes |-> box[b]]
    BY <1>1, <1>5 DEF Post, Core, BoxInv
  <2>2. box'[dispatcher.waits] = result /\ \A b \in Boxes : b # dispatcher.waits => box'[b] = box[b]
    BY <1>4, <2>1
  <2>3. \A b \in Boxes : b # dispatcher.waits => box'[b] = Empty
    BY <2>2 DEF Core, BoxInv, OwnResult
  <2>4. result.is = "page" => result.kind = dispatcher.for
    BY <1>1, <1>5 DEF OwnRequest, Paged
  <2>5. box' = [b \in Boxes |-> box'[b]]
    BY <2>1
  <2>6. BoxInv'
    BY <1>1, <1>4, <2>2, <2>3, <2>4, <2>5 DEF BoxInv, OwnResult, NoneWaited
  <2>7. SilentInv'
    BY <1>5, <2>2 DEF SilentInv
  <2> QED
    BY <2>6, <2>7
<1>6. ASSUME Unheard(r)
      PROVE  BoxInv' /\ SilentInv'
  <2>1. box' = box /\ dispatcher.message \in lost'
    BY <1>1, <1>6 DEF Unheard, OwnRequest
  <2> QED
    BY <1>1, <2>1 DEF Core, BoxInv, OwnResult, SilentInv, NoneWaited
<1> QED
  BY <1>2, <1>3, <1>5, <1>6 DEF Core, r

\* The module answers with a page: it begins where the pages so far end.
LEMMA PageStep ==
  ASSUME IInv, NEW outcome, uart # <<>>, PageEnds(Head(uart), outcome),
         UNCHANGED <<dispatcher, items, net, netThen>>
  PROVE  Core' /\ PagesInv' /\ told' = told
<1> DEFINE r == Head(uart)
           n == Len(items.body)
           PageOf(k) == Page(r.what, Len(net), SubSeq(net, r.start, r.start - 1 + k))
           Answers(k) == (r.start - 1 + k <= Len(net) \/ k = 0) /\ Post(r, PageOf(k))
<1>1. r.what \in Paged /\ uart' = Tail(uart)
  BY DEF PageEnds, Done
<1>2. r.what # "query"
  BY <1>1 DEF Paged
<1>3. \/ \E k \in 0 .. QUERY_NODE_NUMBER : Answers(k)
      \/ Unheard(r)
      \/ Post(r, Err)
  BY DEF PageEnds, Lose, Unspoken, Unheard
<1>4. /\ OwnRequest(r) /\ r.what \in Waits /\ BoxOf(r.what) = dispatcher.waits /\ NoneWaited(uart')
  BY <1>1, <1>2, WaitedFacts DEF IInv
<1>5. told' = told
  BY <1>3 DEF Post, Unheard
<1>6. \A k : /\ PageOf(k) \notin {Empty, Delay} /\ PageOf(k).is = "page" /\ PageOf(k).kind = r.what
             /\ PageOf(k).total = Len(net) /\ PageOf(k).body = SubSeq(net, r.start, r.start - 1 + k)
  <2> TAKE k
  <2> DEFINE body == SubSeq(net, r.start, r.start - 1 + k)
  <2>1. PageOf(k) = Page(r.what, Len(net), body)
    OBVIOUS
  <2> HIDE DEF body, PageOf, r
  <2>2. /\ PageOf(k) \notin {Empty, Delay} /\ PageOf(k).is = "page" /\ PageOf(k).kind = r.what
        /\ PageOf(k).total = Len(net) /\ PageOf(k).body = body
    BY <2>1, ResultFacts
  <2> QED
    BY <2>2 DEF body
<1>7. dispatcher.waits = "hplc"
  BY <1>1, <1>4, WaitFacts
<1> HIDE DEF r, n, PageOf
<1>8. Core'
  <2>1. \/ \E result : /\ Post(r, result) /\ result \notin {Empty, Delay}
                       /\ result.is = "page" => result.kind = r.what /\ r.what \in Paged
        \/ Unheard(r)
    BY <1>1, <1>3, <1>6, ResultFacts
  <2> QED
    BY <1>1, <1>2, <2>1, EndStep DEF IInv, r
<1>9. PagesInv'
  <2> SUFFICES ASSUME netThen # Changed
               PROVE  /\ netThen = net /\ n \in 0 .. Len(net) /\ items.body = SubSeq(net, 1, n)
                      /\ \A i \in 1 .. Len(uart') : IsWaited(uart'[i]) => uart'[i].start = n + 1
                      /\ box'["hplc"] \in {Empty, Err} \/ IsPage(box'["hplc"], n)
    BY DEF PagesInv, IsPage, n
  <2>1. /\ netThen = net /\ n \in 0 .. Len(net) /\ items.body = SubSeq(net, 1, n)
        /\ box["hplc"] \in {Empty, Err} \/ IsPage(box["hplc"], n)
    BY <1>7 DEF IInv, PagesInv, n
  <2>2. r.start = n + 1 /\ Len(net) \in Nat
    <3>1. r = uart[1] /\ 1 \in 1 .. Len(uart)
      BY TakeFacts DEF IInv, Core, RequestsInv, r
    <3> QED
      BY <1>2, <1>7, <3>1 DEF IInv, PagesInv, IsWaited, n, IsSeq
  <2>3. \A result : Post(r, result) => box'["hplc"] = result
    BY <1>4, <1>7 DEF Post, IInv, Core, BoxInv, Boxes
  <2>4. ASSUME NEW k \in 0 .. QUERY_NODE_NUMBER, Answers(k)
        PROVE  IsPage(box'["hplc"], n)
    <3>1. box'["hplc"] = PageOf(k)
      BY <2>3, <2>4
    <3>2. k \in 0 .. Len(net) - n /\ r.start - 1 + k = n + k
      BY <2>1, <2>2, <2>4, DispatchAssumption
    <3> QED
      BY <1>6, <2>2, <3>1, <3>2 DEF IsPage
  <2>5. box'["hplc"] \in {Empty, Err} \/ IsPage(box'["hplc"], n)
    BY <1>3, <2>1, <2>3, <2>4 DEF Unheard
  <2> QED
    BY <1>4, <2>1, <2>5 DEF NoneWaited
<1> QED
  BY <1>5, <1>8, <1>9

\* The module reports a delay: the data are asked for behind it.
LEMMA DelayStep ==
  ASSUME Core, uart # <<>>, Head(uart).what = "delay", dispatcher' = dispatcher,
         Post(Head(uart), Delay), uart' = Append(Tail(uart), Request(Head(uart).message, "data", 0))
  PROVE  Core'
<1> DEFINE r == Head(uart)
           d == Request(r.message, "data", 0)
           n == Len(Tail(uart)) + 1
<1>1. /\ OwnRequest(r) /\ BoxOf(r.what) = dispatcher.waits /\ IsSeq(Tail(uart)) /\ NoneWaited(Tail(uart))
      /\ \A i \in 1 .. Len(Tail(uart)) : Tail(uart)[i].what = "query" /\ Tail(uart)[i].message.kind = "query"
  BY WaitedFacts
<1>2. d.what = "data" /\ d.message = r.message /\ IsWaited(d)
  BY DEF Request, IsWaited
<1> HIDE DEF r, d
<1>3. /\ IsSeq(uart') /\ Len(uart') = n /\ Len(Tail(uart)) \in Nat
      /\ \A i \in 1 .. Len(Tail(uart)) : uart'[i] = Tail(uart)[i]
      /\ uart'[n] = d
  BY <1>1, PutFacts DEF d, r
<1>4. \A i \in 1 .. Len(uart') : \/ /\ uart'[i].what = "query" /\ uart'[i].message.kind = "query"
                                    /\ ~IsWaited(uart'[i])
                                 \/ i = n /\ uart'[i] = d
  BY <1>1, <1>3 DEF NoneWaited
<1> HIDE DEF n
<1>5. RequestsInv'
  <2>1. \A i \in 1 .. Len(uart') : /\ uart'[i].what \in Waits \cup {"query"}
                                   /\ uart'[i].what = "query" => uart'[i].message.kind = "query"
    BY <1>2, <1>4 DEF Waits
  <2>2. \A i, j \in 1 .. Len(uart') : IsWaited(uart'[i]) /\ IsWaited(uart'[j]) => i = j
    BY <1>4
  <2> QED
    BY <1>3, <2>1, <2>2 DEF RequestsInv, IsSeq
<1>6. /\ dispatcher # Idle /\ dispatcher.for = "delay" /\ r.message = dispatcher.message
      /\ dispatcher.waits \in Boxes
  BY <1>1, StateFacts DEF Core, OwnRequest, r
<1>7. DispatcherInv' /\ CurrentInv'
  BY <1>2, <1>4, <1>6 DEF Core, DispatcherInv, CurrentInv, OwnRequest
<1>8. BoxInv'
  <2>1. box' = [box EXCEPT ![dispatcher.waits] = Delay] /\ box = [b \in Boxes |-> box[b]]
    BY <1>1 DEF Post, Core, BoxInv, r
  <2>2. box'[dispatcher.waits] = Delay /\ \A b \in Boxes : b # dispatcher.waits => box'[b] = Empty
    BY <1>6, <2>1 DEF Core, BoxInv, OwnResult
  <2>3. box' = [b \in Boxes |-> box'[b]]
    BY <2>1
  <2>4. \A i \in 1 .. Len(uart') : IsWaited(uart'[i]) => uart'[i].what = "data"
    BY <1>2, <1>4
  <2> QED
    BY <1>6, <2>2, <2>3, <2>4, ResultFacts DEF BoxInv, OwnResult
<1>9. SilentInv'
  <2>1. n \in 1 .. Len(uart')
    BY <1>3 DEF n
  <2>2. ~NoneWaited(uart')
    BY <1>2, <1>3, <2>1 DEF NoneWaited
  <2> QED
    BY <2>2 DEF SilentInv
<1> QED
  BY <1>5, <1>7, <1>8, <1>9 DEF Core

\* A request ends, whatever it is and however it ends.
LEMMA AgentStep == IInv /\ Agent => IInv' /\ Whole
<1> SUFFICES ASSUME IInv, NEW outcome \in Outcomes, RequestEnds(outcome) PROVE IInv' /\ Whole
  BY DEF Agent
<1> DEFINE r == Head(uart)
<1>1. /\ uart # <<>> /\ UNCHANGED <<dispatcher, items, net, netThen>>
      /\ \/ QueryEnds(r, outcome) \/ PageEnds(r, outcome) \/ DataEnds(r, outcome)
         \/ DelayEnds(r, outcome) \/ PauseEnds(r, outcome)
  BY DEF RequestEnds
<1>2. IsSeq(net)'
  BY <1>1 DEF IInv, IsSeq
<1> HIDE DEF r
<1>3. CASE QueryEnds(r, outcome)
  <2>1. /\ r.what = "query" /\ uart' = Tail(uart) /\ box' = box /\ lost \subseteq lost'
        /\ told' = told \/ \E reply : Tell(r.message, reply)
    BY <1>3 DEF QueryEnds, Done, Lose
  <2>2. Core' /\ PagesInv'
    BY <1>1, <2>1, QueryStep DEF r
  <2>3. r.message.kind \notin Paged
    <3>1. r = uart[1] /\ 1 \in 1 .. Len(uart)
      BY <1>1, TakeFacts DEF IInv, Core, RequestsInv, r
    <3>2. r.message.kind = "query"
      BY <2>1, <3>1 DEF IInv, Core, RequestsInv
    <3> QED
      BY <3>2 DEF Paged
  <2>4. ToldInv' /\ Whole
    BY <2>1, <2>3, NotOfPages DEF IInv
  <2> QED
    BY <1>2, <2>2, <2>4 DEF IInv
<1>4. CASE PageEnds(r, outcome)
  <2>1. Core' /\ PagesInv' /\ told' = told
    BY <1>1, <1>4, PageStep DEF r
  <2>2. ToldInv' /\ Whole
    BY <2>1, NotOfPages DEF IInv
  <2> QED
    BY <1>2, <2>1, <2>2 DEF IInv
<1>5. CASE DataEnds(r, outcome) \/ DelayEnds(r, outcome) \/ PauseEnds(r, outcome)
  <2>1. /\ r.what \in {"node", "data", "transfer", "delay", "pause"} /\ told' = told
        /\ \/ /\ uart' = Tail(uart)
              /\ Post(r, Ok) \/ Post(r, Err) \/ Unheard(r)
           \/ /\ r.what = "delay" /\ Post(r, Delay)
              /\ uart' = Append(Tail(uart), Request(r.message, "data", 0))
    BY <1>5 DEF Outcomes, DataEnds, DelayEnds, PauseEnds, Done, Post, Lose, Unspoken, Unheard
  <2>2. Core'
    <3>1. CASE uart' = Tail(uart) /\ (Post(r, Ok) \/ Post(r, Err) \/ Unheard(r))
      <4>1. \/ \E result : /\ Post(r, result) /\ result \notin {Empty, Delay}
                           /\ result.is = "page" => result.kind = r.what /\ r.what \in Paged
            \/ Unheard(r)
        BY <3>1, ResultFacts
      <4> QED
        BY <1>1, <2>1, <3>1, <4>1, EndStep DEF IInv, r
    <3>2. CASE /\ r.what = "delay" /\ Post(r, Delay)
               /\ uart' = Append(Tail(uart), Request(r.message, "data", 0))
      BY <1>1, <3>2, DelayStep DEF IInv, r
    <3> QED
      BY <2>1, <3>1, <3>2
  <2>3. dispatcher.waits # "hplc"
    <3>1. r.what \in Waits /\ BoxOf(r.what) = dispatcher.waits
      BY <1>1, <2>1, WaitedFacts DEF IInv, r
    <3>2. r.what \notin Paged
      BY <2>1 DEF Paged
    <3> QED
      BY <3>1, <3>2, WaitFacts
  <2>4. PagesInv'
    BY <1>1, <2>3 DEF PagesInv
  <2>5. ToldInv' /\ Whole
    BY <2>1, NotOfPages DEF IInv
  <2> QED
    BY <1>2, <2>2, <2>4, <2>5 DEF IInv
<1> QED
  BY <1>1, <1>3, <1>4, <1>5

\* A message arrives or is looked at, or the network changes.
LEMMA OutsideStep ==
  IInv /\ ((\E m \in Messages : ClientSends(m)) \/ Receive \/ NetChanges \/ UNCHANGED vars) => IInv' /\ Whole
<1> SUFFICES ASSUME IInv, (\E m \in Messages : ClientSends(m)) \/ Receive \/ NetChanges \/ UNCHANGED vars
             PROVE  IInv' /\ Whole
  OBVIOUS
<1>1. UNCHANGED <<dispatcher, uart, box, items, lost>>
  BY DEF ClientSends, Receive, NetChanges, vars
<1>2. told' = told \/ \E m : Tell(m, Failure)
  BY DEF ClientSends, Receive, Accept, Reject, Panic, NetChanges, vars
<1>3. ToldInv' /\ Whole
  BY <1>2, NotOfPages DEF IInv
<1>4. Core'
  <2>1. RequestsInv' /\ DispatcherInv'
    BY <1>1 DEF IInv, Core, RequestsInv, DispatcherInv, IsSeq
  <2>2. CurrentInv' /\ BoxInv' /\ SilentInv'
    BY <1>1 DEF IInv, Core, CurrentInv, OwnRequest, BoxInv, OwnResult, SilentInv
  <2> QED
    BY <2>1, <2>2 DEF Core
<1>5. CASE net' = net /\ netThen' = netThen
  BY <1>1, <1>3, <1>4, <1>5 DEF IInv, IsSeq, PagesInv, IsPage
<1>6. CASE NetChanges
  <2>1. IsSeq(net)'
    <3>1. IsSeq(net) /\ \/ net' = Append(net, Newcomer)
                        \/ net # <<>> /\ net' = Tail(net)
      BY <1>6 DEF IInv, NetChanges
    <3>2. IsSeq(Append(net, Newcomer)) /\ (net # <<>> => IsSeq(Tail(net)))
      BY <3>1, PutFacts, TakeFacts
    <3>3. IsSeq(net')
      BY <3>1, <3>2
    <3> QED
      BY <3>3 DEF IsSeq
  <2>2. PagesInv'
    BY <1>6 DEF NetChanges, PagesInv
  <2> QED
    BY <1>3, <1>4, <2>1, <2>2 DEF IInv
<1> QED
  BY <1>5, <1>6 DEF ClientSends, Receive, vars

----------------------------------------------------------------------------
(* The theorems. *)

\* Every step keeps the invariant and answers no client with half of the network.
LEMMA InvStep == IInv /\ [Next]_vars => IInv' /\ Whole
  BY PopStep, TakePageStep, TakeDataStep, TakeDelayStep, TakePauseStep, AgentStep, OutsideStep DEF Next, Dispatcher

\* The inductive invariant holds of every behaviour.
THEOREM Invariance == Spec => []IInv
<1>1. Init => IInv
  <2> SUFFICES ASSUME Init PROVE IInv
    OBVIOUS
  <2>1. uart = <<>> /\ dispatcher = Idle /\ box = [b \in Boxes |-> Empty] /\ net = Net0
        /\ told = [m \in Messages |-> <<>>]
    BY DEF Init
  <2>2. IsSeq(<<>>) /\ Len(<<>>) = 0
    BY DEF IsSeq
  <2>3. RequestsInv /\ DispatcherInv /\ CurrentInv
    BY <2>1, <2>2 DEF RequestsInv, DispatcherInv, CurrentInv
  <2>4. BoxInv /\ SilentInv
    BY <2>1 DEF BoxInv, SilentInv
  <2>5. PagesInv /\ ToldInv
    BY <2>1, <2>2 DEF PagesInv, ToldInv, Idle
  <2>6. IsSeq(net)
    BY <2>1, DispatchAssumption DEF IsSeq
  <2> QED
    BY <2>3, <2>4, <2>5, <2>6 DEF IInv, Core
<1>2. IInv /\ [Next]_vars => IInv'
  BY InvStep
<1> QED
  BY <1>1, <1>2, PTL DEF Spec

\* A result in a mailbox is for the message that is handled, and no request of an earlier
\* one is left that could post one.
THEOREM CurrentMailbox == Spec => []MailboxIsCurrent
<1>1. IInv => MailboxIsCurrent
  <2> SUFFICES ASSUME IInv PROVE MailboxIsCurrent
    OBVIOUS
  <2>1. DOMAIN uart = 1 .. Len(uart)
    BY DEF IInv, Core, RequestsInv, IsSeq
  <2> QED
    BY <2>1 DEF IInv, Core, BoxInv, OwnResult, CurrentInv, OwnRequest, IsWaited, MailboxIsCurrent
<1> QED
  BY <1>1, Invariance, PTL

\* What the dispatcher waits for, a pause included, is under way or in the mailbox, unless
\* its end was one of the three that nobody posts.
THEOREM WaitIsHeard == Spec => []NoSilentWait
<1>1. IInv => NoSilentWait
  <2> SUFFICES ASSUME IInv, dispatcher # Idle, ~NoneWaited(uart)
               PROVE  dispatcher.message \in Open
    BY DEF IInv, Core, SilentInv, NoSilentWait
  <2>1. DOMAIN uart = 1 .. Len(uart)
    BY DEF IInv, Core, RequestsInv, IsSeq
  <2>2. PICK i \in 1 .. Len(uart) : IsWaited(uart[i])
    BY DEF NoneWaited
  <2>3. uart[i].message = dispatcher.message
    BY <2>2 DEF IInv, Core, CurrentInv, OwnRequest
  <2> QED
    BY <2>1, <2>2, <2>3 DEF Open
<1> QED
  BY <1>1, Invariance, PTL

\* A client that asks for the nodes is told all of them once and in order, if the network
\* does not change meanwhile, unless an empty page ends the list.
THEOREM WholePages == Spec => PagesAreWhole
<1>1. IInv /\ [Next]_vars => [Whole]_vars
  BY InvStep
<1> QED
  BY <1>1, Invariance, PTL DEF Spec, PagesAreWhole, Whole

----------------------------------------------------------------------------
(* The heap: what a push or a pop leaves in its vector is a rearrangement,  *)
(* however its elements compare.                                            *)

\* The least element of a set of natural numbers, for induction.
LEMMA LeastNat ==
  ASSUME NEW S \in SUBSET Nat, S # {}
  PROVE  \E x \in S : \A y \in S : x <= y
<1> DEFINE R == OpToRel(<, Nat)
<1>1. IsWellFoundedOn(R, Nat)
  BY NatLessThanWellFounded, Zenon
<1>2. \A x, y \in Nat : <<y, x>> \in R <=> y < x
  BY DEF OpToRel
<1> HIDE DEF R
<1>3. PICK x \in S : \A y \in S : <<y, x>> \notin R
  BY <1>1, WFMin
<1>4. ASSUME NEW y \in S
      PROVE  x <= y
  <2>1. x \in Nat /\ y \in Nat
    OBVIOUS
  <2>2. <<y, x>> \notin R
    BY <1>3
  <2>3. ~(y < x)
    BY <1>2, <2>1, <2>2, Zenon
  <2> QED
    BY <2>1, <2>3
<1> QED
  BY <1>4

\* A bounded set that is not empty has a greatest element.
LEMMA MaxFacts ==
  ASSUME NEW n \in Nat, NEW S \in SUBSET (1 .. n), S # {}
  PROVE  Max(S) \in S /\ \A y \in S : y <= Max(S)
<1> DEFINE T == {d \in Nat : n - d \in S}
<1>1. T \in SUBSET Nat /\ T # {}
  <2>1. PICK y \in S : TRUE
    OBVIOUS
  <2>2. n - y \in Nat /\ n - (n - y) = y
    OBVIOUS
  <2> QED
    BY <2>2
<1>2. PICK d \in T : \A e \in T : d <= e
  BY <1>1, LeastNat
<1>3. n - d \in S
  OBVIOUS
<1>4. ASSUME NEW y \in S
      PROVE  n - d >= y
  <2>1. y \in 1 .. n /\ n - y \in Nat /\ n - (n - y) = y
    OBVIOUS
  <2>2. n - y \in T
    BY <2>1
  <2>3. d <= n - y /\ d \in Nat
    BY <1>2, <2>2
  <2> QED
    BY <2>1, <2>3
<1>5. \E x \in S : \A y \in S : x >= y
  BY <1>3, <1>4
<1>6. Max(S) \in S /\ \A y \in S : Max(S) >= y
  BY <1>5 DEF Max
<1> QED
  BY <1>6

\* The recursive definition of Ancestors has a solution: the places that are in every set
\* with p that is closed under halving.
LEMMA AncestorsDef ==
  \A p \in Nat : Ancestors[p] = IF p = 0 THEN {} ELSE {p} \cup Ancestors[p \div 2]
<1> DEFINE Closed(S) == \A q \in S : q \div 2 \in S
           W(p) == {j \in 1 .. p : \A S \in SUBSET Nat : p \in S /\ Closed(S) => j \in S}
           f == [p \in Nat |-> W(p)]
<1>1. ASSUME NEW p \in Nat, p # 0
      PROVE  W(p) = {p} \cup W(p \div 2)
  <2>1. p \div 2 \in Nat /\ p \div 2 < p /\ p \in 1 .. p /\ p \div 2 \in 0 .. p \div 2
    BY <1>1
  <2>2. p \in W(p)
    BY <2>1
  <2>3. ASSUME NEW j \in W(p \div 2)
        PROVE  j \in W(p)
    <3>1. j \in 1 .. p
      BY <2>1
    <3>2. ASSUME NEW S \in SUBSET Nat, p \in S, Closed(S)
          PROVE  j \in S
      <4>1. p \div 2 \in S
        BY <3>2
      <4> QED
        BY <3>2, <4>1
    <3> QED
      BY <3>1, <3>2
  <2>4. ASSUME NEW j \in W(p), j # p
        PROVE  j \in W(p \div 2)
    <3>1. ASSUME NEW S \in SUBSET Nat, p \div 2 \in S, Closed(S)
          PROVE  j \in S
      <4>1. S \cup {p} \in SUBSET Nat /\ p \in S \cup {p} /\ Closed(S \cup {p})
        BY <3>1
      <4>2. j \in S \cup {p}
        BY <4>1
      <4> QED
        BY <2>4, <4>2
    <3>2. (0 .. p \div 2) \in SUBSET Nat /\ Closed(0 .. p \div 2)
      <4>1. \A q \in 0 .. p \div 2 : q \div 2 \in 0 .. p \div 2
        BY <2>1
      <4> QED
        BY <4>1
    <3>3. j \in 0 .. p \div 2
      BY <2>1, <3>1, <3>2
    <3>4. j \in 1 .. p \div 2
      BY <2>1, <3>3
    <3> QED
      BY <3>1, <3>4
  <2> QED
    BY <2>2, <2>3, <2>4
<1>2. W(0) = {}
  OBVIOUS
<1> HIDE DEF W
<1>3. \A p \in Nat : p \div 2 \in Nat
  OBVIOUS
<1>4. f = [p \in Nat |-> IF p = 0 THEN {} ELSE {p} \cup f[p \div 2]]
  BY <1>1, <1>2, <1>3
<1> HIDE DEF f
<1> DEFINE A == CHOOSE g : g = [p \in Nat |-> IF p = 0 THEN {} ELSE {p} \cup g[p \div 2]]
<1>5. A = [p \in Nat |-> IF p = 0 THEN {} ELSE {p} \cup A[p \div 2]]
  BY <1>4
<1>6. Ancestors = A
  BY DEF Ancestors
<1> HIDE DEF A
<1> QED
  BY <1>5, <1>6

\* The way to the root goes through one place of each generation.
WayOf(i) ==
  LET A == Ancestors[i] IN
  /\ A \subseteq 1 .. i /\ i \in A /\ 1 \in A
  /\ \A p \in A \ {1} : p \div 2 \in A
  /\ \A p, q \in A : p < q => p <= q \div 2
  /\ \A k \in A \ {i} : \E p \in A \ {1} : p \div 2 = k

\* By induction: the way from i is i and the way from its parent.
LEMMA WayFacts ==
  ASSUME NEW i \in Nat \ {0}
  PROVE  WayOf(i)
<1> DEFINE B == {p \in Nat \ {0} : ~WayOf(p)}
<1>1. SUFFICES ASSUME B # {} PROVE FALSE
  OBVIOUS
<1>2. PICK b \in B : \A y \in B : b <= y
  BY <1>1, LeastNat
<1>3. b \in Nat \ {0} /\ ~WayOf(b)
  OBVIOUS
<1>4. Ancestors[0] = {}
  BY AncestorsDef
<1>5. CASE b = 1
  <2>1. 1 \in Nat /\ 1 # 0 /\ 1 \div 2 = 0
    OBVIOUS
  <2>2. Ancestors[1] = {1} \cup Ancestors[1 \div 2]
    BY <2>1, AncestorsDef
  <2>3. Ancestors[1] = {1}
    BY <1>4, <2>1, <2>2
  <2>4. WayOf(1)
    BY <2>3 DEF WayOf
  <2> QED
    BY <1>3, <1>5, <2>4
<1>6. CASE b # 1
  <2>1. PICK h \in Nat \ {0} : h = b \div 2 /\ h < b
    BY <1>3, <1>6
  <2>2. h \notin B
    BY <1>2, <1>3, <2>1
  <2>3. WayOf(h)
    BY <2>2
  <2> HIDE DEF B
  <2>4. Ancestors[b] = {b} \cup Ancestors[h]
    BY <1>3, <2>1, AncestorsDef
  <2> DEFINE A == Ancestors[h]
             Z == Ancestors[b]
  <2>5. /\ A \subseteq 1 .. h /\ h \in A /\ 1 \in A
        /\ \A p \in A \ {1} : p \div 2 \in A
        /\ \A p, q \in A : p < q => p <= q \div 2
        /\ \A k \in A \ {h} : \E p \in A \ {1} : p \div 2 = k
    BY <2>3 DEF WayOf
  <2>6. Z = {b} \cup A
    BY <2>4
  <2> HIDE DEF A, Z
  <2>7. Z \subseteq 1 .. b /\ b \in Z /\ 1 \in Z
    BY <1>3, <2>1, <2>5, <2>6
  <2>8. \A p \in Z \ {1} : p \div 2 \in Z
    BY <2>1, <2>5, <2>6
  <2>9. \A p, q \in Z : p < q => p <= q \div 2
    <3> SUFFICES ASSUME NEW p \in Z, NEW q \in Z, p < q PROVE p <= q \div 2
      OBVIOUS
    <3>1. p \in 1 .. b /\ q \in 1 .. b /\ b \in Nat /\ h \in Nat
      BY <1>3, <2>7
    <3>2. p \in A
      BY <2>6, <3>1
    <3>3. CASE q = b
      BY <2>1, <2>5, <3>2, <3>3
    <3>4. CASE q \in A
      BY <2>5, <3>2, <3>4
    <3> QED
      BY <2>6, <3>3, <3>4
  <2>10. \A k \in Z \ {b} : \E p \in Z \ {1} : p \div 2 = k
    BY <1>6, <2>1, <2>5, <2>6, <2>7
  <2> QED
    BY <1>3, <2>7, <2>8, <2>9, <2>10 DEF WayOf, Z
<1> QED
  BY <1>5, <1>6

\* g holds the elements of h, each once, in some order s.
Rearranges(s, g, h, n) ==
  /\ s \in [1 .. n -> 1 .. n]
  /\ \A i, j \in 1 .. n : s[i] = s[j] => i = j
  /\ \A k \in 1 .. n : \E i \in 1 .. n : s[i] = k
  /\ \A i \in 1 .. n : g[i] = h[s[i]]

Rearranged(g, h, n) == g = [i \in 1 .. n |-> g[i]] /\ \E s : Rearranges(s, g, h, n)

\* An element moves up to the greatest place on its way where it may stay, and those
\* between move down by one place of the way.
LEMMA SiftUpFacts ==
  ASSUME NEW n \in Nat, NEW h, DOMAIN h = 1 .. n, NEW from \in 1 .. n
  PROVE  Rearranged(SiftUp(h, from), h, n)
<1> DEFINE A == Ancestors[from]
           C == {p \in A : p = 1 \/ AtMost(h[from], h[p \div 2])}
           to == Max(C)
           s == [i \in 1 .. n |-> IF i = to THEN from ELSE IF i \in A /\ i > to THEN i \div 2 ELSE i]
           g == SiftUp(h, from)
<1>1. WayOf(from)
  BY WayFacts
<1>2. /\ A \subseteq 1 .. from /\ from \in A /\ 1 \in A
      /\ \A p \in A \ {1} : p \div 2 \in A
      /\ \A p, q \in A : p < q => p <= q \div 2
      /\ \A k \in A \ {from} : \E p \in A \ {1} : p \div 2 = k
  BY <1>1 DEF WayOf
<1>3. g = [i \in 1 .. n |-> IF i = to THEN h[from] ELSE IF i \in A /\ i > to THEN h[i \div 2] ELSE h[i]]
  BY DEF SiftUp
<1> HIDE DEF A
<1>4. C \in SUBSET (1 .. from) /\ C # {} /\ from \in Nat
  <2>1. C \in SUBSET (1 .. from) /\ 1 \in C
    BY <1>2, Zenon
  <2> QED
    BY <2>1
<1>5. to \in C
  <2> HIDE DEF C
  <2> QED
    BY <1>4, MaxFacts
<1>6. to \in A /\ to \in 1 .. from /\ from \in 1 .. n
  BY <1>2, <1>5
<1> HIDE DEF to, C, g
<1>7. \A i \in 1 .. n : i \in A /\ i > to => i \div 2 \in A /\ i \div 2 >= to /\ i \div 2 < i /\ i <= from
  BY <1>2, <1>6
<1>8. s \in [1 .. n -> 1 .. n]
  BY <1>6, <1>7
<1>9. ASSUME NEW i \in 1 .. n, NEW j \in 1 .. n, s[i] = s[j], i < j
      PROVE  FALSE
  <2>1. CASE i = to
    BY <1>2, <1>6, <1>7, <1>9, <2>1
  <2>2. CASE j = to
    BY <1>2, <1>6, <1>7, <1>9, <2>2
  <2>3. CASE i # to /\ j # to /\ i \in A /\ i > to /\ j \in A
    BY <1>2, <1>7, <1>9, <2>3
  <2>4. CASE i # to /\ j # to /\ ~(i \in A /\ i > to)
    BY <1>6, <1>7, <1>9, <2>4
  <2>5. CASE i # to /\ j # to /\ i \in A /\ i > to /\ j \notin A
    BY <1>6, <1>7, <1>9, <2>5
  <2> QED
    BY <2>1, <2>2, <2>3, <2>4, <2>5
<1>10. \A i, j \in 1 .. n : s[i] = s[j] => i = j
  <2> SUFFICES ASSUME NEW i \in 1 .. n, NEW j \in 1 .. n, s[i] = s[j], i # j PROVE FALSE
    OBVIOUS
  <2>1. i < j \/ j < i
    OBVIOUS
  <2> HIDE DEF s
  <2> QED
    BY <1>9, <2>1
<1>11. ASSUME NEW k \in 1 .. n
       PROVE  \E i \in 1 .. n : s[i] = k
  <2>1. CASE k = from
    BY <1>6, <2>1
  <2>2. CASE k # from /\ k \in A /\ k >= to
    <3>1. PICK p \in A \ {1} : p \div 2 = k
      BY <1>2, <2>2
    <3>2. p \in 1 .. n /\ p > to
      BY <1>2, <1>6, <2>2, <3>1
    <3>3. s[p] = k
      BY <3>1, <3>2
    <3> QED
      BY <3>2, <3>3
  <2>3. CASE k # from /\ ~(k \in A /\ k >= to)
    <3>1. s[k] = k
      BY <1>6, <2>3
    <3> QED
      BY <3>1
  <2> QED
    BY <2>1, <2>2, <2>3
<1>12. \A i \in 1 .. n : g[i] = h[s[i]]
  BY <1>3
<1>13. g = [i \in 1 .. n |-> g[i]]
  BY <1>3
<1> HIDE DEF s
<1>14. Rearranges(s, g, h, n)
  BY <1>8, <1>10, <1>11, <1>12 DEF Rearranges
<1> QED
  BY <1>13, <1>14 DEF Rearranged, g

\* A function on 1 .. n is a sequence.
LEMMA FunctionIsSeq ==
  ASSUME NEW n \in Nat, NEW g, g = [i \in 1 .. n |-> g[i]]
  PROVE  IsSeq(g) /\ Len(g) = n /\ DOMAIN g = 1 .. n
<1>1. DOMAIN g = 1 .. n
  OBVIOUS
<1>2. \A i \in 1 .. n : g[i] \in Range(g)
  BY <1>1 DEF Range
<1>3. g \in [1 .. n -> Range(g)]
  BY <1>2
<1>4. g \in Seq(Range(g))
  BY <1>3
<1> QED
  BY <1>1, <1>4 DEF IsSeq

\* One rearrangement after another is a rearrangement.
LEMMA RearrangedTwice ==
  ASSUME NEW n \in Nat, NEW f, NEW g, NEW h, Rearranged(f, g, n), Rearranged(g, h, n)
  PROVE  Rearranged(f, h, n)
<1>1. PICK s : Rearranges(s, f, g, n)
  BY DEF Rearranged
<1>2. PICK t : Rearranges(t, g, h, n)
  BY DEF Rearranged
<1> DEFINE r == [i \in 1 .. n |-> t[s[i]]]
<1>3. r \in [1 .. n -> 1 .. n] /\ \A i \in 1 .. n : f[i] = h[r[i]]
  BY <1>1, <1>2 DEF Rearranges
<1>4. ASSUME NEW i \in 1 .. n, NEW j \in 1 .. n, r[i] = r[j]
      PROVE  i = j
  <2>1. s[i] \in 1 .. n /\ s[j] \in 1 .. n
    BY <1>1 DEF Rearranges
  <2>2. t[s[i]] = t[s[j]]
    BY <1>4
  <2>3. s[i] = s[j]
    BY <1>2, <2>1, <2>2 DEF Rearranges
  <2> QED
    BY <1>1, <2>3 DEF Rearranges
<1>5. ASSUME NEW k \in 1 .. n
      PROVE  \E i \in 1 .. n : r[i] = k
  <2>1. PICK j \in 1 .. n : t[j] = k
    BY <1>2 DEF Rearranges
  <2>2. PICK i \in 1 .. n : s[i] = j
    BY <1>1 DEF Rearranges
  <2> QED
    BY <2>1, <2>2
<1> HIDE DEF r
<1>6. Rearranges(r, f, h, n)
  BY <1>3, <1>4, <1>5 DEF Rearranges
<1> QED
  BY <1>6 DEF Rearranged

\* The first element moves down along the greater children to a leaf, and those on its way
\* move up by one place; then it moves up again.
LEMMA SiftDownFacts ==
  ASSUME NEW n \in Nat \ {0}, NEW h, h = [i \in 1 .. n |-> h[i]]
  PROVE  Rearranged(SiftDownToBottom(h), h, n)
<1> DEFINE Child(p) == IF 2 * p + 1 <= n /\ AtMost(h[2 * p], h[2 * p + 1]) THEN 2 * p + 1 ELSE 2 * p
           OnWay(p) == \A q \in Ancestors[p] \ {1} : q = Child(q \div 2)
           to == CHOOSE p \in 1 .. n : 2 * p > n /\ OnWay(p)
           A == Ancestors[to]
           g == [i \in 1 .. n |-> IF i = to THEN h[1] ELSE IF i \in A THEN h[Child(i)] ELSE h[i]]
           s == [i \in 1 .. n |-> IF i = to THEN 1 ELSE IF i \in A THEN Child(i) ELSE i]
<1>1. Len(h) = n /\ DOMAIN h = 1 .. n
  BY FunctionIsSeq
<1>2. SiftDownToBottom(h) = SiftUp(g, to)
  BY <1>1 DEF SiftDownToBottom
<1>3. \A p \in 1 .. n : /\ Child(p) \div 2 = p /\ Child(p) > p /\ Child(p) \in Nat \ {0, 1}
                        /\ 2 * p <= n => Child(p) \in 1 .. n
  OBVIOUS
<1> HIDE DEF Child
<1>4. \E p \in 1 .. n : 2 * p > n /\ OnWay(p)
  <2> DEFINE G == {p \in 1 .. n : OnWay(p)}
  <2>1. OnWay(1)
    <3>1. WayOf(1)
      BY WayFacts
    <3>2. Ancestors[1] \subseteq {1}
      BY <3>1 DEF WayOf
    <3> QED
      BY <3>2
  <2>2. G \in SUBSET (1 .. n) /\ G # {}
    BY <2>1
  <2>3. PICK m \in G : \A y \in G : y <= m
    <3> HIDE DEF G
    <3> QED
      BY <2>2, MaxFacts
  <2>4. ASSUME 2 * m <= n
        PROVE  FALSE
    <3>1. m \in 1 .. n /\ OnWay(m)
      OBVIOUS
    <3>2. PICK c \in 1 .. n : c = Child(m) /\ c \div 2 = m /\ c > m /\ c # 0
      BY <1>3, <2>4, <3>1
    <3>3. Ancestors[c] = {c} \cup Ancestors[m]
      <4>1. c \in Nat
        OBVIOUS
      <4>2. Ancestors[c] = {c} \cup Ancestors[c \div 2]
        BY <3>2, <4>1, AncestorsDef, Zenon
      <4> QED
        BY <3>2, <4>2
    <3>4. OnWay(c)
      BY <3>1, <3>2, <3>3
    <3>5. c \in G
      BY <3>4
    <3> QED
      BY <2>3, <3>2, <3>5
  <2> QED
    BY <2>4
<1>5. to \in 1 .. n /\ 2 * to > n /\ OnWay(to)
  BY <1>4
<1> HIDE DEF to
<1>6. WayOf(to)
  BY <1>5, WayFacts
<1>7. /\ A \subseteq 1 .. to /\ to \in A /\ 1 \in A
      /\ \A p \in A \ {1} : p \div 2 \in A
      /\ \A k \in A \ {to} : \E p \in A \ {1} : p \div 2 = k
      /\ \A q \in A \ {1} : q = Child(q \div 2)
  BY <1>5, <1>6 DEF WayOf
<1> HIDE DEF A, OnWay
<1>8. \A i \in A \ {to} : Child(i) \in A \ {1} /\ Child(i) \div 2 = i
  BY <1>3, <1>5, <1>7
<1>9. s \in [1 .. n -> 1 .. n]
  BY <1>5, <1>7, <1>8
<1>10. \A i, j \in 1 .. n : s[i] = s[j] => i = j
  <2> SUFFICES ASSUME NEW i \in 1 .. n, NEW j \in 1 .. n, s[i] = s[j] PROVE i = j
    OBVIOUS
  <2>1. CASE i = to
    BY <1>7, <1>8, <2>1
  <2>2. CASE j = to
    BY <1>7, <1>8, <2>2
  <2>3. CASE i # to /\ j # to
    BY <1>8, <2>3
  <2> QED
    BY <2>1, <2>2, <2>3
<1>11. ASSUME NEW k \in 1 .. n
       PROVE  \E i \in 1 .. n : s[i] = k
  <2>1. CASE k = 1
    BY <1>5, <2>1
  <2>2. CASE k # 1 /\ k \in A
    <3>1. k \div 2 \in A /\ k = Child(k \div 2) /\ k \div 2 # to /\ k \div 2 \in 1 .. n
      BY <1>5, <1>7, <2>2
    <3> QED
      BY <3>1
  <2>3. CASE k # 1 /\ k \notin A
    BY <1>7, <2>3
  <2> QED
    BY <2>1, <2>2, <2>3
<1>12. \A i \in 1 .. n : g[i] = h[s[i]]
  OBVIOUS
<1>13. g = [i \in 1 .. n |-> g[i]] /\ DOMAIN g = 1 .. n
  OBVIOUS
<1> HIDE DEF s, g
<1>14. Rearranges(s, g, h, n)
  BY <1>9, <1>10, <1>11, <1>12 DEF Rearranges
<1>15. Rearranged(g, h, n)
  BY <1>13, <1>14 DEF Rearranged
<1>16. Rearranged(SiftUp(g, to), g, n)
  BY <1>5, <1>13, SiftUpFacts
<1> QED
  BY <1>2, <1>15, <1>16, RearrangedTwice

\* Each message is in the vector once.
Distinct(h) == \A i, j \in 1 .. Len(h) : h[i].message = h[j].message => i = j
Held(h) == {h[i].message : i \in 1 .. Len(h)}

\* A rearrangement holds the same messages.
LEMMA HeldFacts ==
  ASSUME NEW n \in Nat, NEW g, NEW h, Rearranged(g, h, n), Len(h) = n
  PROVE  IsSeq(g) /\ Len(g) = n /\ Held(g) = Held(h) /\ (Distinct(h) => Distinct(g))
<1>1. IsSeq(g) /\ Len(g) = n
  BY FunctionIsSeq DEF Rearranged
<1>2. PICK s : Rearranges(s, g, h, n)
  BY DEF Rearranged
<1>3. /\ s \in [1 .. n -> 1 .. n]
      /\ \A i, j \in 1 .. n : s[i] = s[j] => i = j
      /\ \A k \in 1 .. n : \E i \in 1 .. n : s[i] = k
      /\ \A i \in 1 .. n : g[i] = h[s[i]]
  BY <1>2 DEF Rearranges
<1>4. Held(g) = {g[i].message : i \in 1 .. n} /\ Held(h) = {h[i].message : i \in 1 .. n}
  BY <1>1 DEF Held
<1>5. ASSUME NEW i \in 1 .. n
      PROVE  g[i].message \in Held(h)
  <2>1. s[i] \in 1 .. n /\ g[i] = h[s[i]]
    BY <1>3
  <2> QED
    BY <1>4, <2>1
<1>6. ASSUME NEW k \in 1 .. n
      PROVE  h[k].message \in Held(g)
  <2>1. PICK i \in 1 .. n : s[i] = k
    BY <1>3
  <2>2. g[i] = h[k]
    BY <1>3, <2>1
  <2> QED
    BY <1>4, <2>2
<1>7. Held(g) = Held(h)
  <2>1. ASSUME NEW x \in Held(g) PROVE x \in Held(h)
    <3>1. PICK i \in 1 .. n : x = g[i].message
      BY <1>4
    <3> QED
      BY <1>5, <3>1
  <2>2. ASSUME NEW x \in Held(h) PROVE x \in Held(g)
    <3>1. PICK k \in 1 .. n : x = h[k].message
      BY <1>4
    <3> QED
      BY <1>6, <3>1
  <2> QED
    BY <2>1, <2>2
<1>8. ASSUME Distinct(h)
      PROVE  Distinct(g)
  <2> SUFFICES ASSUME NEW i \in 1 .. n, NEW j \in 1 .. n, g[i].message = g[j].message
               PROVE  i = j
    BY <1>1 DEF Distinct
  <2>1. s[i] \in 1 .. n /\ s[j] \in 1 .. n /\ h[s[i]].message = h[s[j]].message
    BY <1>3
  <2>2. s[i] = s[j]
    BY <1>8, <2>1 DEF Distinct
  <2> QED
    BY <1>3, <2>2
<1> QED
  BY <1>1, <1>7, <1>8

\* A push adds its message and a pop takes the first one; both keep all others.
LEMMA PushFacts ==
  ASSUME NEW h, IsSeq(h), NEW x
  PROVE  /\ IsSeq(HeapPush(h, x))
         /\ Held(HeapPush(h, x)) = Held(h) \cup {x.message}
         /\ Distinct(h) /\ x.message \notin Held(h) => Distinct(HeapPush(h, x))
<1> DEFINE a == Append(h, x)
           n == Len(h) + 1
<1>1. /\ IsSeq(a) /\ Len(a) = n /\ Len(h) \in Nat
      /\ \A i \in 1 .. Len(h) : a[i] = h[i]
      /\ a[n] = x
  BY PutFacts
<1> HIDE DEF a
<1>2. DOMAIN a = 1 .. n /\ n \in Nat /\ n \in 1 .. n
  BY <1>1 DEF IsSeq
<1>3. \A i \in 1 .. n : i \in 1 .. Len(h) \/ i = n
  BY <1>1
<1>4. Held(a) = Held(h) \cup {x.message}
  BY <1>1, <1>2, <1>3 DEF Held
<1>5. ASSUME Distinct(h), x.message \notin Held(h)
      PROVE  Distinct(a)
  BY <1>1, <1>3, <1>5 DEF Distinct, Held
<1>6. HeapPush(h, x) = SiftUp(a, n)
  BY DEF HeapPush, a
<1> HIDE DEF n
<1>7. Rearranged(SiftUp(a, n), a, n)
  BY <1>2, SiftUpFacts
<1>8. /\ IsSeq(SiftUp(a, n)) /\ Held(SiftUp(a, n)) = Held(a)
      /\ Distinct(a) => Distinct(SiftUp(a, n))
  BY <1>1, <1>2, <1>7, HeldFacts
<1> QED
  BY <1>4, <1>5, <1>6, <1>8

\* The last element takes the place of the first before it moves down.
LEMMA RestFacts ==
  ASSUME NEW h, IsSeq(h), h # << >>, Distinct(h)
  PROVE  /\ IsSeq(HeapRest(h)) /\ Distinct(HeapRest(h))
         /\ Held(HeapRest(h)) = Held(h) \ {h[1].message}
         /\ h[1].message \in Held(h)
<1>1. Len(h) \in Nat \ {0} /\ 1 \in 1 .. Len(h)
  BY TakeFacts
<1>2. h[1].message \in Held(h)
  BY <1>1 DEF Held
<1>3. CASE Len(h) = 1
  <2>1. HeapRest(h) = << >>
    BY <1>3 DEF HeapRest
  <2>2. IsSeq(<< >>) /\ Distinct(<< >>) /\ Held(<< >>) = {}
    BY DEF IsSeq, Distinct, Held
  <2>3. Held(h) = {h[1].message}
    BY <1>3 DEF Held
  <2> QED
    BY <1>2, <2>1, <2>2, <2>3
<1>4. CASE Len(h) # 1
  <2> DEFINE n == Len(h) - 1
             g == [i \in 1 .. n |-> IF i = 1 THEN h[Len(h)] ELSE h[i]]
  <2>1. n \in Nat \ {0} /\ HeapRest(h) = SiftDownToBottom(g) /\ g = [i \in 1 .. n |-> g[i]]
    BY <1>1, <1>4 DEF HeapRest
  <2>2. Held(g) = Held(h) \ {h[1].message} /\ Distinct(g) /\ Len(g) = n
    <3>1. Len(g) = n
      BY <2>1, FunctionIsSeq
    <3>2. \A i \in 1 .. n : \E j \in 2 .. Len(h) : g[i] = h[j] /\ j = IF i = 1 THEN Len(h) ELSE i
      BY <1>1, <1>4
    <3>3. ASSUME NEW j \in 2 .. Len(h)
          PROVE  \E i \in 1 .. n : g[i] = h[j]
      <4>1. CASE j = Len(h)
        <5>1. 1 \in 1 .. n /\ g[1] = h[j]
          BY <1>1, <1>4, <4>1
        <5> QED
          BY <5>1
      <4>2. CASE j # Len(h)
        <5>1. j \in 1 .. n /\ g[j] = h[j]
          BY <1>1, <4>2
        <5> QED
          BY <5>1
      <4> QED
        BY <4>1, <4>2
    <3> HIDE DEF g, n
    <3>4. \A j \in 1 .. Len(h) : h[j].message # h[1].message <=> j \in 2 .. Len(h)
      BY <1>1 DEF Distinct
    <3>5. Held(g) \subseteq Held(h) \ {h[1].message}
      BY <1>1, <3>1, <3>2, <3>4 DEF Held
    <3>6. Held(h) \ {h[1].message} \subseteq Held(g)
      BY <1>1, <3>1, <3>3, <3>4 DEF Held
    <3>7. Distinct(g)
      <4> SUFFICES ASSUME NEW i \in 1 .. n, NEW j \in 1 .. n, g[i].message = g[j].message PROVE i = j
        BY <3>1 DEF Distinct
      <4>1. PICK k \in 2 .. Len(h) : g[i] = h[k] /\ k = IF i = 1 THEN Len(h) ELSE i
        BY <3>2
      <4>2. PICK l \in 2 .. Len(h) : g[j] = h[l] /\ l = IF j = 1 THEN Len(h) ELSE j
        BY <3>2
      <4>3. k = l
        BY <1>1, <4>1, <4>2 DEF Distinct
      <4> QED
        BY <1>1, <4>1, <4>2, <4>3 DEF n
    <3> QED
      BY <3>1, <3>5, <3>6, <3>7
  <2> HIDE DEF g, n
  <2>3. Rearranged(SiftDownToBottom(g), g, n)
    BY <2>1, SiftDownFacts
  <2> QED
    BY <1>2, <2>1, <2>2, <2>3, HeldFacts
<1> QED
  BY <1>3, <1>4

----------------------------------------------------------------------------
(* Where a message is: in the inbox, in the heap, taken by the dispatcher   *)
(* or answered, in one place at a time and on its way once.                 *)

Waiting == {inbox[i] : i \in 1 .. Len(inbox)}
Handling == IF dispatcher = Idle THEN {} ELSE {dispatcher.message}
Taken == Held(uart) \cup Handling
Answered == {m \in Messages : told[m] # << >>}

\* No place holds a message twice.
VectorInv ==
  /\ IsSeq(inbox) /\ \A i, j \in 1 .. Len(inbox) : inbox[i] = inbox[j] => i = j
  /\ IsSeq(heap) /\ Distinct(heap)
  /\ Distinct(uart)

\* A message that was sent has one place, unless its answer was dropped or it made the
\* receiver panic.
StageInv ==
  /\ sent \subseteq Messages
  /\ Waiting \cup Held(heap) \cup Taken \cup Answered \cup lost \subseteq sent
  /\ Waiting \cap (Held(heap) \cup Taken \cup Answered) = {}
  /\ Held(heap) \cap (Taken \cup Answered) = {}
  /\ Taken \cap Answered = {}
  /\ \A m \in sent : m \in Waiting \cup Held(heap) \cup Taken \cup Answered \cup lost \/ m.form = "garbled"

OnceInv == \A m \in Messages : Len(told[m]) <= 1

\* A sequence number is given out at most once for each message that left the inbox.
CountInv ==
  /\ receiver \in {"running", "ended"}
  /\ IsFiniteSet(sent) /\ Cardinality(sent) <= MaxSent
  /\ sequence \in Nat /\ sequence + Len(inbox) <= Cardinality(sent)

PlaceInv == VectorInv /\ StageInv /\ OnceInv /\ CountInv

\* A request joins the agent's queue, or leaves it at the head.
LEMMA AppendHeld ==
  ASSUME NEW q, IsSeq(q), Distinct(q), NEW r, r.message \notin Held(q)
  PROVE  Distinct(Append(q, r)) /\ Held(Append(q, r)) = Held(q) \cup {r.message}
<1> DEFINE a == Append(q, r)
           n == Len(q) + 1
<1>1. /\ Len(a) = n /\ Len(q) \in Nat
      /\ \A i \in 1 .. Len(q) : a[i] = q[i]
      /\ a[n] = r
  BY PutFacts
<1>2. n \in 1 .. n /\ \A i \in 1 .. n : i \in 1 .. Len(q) \/ i = n
  BY <1>1
<1> HIDE DEF a
<1>3. Held(a) = Held(q) \cup {r.message}
  BY <1>1, <1>2 DEF Held
<1>4. Distinct(a)
  BY <1>1, <1>2 DEF Distinct, Held
<1> QED
  BY <1>3, <1>4 DEF a

\* The head is the only request of its message.
LEMMA TailHeld ==
  ASSUME NEW q, IsSeq(q), q # << >>, Distinct(q)
  PROVE  /\ IsSeq(Tail(q)) /\ Distinct(Tail(q))
         /\ Held(Tail(q)) = Held(q) \ {Head(q).message}
         /\ Head(q).message \in Held(q)
<1> DEFINE t == Tail(q)
           n == Len(q)
<1>1. /\ IsSeq(t) /\ Head(q) = q[1] /\ 1 \in 1 .. n
      /\ n \in Nat \ {0} /\ Len(t) = n - 1
      /\ \A i \in 1 .. Len(t) : t[i] = q[i + 1] /\ i + 1 \in 1 .. n
  BY TakeFacts
<1> HIDE DEF t
<1>2. \A k \in 1 .. n : k = 1 \/ (k - 1 \in 1 .. Len(t) /\ t[k - 1] = q[k])
  <2> SUFFICES ASSUME NEW k \in 1 .. n, k # 1 PROVE k - 1 \in 1 .. Len(t) /\ t[k - 1] = q[k]
    OBVIOUS
  <2>1. k - 1 \in 1 .. Len(t) /\ (k - 1) + 1 = k
    BY <1>1
  <2>2. t[k - 1] = q[(k - 1) + 1]
    BY <1>1, <2>1
  <2> QED
    BY <2>1, <2>2
<1>3. Distinct(t)
  BY <1>1 DEF Distinct
<1>4. ASSUME NEW i \in 1 .. Len(t)
      PROVE  t[i].message \in Held(q) \ {q[1].message}
  <2>1. t[i] = q[i + 1] /\ i + 1 \in 1 .. n /\ i + 1 # 1
    BY <1>1
  <2>2. q[i + 1].message # q[1].message
    BY <1>1, <2>1 DEF Distinct
  <2> QED
    BY <2>1, <2>2 DEF Held
<1>5. ASSUME NEW k \in 1 .. n, q[k].message # q[1].message
      PROVE  q[k].message \in Held(t)
  <2>1. k - 1 \in 1 .. Len(t) /\ t[k - 1] = q[k]
    BY <1>2, <1>5
  <2> QED
    BY <2>1 DEF Held
<1>6. Held(t) = Held(q) \ {q[1].message} /\ q[1].message \in Held(q)
  BY <1>1, <1>4, <1>5 DEF Held
<1> QED
  BY <1>1, <1>3, <1>6 DEF t

\* The client of a message that was not answered is told once.
LEMMA TellOnce ==
  ASSUME ToldInv, OnceInv, NEW m \in Messages, m \notin Answered, NEW reply, Tell(m, reply)
  PROVE  OnceInv' /\ Answered' = Answered \cup {m}
<1>1. \A x \in Messages : told'[x] = IF x = m THEN Append(told[x], reply) ELSE told[x]
  BY DEF Tell, ToldInv
<1>2. told[m] = << >> /\ IsSeq(<< >>) /\ Len(<< >>) = 0
  BY DEF Answered, IsSeq
<1>3. Len(Append(<< >>, reply)) = 1 /\ Append(<< >>, reply) # << >>
  BY <1>2, PutFacts
<1>4. ASSUME NEW x \in Messages
      PROVE  Len(told'[x]) <= 1
  <2>1. CASE x = m
    <3>1. told'[x] = Append(<< >>, reply)
      BY <1>1, <1>2, <2>1
    <3>2. Len(told'[x]) = 1
      BY <1>3, <3>1
    <3> QED
      BY <3>2
  <2>2. CASE x # m
    BY <1>1, <2>2 DEF OnceInv
  <2> QED
    BY <2>1, <2>2
<1>5. Answered' = Answered \cup {m}
  BY <1>1, <1>2, <1>3 DEF Answered
<1> QED
  BY <1>4, <1>5 DEF OnceInv

\* A message is sent: it was nowhere before.
LEMMA ClientPlaces ==
  ASSUME PlaceInv, NEW m \in Messages, ClientSends(m)
  PROVE  PlaceInv'
<1>1. /\ m \notin sent /\ Cardinality(sent) < MaxSent /\ sent' = sent \cup {m}
      /\ inbox' = Append(inbox, m)
      /\ UNCHANGED <<receiver, heap, sequence, dispatcher, uart, told, lost>>
  BY DEF ClientSends
<1>2. IsSeq(inbox) /\ m \notin Waiting
  BY <1>1 DEF PlaceInv, VectorInv, StageInv
<1>3. /\ IsSeq(inbox') /\ Len(inbox') = Len(inbox) + 1 /\ Len(inbox) \in Nat
      /\ \A i \in 1 .. Len(inbox) : inbox'[i] = inbox[i]
      /\ inbox'[Len(inbox) + 1] = m
  BY <1>1, <1>2, PutFacts
<1>4. \A i \in 1 .. Len(inbox') : i \in 1 .. Len(inbox) \/ i = Len(inbox) + 1
  BY <1>3
<1>5. Waiting' = Waiting \cup {m}
  BY <1>3, <1>4 DEF Waiting
<1>6. \A i, j \in 1 .. Len(inbox') : inbox'[i] = inbox'[j] => i = j
  BY <1>2, <1>3, <1>4 DEF Waiting, PlaceInv, VectorInv
<1>7. VectorInv'
  BY <1>1, <1>3, <1>6 DEF PlaceInv, VectorInv, Distinct, IsSeq
<1>8. Held(heap)' = Held(heap) /\ Taken' = Taken /\ Answered' = Answered
  BY <1>1 DEF Held, Taken, Handling, Answered
<1>9. StageInv'
  BY <1>1, <1>5, <1>8 DEF PlaceInv, StageInv
<1>10. IsFiniteSet(sent') /\ Cardinality(sent') = Cardinality(sent) + 1 /\ Cardinality(sent) \in Nat
  BY <1>1, FS_AddElement, FS_CardinalityType DEF PlaceInv, CountInv
<1>11. CountInv'
  BY <1>1, <1>3, <1>10, DispatchAssumption DEF PlaceInv, CountInv
<1> QED
  BY <1>1, <1>7, <1>9, <1>11 DEF PlaceInv, OnceInv

\* The receiver takes the first message of the inbox: it goes to the heap, is refused, or
\* ends the receiver.
LEMMA ReceivePlaces ==
  ASSUME IInv, PlaceInv, Receive
  PROVE  PlaceInv'
<1> DEFINE m == Head(inbox)
<1>1. /\ inbox # << >> /\ inbox' = Tail(inbox)
      /\ Accept(m) \/ Reject(m) \/ Panic(m)
      /\ UNCHANGED <<dispatcher, uart, sent, lost>>
  BY DEF Receive
<1>2. /\ IsSeq(inbox') /\ m = inbox[1] /\ 1 \in 1 .. Len(inbox)
      /\ Len(inbox) \in Nat \ {0} /\ Len(inbox') = Len(inbox) - 1
      /\ \A i \in 1 .. Len(inbox') : inbox'[i] = inbox[i + 1] /\ i + 1 \in 1 .. Len(inbox)
  BY <1>1, TakeFacts DEF PlaceInv, VectorInv
<1> HIDE DEF m
<1>3. m \in Waiting /\ m \in sent /\ m \in Messages
  BY <1>2 DEF Waiting, PlaceInv, StageInv
<1>4. /\ m \notin Waiting' /\ Waiting' \subseteq Waiting
      /\ \A i, j \in 1 .. Len(inbox') : inbox'[i] = inbox'[j] => i = j
  BY <1>2 DEF Waiting, PlaceInv, VectorInv
<1>5. Waiting \subseteq Waiting' \cup {m}
  <2> SUFFICES ASSUME NEW k \in 1 .. Len(inbox), inbox[k] # m PROVE inbox[k] \in Waiting'
    BY DEF Waiting
  <2>1. k - 1 \in 1 .. Len(inbox') /\ (k - 1) + 1 = k
    BY <1>2
  <2>2. inbox'[k - 1] = inbox[(k - 1) + 1]
    BY <1>2, <2>1
  <2> QED
    BY <2>1, <2>2 DEF Waiting
<1>6. Taken' = Taken /\ Distinct(uart)'
  BY <1>1 DEF Taken, Handling, Held, PlaceInv, VectorInv, Distinct
<1>7. /\ IsFiniteSet(sent') /\ Cardinality(sent') = Cardinality(sent) /\ Cardinality(sent) \in Nat
      /\ Cardinality(sent') <= MaxSent
  BY <1>1, FS_CardinalityType DEF PlaceInv, CountInv
<1>8. CASE Accept(m)
  <2> DEFINE x == [priority |-> m.prio, sequence |-> sequence, message |-> m]
  <2>1. heap' = HeapPush(heap, x) /\ sequence' = sequence + 1 /\ UNCHANGED <<receiver, told>>
    BY <1>8 DEF Accept
  <2>2. x.message = m
    OBVIOUS
  <2> HIDE DEF x
  <2>3. m \notin Held(heap) /\ IsSeq(heap) /\ Distinct(heap)
    BY <1>3 DEF PlaceInv, VectorInv, StageInv
  <2>4. IsSeq(HeapPush(heap, x)) /\ Held(HeapPush(heap, x)) = Held(heap) \cup {m} /\ Distinct(HeapPush(heap, x))
    BY <2>2, <2>3, PushFacts
  <2>5. IsSeq(heap)' /\ Held(heap)' = Held(heap) \cup {m} /\ Distinct(heap)'
    BY <2>1, <2>4 DEF IsSeq, Held, Distinct
  <2>6. Answered' = Answered /\ OnceInv'
    BY <2>1 DEF Answered, PlaceInv, OnceInv
  <2>7. StageInv'
    BY <1>1, <1>3, <1>4, <1>5, <1>6, <2>5, <2>6 DEF PlaceInv, StageInv
  <2>8. CountInv'
    BY <1>2, <1>7, <2>1 DEF PlaceInv, CountInv
  <2> QED
    BY <1>2, <1>4, <1>6, <2>5, <2>6, <2>7, <2>8 DEF PlaceInv, VectorInv, IsSeq
<1>9. CASE ~Accept(m)
  <2>1. /\ UNCHANGED <<heap, sequence>> /\ receiver' \in {"running", "ended"}
        /\ Tell(m, Failure) \/ (UNCHANGED told /\ m.form = "garbled")
    BY <1>1, <1>9 DEF Reject, Panic, PlaceInv, CountInv
  <2>2. IsSeq(heap)' /\ Held(heap)' = Held(heap) /\ Distinct(heap)'
    BY <2>1 DEF IsSeq, Held, Distinct, PlaceInv, VectorInv
  <2>3. CountInv'
    BY <1>2, <1>7, <2>1 DEF PlaceInv, CountInv
  <2>4. VectorInv'
    BY <1>2, <1>4, <1>6, <2>2 DEF VectorInv, IsSeq
  <2>5. CASE Tell(m, Failure)
    <3>1. OnceInv' /\ Answered' = Answered \cup {m}
      BY <1>3, <2>5, TellOnce DEF IInv, PlaceInv, StageInv
    <3>2. StageInv'
      BY <1>1, <1>3, <1>4, <1>5, <1>6, <2>2, <3>1 DEF PlaceInv, StageInv
    <3> QED
      BY <2>3, <2>4, <3>1, <3>2 DEF PlaceInv
  <2>6. CASE UNCHANGED told /\ m.form = "garbled"
    <3>1. OnceInv' /\ Answered' = Answered
      BY <2>6 DEF PlaceInv, OnceInv, Answered
    <3>2. StageInv'
      BY <1>1, <1>3, <1>4, <1>5, <1>6, <2>2, <2>6, <3>1 DEF PlaceInv, StageInv
    <3> QED
      BY <2>3, <2>4, <3>1, <3>2 DEF PlaceInv
  <2> QED
    BY <2>1, <2>5, <2>6
<1> QED
  BY <1>8, <1>9

\* The dispatcher and the agent leave the inbox alone, and all but Pop the heap.
LEMMA InboxSame ==
  ASSUME PlaceInv, UNCHANGED <<inbox, receiver, sequence, sent>>
  PROVE  /\ CountInv' /\ Waiting' = Waiting
         /\ IsSeq(inbox)' /\ (\A i, j \in 1 .. Len(inbox) : inbox[i] = inbox[j] => i = j)'
  BY DEF PlaceInv, CountInv, VectorInv, Waiting, IsSeq

\* A heap that is the same holds the same.
LEMMA HeapSame ==
  ASSUME PlaceInv, heap' = heap
  PROVE  IsSeq(heap)' /\ Distinct(heap)' /\ Held(heap)' = Held(heap)
  BY DEF PlaceInv, VectorInv, IsSeq, Distinct, Held

\* The message that the dispatcher waits for is no query, and when no request is waited for
\* it has none.
LEMMA OwnFacts ==
  ASSUME IInv, PlaceInv, dispatcher # Idle
  PROVE  /\ dispatcher.message.kind # "query"
         /\ dispatcher.message \in Taken
         /\ NoneWaited(uart) => dispatcher.message \notin Held(uart)
<1>1. dispatcher.message.kind # "query"
  BY KindFacts DEF IInv, Core
<1>2. ASSUME NoneWaited(uart), NEW i \in 1 .. Len(uart)
      PROVE  uart[i].message.kind = "query"
  BY <1>2 DEF NoneWaited, IsWaited, IInv, Core, RequestsInv
<1>3. NoneWaited(uart) => dispatcher.message \notin Held(uart)
  BY <1>1, <1>2 DEF Held
<1>4. dispatcher.message \in Taken
  BY DEF Taken, Handling
<1> QED
  BY <1>1, <1>3, <1>4

\* The dispatcher returns with an answer: nothing of the message is left.
LEMMA ReturnPlaces ==
  ASSUME IInv, PlaceInv, dispatcher # Idle, NoneWaited(uart), NEW reply,
         Return(dispatcher.message, reply),
         UNCHANGED <<inbox, receiver, heap, sequence, uart, sent, lost>>
  PROVE  PlaceInv'
<1> DEFINE m == dispatcher.message
<1>1. Tell(m, reply) /\ dispatcher' = Idle
  BY DEF Return
<1>2. m \in Taken /\ m \notin Held(uart) /\ Handling = {m}
  BY OwnFacts DEF Handling
<1>3. Held(uart)' = Held(uart) /\ Distinct(uart)' /\ Handling' = {}
  BY <1>1 DEF Held, Distinct, PlaceInv, VectorInv, Handling
<1>4. Taken' = Taken \ {m}
  BY <1>2, <1>3 DEF Taken
<1>5. m \in Messages /\ m \notin Answered
  BY <1>2 DEF PlaceInv, StageInv
<1> HIDE DEF m
<1>6. OnceInv' /\ Answered' = Answered \cup {m}
  BY <1>1, <1>5, TellOnce DEF IInv, PlaceInv
<1>7. VectorInv'
  BY <1>3, InboxSame, HeapSame DEF VectorInv
<1>8. StageInv'
  BY <1>2, <1>4, <1>6, InboxSame, HeapSame DEF PlaceInv, StageInv
<1> QED
  BY <1>6, <1>7, <1>8, InboxSame DEF PlaceInv

\* A request is sent for a message that has none with the agent, and the dispatcher waits.
LEMMA SendPlaces ==
  ASSUME IInv, NEW m, m \notin Held(uart), Distinct(uart), NEW what \in Waits, NEW start,
         SendAndWait(m, what, start), Handling \subseteq {m}
  PROVE  Distinct(uart)' /\ Taken' = Taken \cup {m}
<1> DEFINE r == Request(m, what, start)
<1>1. r.message = m /\ uart' = Append(uart, r) /\ dispatcher' = Wait(m, what) /\ IsSeq(uart)
  BY DEF Request, SendAndWait, IInv, Core, RequestsInv
<1> HIDE DEF r
<1>2. Distinct(Append(uart, r)) /\ Held(Append(uart, r)) = Held(uart) \cup {m}
  BY <1>1, AppendHeld
<1>3. Handling' = {m}
  BY <1>1, WaitFacts DEF Handling
<1> QED
  BY <1>1, <1>2, <1>3 DEF Taken, Distinct, Held

\* The dispatcher takes the first message of the heap: its first request goes to the agent.
LEMMA PopPlaces ==
  ASSUME IInv, PlaceInv, Pop
  PROVE  PlaceInv'
<1> DEFINE m == heap[1].message
<1>1. /\ dispatcher = Idle /\ heap # << >> /\ heap' = HeapRest(heap)
      /\ SendQuery(m) \/ SendPaged(m) \/ SendTransfer(m) \/ SendMonitor(m)
      /\ UNCHANGED <<inbox, receiver, sequence, sent, lost>>
  BY DEF Pop
<1>2. /\ IsSeq(HeapRest(heap)) /\ Distinct(HeapRest(heap))
      /\ Held(HeapRest(heap)) = Held(heap) \ {m}
      /\ m \in Held(heap)
  BY <1>1, RestFacts DEF PlaceInv, VectorInv
<1> HIDE DEF m
<1>3. IsSeq(heap)' /\ Distinct(heap)' /\ Held(heap)' = Held(heap) \ {m}
  <2>1. IsSeq(heap') /\ Distinct(heap') /\ Held(heap') = Held(heap) \ {m}
    BY <1>1, <1>2
  <2> QED
    BY <2>1 DEF IsSeq, Distinct, Held
<1>4. /\ m \in Messages /\ m \notin Taken /\ m \notin Answered /\ m \notin Waiting
      /\ m \notin Held(uart) /\ Handling = {} /\ Distinct(uart)
  BY <1>1, <1>2 DEF PlaceInv, StageInv, VectorInv, Taken, Handling
<1>5. ASSUME Distinct(uart)', Taken' = Taken \cup {m}, told' = told
      PROVE  PlaceInv'
  <2>1. Answered' = Answered /\ OnceInv'
    BY <1>5 DEF Answered, PlaceInv, OnceInv
  <2>2. StageInv'
    BY <1>1, <1>2, <1>3, <1>4, <1>5, <2>1, InboxSame DEF PlaceInv, StageInv
  <2>3. VectorInv'
    BY <1>1, <1>3, <1>5, InboxSame DEF VectorInv
  <2> QED
    BY <1>1, <2>1, <2>2, <2>3, InboxSame DEF PlaceInv
<1>6. CASE SendQuery(m)
  <2> DEFINE r == Request(m, "query", 0)
  <2>1. r.message = m /\ uart' = Append(uart, r) /\ dispatcher' = dispatcher /\ told' = told /\ IsSeq(uart)
    BY <1>6 DEF Request, SendQuery, IInv, Core, RequestsInv
  <2> HIDE DEF r
  <2>2. Distinct(Append(uart, r)) /\ Held(Append(uart, r)) = Held(uart) \cup {m}
    BY <1>4, <2>1, AppendHeld
  <2>3. Distinct(uart)' /\ Taken' = Taken \cup {m}
    BY <2>1, <2>2 DEF Taken, Handling, Distinct, Held
  <2> QED
    BY <1>5, <2>1, <2>3
<1>7. CASE \E what \in Waits : \E start : SendAndWait(m, what, start) /\ told' = told
  BY <1>4, <1>5, <1>7, SendPlaces
<1>8. SendPaged(m) \/ SendTransfer(m) \/ SendMonitor(m) =>
        \E what \in Waits : \E start : SendAndWait(m, what, start) /\ told' = told
  BY DEF SendPaged, SendTransfer, SendMonitor, Waits
<1> QED
  BY <1>1, <1>6, <1>7, <1>8

\* The dispatcher takes a result: it returns, asks for the next page or waits for the data.
LEMMA TakePlaces ==
  ASSUME IInv, PlaceInv, TakePage \/ TakeData \/ TakeDelay \/ TakePause
  PROVE  PlaceInv'
<1> DEFINE m == dispatcher.message
           b == dispatcher.waits
<1>1. UNCHANGED <<inbox, receiver, heap, sequence, sent, lost>>
  BY DEF TakePage, TakeData, TakeDelay, TakePause
<1>2. /\ b \in Boxes /\ box[b] # Empty /\ dispatcher # Idle
      /\ TakePage => b = "hplc"
      /\ TakeData => b \in {"monitor", "transfer"} /\ dispatcher.for # "delay"
      /\ TakeDelay => b = "monitor" /\ dispatcher.for = "delay"
      /\ TakePause => b = "route"
  <2>1. /\ TakePage => b = "hplc" /\ box[b] # Empty
        /\ TakeData => b \in {"monitor", "transfer"} /\ box[b] # Empty /\ dispatcher.for # "delay"
        /\ TakeDelay => b = "monitor" /\ box[b] # Empty /\ dispatcher.for = "delay"
        /\ TakePause => b = "route" /\ box[b] # Empty
    BY DEF TakePage, TakeData, TakeDelay, TakePause
  <2>2. {"hplc", "monitor", "transfer", "route"} \subseteq Boxes /\ (dispatcher = Idle => b \notin Boxes)
    BY DEF Boxes, Idle
  <2> QED
    BY <2>1, <2>2
<1>3. OwnResult(b) /\ dispatcher.for \in Waits /\ b = BoxOf(dispatcher.for)
  BY <1>2, StateFacts DEF IInv, Core, BoxInv
<1>4. dispatcher.for # "delay" \/ box[b] # Delay => NoneWaited(uart)
  BY <1>3 DEF OwnResult, NoneWaited
<1>5. TakePage => dispatcher.for # "delay" /\ m.kind \in Waits
  <2>1. TakePage => dispatcher.for \in Paged
    BY <1>2, <1>3, WaitFacts
  <2>2. \A f \in Paged : f # "delay" /\ f # "data" /\ f \in Waits
    BY DEF Paged, Waits
  <2> QED
    BY <1>2, <2>1, <2>2, KindFacts DEF IInv, Core
<1>6. CASE NoneWaited(uart) /\ (\E reply : Return(m, reply)) /\ uart' = uart
  BY <1>1, <1>2, <1>6, ReturnPlaces
<1>7. ASSUME Distinct(uart)', Taken' = Taken, told' = told
      PROVE  PlaceInv'
  <2>1. Answered' = Answered /\ OnceInv'
    BY <1>7 DEF Answered, PlaceInv, OnceInv
  <2>2. StageInv'
    BY <1>1, <1>7, <2>1, InboxSame, HeapSame DEF PlaceInv, StageInv
  <2>3. VectorInv'
    BY <1>1, <1>7, InboxSame, HeapSame DEF VectorInv
  <2> QED
    BY <1>1, <2>1, <2>2, <2>3, InboxSame DEF PlaceInv
<1>8. CASE NoneWaited(uart) /\ m.kind \in Waits /\ (\E start : SendAndWait(m, m.kind, start)) /\ told' = told
  <2>1. m \in Taken /\ m \notin Held(uart) /\ Handling = {m} /\ Distinct(uart)
    BY <1>2, <1>8, OwnFacts DEF Handling, PlaceInv, VectorInv
  <2> HIDE DEF m
  <2>2. Distinct(uart)' /\ Taken' = Taken \cup {m}
    BY <1>8, <2>1, SendPlaces
  <2> QED
    BY <1>7, <1>8, <2>1, <2>2
<1>9. CASE dispatcher' = Wait(m, "data") /\ UNCHANGED <<told, uart>>
  <2>1. Handling' = Handling
    BY <1>2, <1>9, WaitFacts DEF Handling, Waits
  <2>2. Distinct(uart)' /\ Taken' = Taken
    BY <1>9, <2>1 DEF Taken, Held, Distinct, PlaceInv, VectorInv
  <2> QED
    BY <1>7, <1>9, <2>2
<1>10. TakePage => \/ (\E reply : Return(m, reply)) /\ uart' = uart
                   \/ (\E start : SendAndWait(m, m.kind, start)) /\ told' = told
  BY DEF TakePage
<1>11. TakeData => (\E reply : Return(m, reply)) /\ uart' = uart
  BY DEF TakeData
<1>12. TakeDelay => \/ dispatcher' = Wait(m, "data") /\ UNCHANGED <<told, uart>>
                    \/ box[b] # Delay /\ Return(m, Failure) /\ uart' = uart
  BY <1>2 DEF TakeDelay
<1>13. TakePause => dispatcher.for # "delay" /\ m.kind \in Waits
  <2>1. TakePause => dispatcher.for = "pause"
    BY <1>2, <1>3, WaitFacts
  <2> QED
    BY <1>2, <2>1, KindFacts DEF IInv, Core, Monitors, Waits
<1>14. TakePause => \/ (\E reply : Return(m, reply)) /\ uart' = uart
                    \/ (\E start : SendAndWait(m, m.kind, start)) /\ told' = told
  BY DEF TakePause
<1> QED
  BY <1>2, <1>4, <1>5, <1>6, <1>8, <1>9, <1>10, <1>11, <1>12, <1>13, <1>14

\* A request ends: a query is answered or dropped, any other is of the message that the
\* dispatcher keeps.
LEMMA AgentPlaces ==
  ASSUME IInv, PlaceInv, NEW outcome \in Outcomes, RequestEnds(outcome)
  PROVE  PlaceInv'
<1> DEFINE r == Head(uart)
           m == r.message
<1>1. /\ uart # << >>
      /\ \/ QueryEnds(r, outcome) \/ PageEnds(r, outcome) \/ DataEnds(r, outcome)
         \/ DelayEnds(r, outcome) \/ PauseEnds(r, outcome)
      /\ UNCHANGED <<inbox, receiver, heap, sequence, dispatcher, sent>>
  BY DEF RequestEnds
<1>2. IsSeq(uart) /\ Distinct(uart)
  BY DEF IInv, Core, RequestsInv, PlaceInv, VectorInv
<1>3. /\ IsSeq(Tail(uart)) /\ Distinct(Tail(uart))
      /\ Held(Tail(uart)) = Held(uart) \ {m}
      /\ m \in Held(uart)
  BY <1>1, <1>2, TailHeld
<1>4. m \in Taken /\ m \in sent /\ m \in Messages /\ m \notin Answered
  BY <1>3 DEF Taken, PlaceInv, StageInv
<1>5. Handling' = Handling
  BY <1>1 DEF Handling
<1>6. ASSUME Distinct(uart)', Taken' \cup {m} = Taken,
             \/ Answered' = Answered /\ lost \subseteq lost' /\ lost' \subseteq lost \cup {m}
                /\ (m \in Taken' \/ m \in lost')
             \/ Answered' = Answered \cup {m} /\ lost' = lost /\ m \notin Taken',
             OnceInv'
      PROVE  PlaceInv'
  <2>1. StageInv'
    BY <1>1, <1>4, <1>6, InboxSame, HeapSame DEF PlaceInv, StageInv
  <2>2. VectorInv'
    BY <1>1, <1>6, InboxSame, HeapSame DEF VectorInv
  <2> QED
    BY <1>1, <1>6, <2>1, <2>2, InboxSame DEF PlaceInv
<1>7. told' = told => Answered' = Answered /\ OnceInv'
  BY DEF Answered, PlaceInv, OnceInv
<1>8. CASE QueryEnds(r, outcome)
  <2>1. /\ r.what = "query" /\ uart' = Tail(uart)
        /\ \/ lost' = lost \cup {m} /\ told' = told
           \/ lost' = lost /\ \E reply : Tell(m, reply)
    BY <1>8 DEF QueryEnds, Done, Lose, Unspoken
  <2>2. m.kind = "query"
    BY <1>1, <1>2, <2>1, TakeFacts DEF IInv, Core, RequestsInv
  <2>3. m \notin Handling
    BY <2>2, OwnFacts DEF Handling
  <2>4. Distinct(uart)' /\ Held(uart)' = Held(uart) \ {m}
    <3>1. Distinct(uart') /\ Held(uart') = Held(uart) \ {m}
      BY <1>3, <2>1
    <3> HIDE DEF m
    <3> QED
      BY <3>1 DEF Distinct, Held
  <2> HIDE DEF m, r
  <2>5. Taken' = Taken \ {m}
    BY <1>5, <2>3, <2>4 DEF Taken
  <2>6. CASE lost' = lost \cup {m} /\ told' = told
    BY <1>4, <1>6, <1>7, <2>4, <2>5, <2>6
  <2>7. CASE lost' = lost /\ \E reply : Tell(m, reply)
    <3>1. OnceInv' /\ Answered' = Answered \cup {m}
      BY <1>4, <2>7, TellOnce DEF IInv, PlaceInv
    <3> QED
      BY <1>4, <1>6, <2>4, <2>5, <2>7, <3>1
  <2> QED
    BY <2>1, <2>6, <2>7
<1>9. CASE PageEnds(r, outcome) \/ DataEnds(r, outcome) \/ DelayEnds(r, outcome) \/ PauseEnds(r, outcome)
  <2>1. /\ r.what # "query" /\ told' = told
        /\ uart' = Tail(uart) \/ uart' = Append(Tail(uart), Request(m, "data", 0))
    BY <1>9 DEF PageEnds, DataEnds, DelayEnds, PauseEnds, Done, Post, Lose, Paged
  <2>2. lost' = lost \/ lost' = lost \cup {m}
    BY <1>9 DEF PageEnds, DataEnds, DelayEnds, PauseEnds, Post, Lose
  <2>3. m \in Handling
    BY <1>1, <2>1, WaitedFacts DEF IInv, OwnRequest, Handling
  <2>4. Distinct(uart') /\ Held(uart) = Held(uart') \cup {m}
    <3>1. CASE uart' = Tail(uart)
      BY <1>3, <3>1
    <3>2. CASE uart' = Append(Tail(uart), Request(m, "data", 0))
      <4>1. Request(m, "data", 0).message = m
        BY DEF Request
      <4>2. m \notin Held(Tail(uart))
        BY <1>3
      <4>3. Distinct(uart') /\ Held(uart') = Held(Tail(uart)) \cup {m}
        BY <1>3, <3>2, <4>1, <4>2, AppendHeld
      <4> QED
        BY <1>3, <4>3
    <3> QED
      BY <2>1, <3>1, <3>2
  <2> HIDE DEF m, r
  <2>5. Distinct(uart)' /\ Held(uart)' \cup {m} = Held(uart)
    BY <2>4 DEF Distinct, Held
  <2>6. Taken' = Taken
    BY <1>5, <2>3, <2>5 DEF Taken
  <2> QED
    BY <1>4, <1>6, <1>7, <2>1, <2>2, <2>5, <2>6
<1> QED
  BY <1>1, <1>8, <1>9

\* Places change only when the message moves.
LEMMA PlaceStep == IInv /\ PlaceInv /\ [Next]_vars => PlaceInv'
<1> SUFFICES ASSUME IInv, PlaceInv, [Next]_vars PROVE PlaceInv'
  OBVIOUS
<1>1. CASE NetChanges \/ UNCHANGED vars
  <2>1. UNCHANGED <<inbox, receiver, heap, sequence, dispatcher, uart, sent, told, lost>>
    BY <1>1 DEF NetChanges, vars
  <2>2. Distinct(uart)' /\ Taken' = Taken /\ Answered' = Answered /\ OnceInv'
    BY <2>1 DEF PlaceInv, VectorInv, Distinct, Taken, Held, Handling, Answered, OnceInv
  <2>3. StageInv'
    BY <2>1, <2>2, InboxSame, HeapSame DEF PlaceInv, StageInv
  <2>4. VectorInv'
    BY <2>1, <2>2, InboxSame, HeapSame DEF VectorInv
  <2> QED
    BY <2>1, <2>2, <2>3, <2>4, InboxSame DEF PlaceInv
<1> QED
  BY <1>1, ClientPlaces, ReceivePlaces, PopPlaces, TakePlaces, AgentPlaces DEF Next, Dispatcher, Agent

----------------------------------------------------------------------------
(* The theorems about messages. *)

\* A message that was sent is in one place, and there once: in the inbox, in the heap, with
\* the dispatcher or the agent, or answered; but for one whose answer was dropped, and one
\* without a token, at which the receiver panics.
OnePlace ==
  LET Busy == Open \cup IF dispatcher = Idle THEN {} ELSE {dispatcher.message} IN
  \A m \in sent :
    /\ \/ m \in Range(inbox) \cup Queued \cup Busy \cup lost
       \/ told[m] # << >> \/ m.form = "garbled"
    /\ m \in Range(inbox) => m \notin Queued \cup Busy /\ told[m] = << >>
    /\ m \in Queued => m \notin Busy /\ told[m] = << >>
    /\ m \in Busy => told[m] = << >>
    /\ \A i, j \in DOMAIN heap : heap[i].message = m /\ heap[j].message = m => i = j

\* The messages of a queue, in the words of the specification.
LEMMA SameSets ==
  ASSUME IInv, PlaceInv
  PROVE  /\ Range(inbox) = Waiting /\ Queued = Held(heap) /\ Open = Held(uart)
         /\ DOMAIN heap = 1 .. Len(heap)
<1>1. DOMAIN inbox = 1 .. Len(inbox) /\ DOMAIN heap = 1 .. Len(heap) /\ DOMAIN uart = 1 .. Len(uart)
  BY DEF IInv, Core, RequestsInv, PlaceInv, VectorInv, IsSeq
<1> QED
  BY <1>1 DEF Range, Waiting, Queued, Open, Held

\* Places are as they should be in every state.
THEOREM Placement == Spec => []PlaceInv
<1>1. Init => PlaceInv
  <2> SUFFICES ASSUME Init PROVE PlaceInv
    OBVIOUS
  <2>1. /\ inbox = << >> /\ heap = << >> /\ uart = << >> /\ dispatcher = Idle /\ sent = {} /\ lost = {}
        /\ told = [m \in Messages |-> << >>] /\ receiver = "running" /\ sequence = 0
    BY DEF Init
  <2>2. IsSeq(<< >>) /\ Len(<< >>) = 0 /\ Held(<< >>) = {} /\ Distinct(<< >>)
    BY DEF IsSeq, Held, Distinct
  <2>3. VectorInv
    BY <2>1, <2>2 DEF VectorInv
  <2>4. Waiting = {} /\ Taken = {} /\ Answered = {} /\ Held(heap) = {}
    BY <2>1, <2>2 DEF Waiting, Taken, Handling, Answered
  <2>5. StageInv
    BY <2>1, <2>4 DEF StageInv
  <2>6. OnceInv
    BY <2>1, <2>2 DEF OnceInv
  <2>7. CountInv
    BY <2>1, <2>2, FS_EmptySet, DispatchAssumption DEF CountInv
  <2> QED
    BY <2>3, <2>5, <2>6, <2>7 DEF PlaceInv
<1>2. IInv /\ PlaceInv /\ [Next]_vars => PlaceInv'
  BY PlaceStep
<1> QED
  BY <1>1, <1>2, Invariance, PTL DEF Spec

\* Everything under way belongs to a message that was sent, no client is told twice, and
\* no more sequence numbers are given out than messages were sent.
THEOREM TypeCorrect == Spec => []TypeOK
<1>1. IInv /\ PlaceInv => TypeOK
  <2> SUFFICES ASSUME IInv, PlaceInv PROVE TypeOK
    OBVIOUS
  <2>1. Range(inbox) \subseteq sent /\ sent \subseteq Messages /\ Queued \subseteq sent /\ Open \subseteq sent
    BY SameSets DEF PlaceInv, StageInv, Taken
  <2>2. dispatcher = Idle \/ dispatcher.message \in sent
    BY DEF PlaceInv, StageInv, Taken, Handling
  <2>3. DOMAIN box = Boxes
    BY DEF IInv, Core, BoxInv
  <2>4. \A m \in Messages : Len(told[m]) <= 1 /\ (told[m] # << >> => m \in sent)
    BY DEF PlaceInv, OnceInv, StageInv, Answered
  <2>5. sequence \in 0 .. MaxSent /\ receiver \in {"running", "ended"}
    <3>1. Len(inbox) \in Nat /\ Cardinality(sent) \in Nat
      BY FS_CardinalityType DEF PlaceInv, CountInv, VectorInv, IsSeq
    <3> QED
      BY <3>1, DispatchAssumption DEF PlaceInv, CountInv
  <2> QED
    BY <2>1, <2>2, <2>3, <2>4, <2>5 DEF TypeOK, PlaceInv, StageInv
<1> QED
  BY <1>1, Invariance, Placement, PTL

\* No message is forgotten or handled twice, whatever the heap does with it.
THEOREM NoneForgotten == Spec => []OnePlace
<1>1. IInv /\ PlaceInv => OnePlace
  <2> SUFFICES ASSUME IInv, PlaceInv PROVE OnePlace
    OBVIOUS
  <2>1. Taken = Open \cup IF dispatcher = Idle THEN {} ELSE {dispatcher.message}
    BY SameSets DEF Taken, Handling
  <2>2. \A m \in Messages : m \in Answered <=> told[m] # << >>
    BY DEF Answered
  <2>3. \A i, j \in DOMAIN heap : heap[i].message = heap[j].message => i = j
    BY SameSets DEF PlaceInv, VectorInv, Distinct
  <2> QED
    BY <2>1, <2>2, <2>3, SameSets DEF PlaceInv, StageInv, OnePlace
<1> QED
  BY <1>1, Invariance, Placement, PTL

=============================================================================
