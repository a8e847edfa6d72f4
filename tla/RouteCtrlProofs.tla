--------------------------- MODULE RouteCtrlProofs ---------------------------
(***************************************************************************)
(* Proofs about RouteCtrl for every number of messages, denials and        *)
(* unanswered requests: who owns a pause, what a result in the one mailbox *)
(* belongs to as long as the two threads do not wait at once, and so that  *)
(* the service's belief about the module is true.                          *)
(***************************************************************************)
EXTENDS RouteCtrl, SequenceTheorems, TLAPS

----------------------------------------------------------------------------
(* The queue in front of the UART agent: there is one request of a kind with the agent at a *)
(* time, whatever others sent around it.                                                    *)

\* A queue without requests of kind K, and one in which c is the only one of its kind.
Without(q, K) == \A i \in 1 .. Len(q) : q[i] \notin K
Only(q, K, c) == \E i \in 1 .. Len(q) : q[i] = c /\ \A j \in 1 .. Len(q) : q[j] \in K => j = i

\* Another request behind one of a kind leaves it the only one.
LEMMA AppendOther ==
  ASSUME NEW S, NEW q \in Seq(S), NEW K, NEW w \in S, w \notin K
  PROVE  /\ Without(q, K) => Without(Append(q, w), K)
         /\ \A c : Only(q, K, c) => Only(Append(q, w), K, c)
<1>1. /\ Len(Append(q, w)) = Len(q) + 1 /\ Len(q) \in Nat
      /\ \A i \in 1 .. Len(q) : Append(q, w)[i] = q[i]
      /\ Append(q, w)[Len(q) + 1] = w
  BY AppendProperties
<1>2. \A i \in 1 .. Len(Append(q, w)) : Append(q, w)[i] \in K =>
         i \in 1 .. Len(q) /\ Append(q, w)[i] = q[i]
  BY <1>1
<1>3. ASSUME NEW c, Only(q, K, c)
      PROVE  Only(Append(q, w), K, c)
  <2>1. PICK i \in 1 .. Len(q) : q[i] = c /\ \A j \in 1 .. Len(q) : q[j] \in K => j = i
    BY <1>3 DEF Only
  <2>2. i \in 1 .. Len(Append(q, w)) /\ Append(q, w)[i] = c
    BY <1>1, <2>1
  <2> QED
    BY <1>2, <2>1, <2>2 DEF Only
<1> QED
  BY <1>2, <1>3 DEF Without

\* A request that joins a queue without its kind is the only one.
LEMMA AppendFirst ==
  ASSUME NEW S, NEW q \in Seq(S), NEW K, Without(q, K), NEW c \in S
  PROVE  Only(Append(q, c), K, c)
<1>1. /\ Len(Append(q, c)) = Len(q) + 1 /\ Len(q) \in Nat
      /\ \A i \in 1 .. Len(q) : Append(q, c)[i] = q[i]
      /\ Append(q, c)[Len(q) + 1] = c
  BY AppendProperties
<1>2. Len(q) + 1 \in 1 .. Len(Append(q, c))
  BY <1>1
<1>3. \A j \in 1 .. Len(Append(q, c)) : Append(q, c)[j] \in K => j = Len(q) + 1
  BY <1>1 DEF Without
<1> QED
  BY <1>1, <1>2, <1>3 DEF Only

\* The first request leaves: one of another kind changes nothing, the only one was it.
LEMMA TailRequest ==
  ASSUME NEW S, NEW q \in Seq(S), NEW K, q # << >>
  PROVE  /\ Without(q, K) => Without(Tail(q), K) /\ Head(q) \notin K
         /\ \A c : Only(q, K, c) /\ Head(q) \notin K /\ c \in K => Only(Tail(q), K, c)
         /\ \A c : Only(q, K, c) /\ Head(q) \in K => Head(q) = c /\ Without(Tail(q), K)
<1>1. /\ Head(q) = q[1] /\ Len(q) \in Nat \ {0} /\ Len(Tail(q)) = Len(q) - 1
      /\ \A i \in 1 .. Len(Tail(q)) : Tail(q)[i] = q[i + 1]
  BY HeadTailProperties
<1>2. 1 \in 1 .. Len(q) /\ \A i \in 1 .. Len(Tail(q)) : i + 1 \in 1 .. Len(q)
  BY <1>1
<1>3. ASSUME NEW c, Only(q, K, c), Head(q) \notin K, c \in K
      PROVE  Only(Tail(q), K, c)
  <2>1. PICK i \in 1 .. Len(q) : q[i] = c /\ \A j \in 1 .. Len(q) : q[j] \in K => j = i
    BY <1>3 DEF Only
  <2>2. i - 1 \in 1 .. Len(Tail(q)) /\ Tail(q)[i - 1] = c
    BY <1>1, <1>3, <2>1
  <2>3. \A j \in 1 .. Len(Tail(q)) : Tail(q)[j] \in K => j + 1 = i
    BY <1>1, <1>2, <2>1
  <2>4. \A j \in 1 .. Len(Tail(q)) : Tail(q)[j] \in K => j = i - 1
    BY <2>3
  <2> QED
    BY <2>2, <2>4 DEF Only
<1>4. ASSUME NEW c, Only(q, K, c), Head(q) \in K
      PROVE  Head(q) = c /\ Without(Tail(q), K)
  <2>1. PICK i \in 1 .. Len(q) : q[i] = c /\ \A j \in 1 .. Len(q) : q[j] \in K => j = i
    BY <1>4 DEF Only
  <2>2. i = 1
    BY <1>1, <1>2, <1>4, <2>1
  <2>3. \A j \in 1 .. Len(Tail(q)) : j + 1 # 1
    BY <1>1
  <2> QED
    BY <1>1, <1>2, <2>1, <2>2, <2>3 DEF Without
<1>5. ASSUME Without(q, K)
      PROVE  Without(Tail(q), K) /\ Head(q) \notin K
  BY <1>1, <1>2, <1>5 DEF Without
<1> QED
  BY <1>3, <1>4, <1>5

----------------------------------------------------------------------------
(* The inductive invariant. *)

\* The dispatcher waits for a command of its own, and for a pause if a request needs one.
OpInv == dispatch = "wait" => op \in Commands /\ (purpose # None => op = "Pause")

\* A monitor node request is with the agent only while the dispatcher waits for its answer.
MonitorInv ==
  \/ Without(uartQ, {"monitor"})
  \/ dispatch = "work" /\ Only(uartQ, {"monitor"}, "monitor")

\* Command c is with the UART agent and nothing is posted; or c has its result; or c is left
\* unanswered. In the first case the belief is still true, in the second the result tells
\* what the module did.
Progress(c) ==
  \/ /\ result = None /\ state = module
     /\ Only(uartQ, Commands, c)
  \/ /\ Without(uartQ, Commands)
     /\ \/ result = "ok" /\ module = Obeyed(c)
        \/ result = "err" /\ module = state
        \/ result = None /\ unanswered > 0

\* As long as the two threads never waited at once, the one command under way and the one
\* result in the mailbox are those of the thread that waits.
MailboxInv ==
  ~overlapped =>
    /\ dispatch = "wait" => timer # "wait" /\ Progress(op)
    /\ timer = "wait" => Progress("Resume")
    /\ dispatch # "wait" /\ timer # "wait" => Without(uartQ, Commands) /\ result = None /\ state = module

IInv ==
  /\ TypeOK
  /\ OpInv
  /\ PauseHasOwner
  /\ MonitorInv
  /\ MailboxInv

----------------------------------------------------------------------------
(* Facts about the queue of requests. *)

AllRequests == Commands \cup Work

\* Commands, the other requests and None are told apart.
LEMMA NameFacts ==
  /\ Commands \cap Work = {} /\ None \notin AllRequests
  /\ Commands \subseteq AllRequests /\ Work \subseteq AllRequests
  /\ {"Pause", "Resume"} \subseteq Commands /\ "monitor" \in Work /\ "broadcast" # "monitor"
  /\ None \notin {"ok", "err"}
  BY NoneAssumption DEF Commands, Work, AllRequests

\* What the module does when it obeys.
LEMMA ObeyedFacts ==
  /\ Obeyed("Pause") = "Pause" /\ Obeyed("Resume") = "Resume" /\ Obeyed("Restart") = "Resume"
  BY DEF Obeyed

----------------------------------------------------------------------------
(* Type correctness, and who owns a pause. *)

\* Every step of the dispatcher, the timer, the agent or the module keeps the types, and the
\* dispatcher waits for a command of its own.
LEMMA TypeStep == TypeOK /\ OpInv /\ [Next]_vars => TypeOK' /\ OpInv'
<1> SUFFICES ASSUME TypeOK, OpInv, [Next]_vars PROVE TypeOK' /\ OpInv'
  OBVIOUS
<1> USE NameFacts, OpsAssumption, BoundsAssumption DEF meteringState, dispatchVars, faults, AllRequests
<1>1. ASSUME NEW c \in ClientOps, ClientOperates(c)
      PROVE  TypeOK' /\ OpInv'
  <2>1. c \in Commands /\ ops' \in 0 .. MaxOps
    BY <1>1 DEF ClientOperates, TakeMessage, TypeOK
  <2>2. uartQ' \in Seq(AllRequests)
    BY <1>1, <2>1, AppendProperties DEF ClientOperates, TypeOK
  <2>3. CASE c = state
    BY <1>1, <2>1, <2>2, <2>3 DEF ClientOperates, FinishClient, TypeOK, OpInv
  <2>4. CASE c # state
    BY <1>1, <2>1, <2>2, <2>4 DEF ClientOperates, TypeOK, OpInv
  <2> QED
    BY <2>3, <2>4
<1>2. ASSUME NEW w \in Work, AutoPause(w)
      PROVE  TypeOK' /\ OpInv'
  <2>1. ops' \in 0 .. MaxOps
    BY <1>2 DEF AutoPause, TakeMessage, TypeOK
  <2>2. uartQ' \in Seq(AllRequests) /\ "Pause" \in Commands
    <3>1. uartQ' = Append(uartQ, w) \/ uartQ' = Append(uartQ, "Pause")
      BY <1>2 DEF AutoPause, SendWork
    <3>2. uartQ \in Seq(AllRequests)
      BY DEF TypeOK
    <3>3. w \in AllRequests /\ "Pause" \in Commands
      BY DEF Commands
    <3> QED
      BY <3>1, <3>2, <3>3, AppendProperties
  <2>3. CASE state = "Pause"
    <3>1. resume_timer' \in {"none", "armed", "spent"}
      BY <1>2, <2>3 DEF AutoPause, Renewed
    <3>2. dispatch' \in {"recv", "work"} /\ op' = None /\ purpose' = None /\ overlapped' = overlapped
      BY <1>2, <2>3 DEF AutoPause, SendWork
    <3> QED
      BY <1>2, <2>1, <2>2, <3>1, <3>2 DEF AutoPause, TypeOK, OpInv
  <2>4. CASE state # "Pause"
    BY <1>2, <2>1, <2>2, <2>4 DEF AutoPause, TypeOK, OpInv
  <2> QED
    BY <2>3, <2>4
<1>3. CASE DispatchWakes
  <2>1. op \in Commands /\ (purpose # None => op = "Pause")
    BY <1>3 DEF DispatchWakes, OpInv
  <2>2. CASE Ok(result) /\ purpose = None
    BY <1>3, <2>1, <2>2 DEF DispatchWakes, FinishClient, TypeOK, OpInv, Commands
  <2>3. CASE Ok(result) /\ purpose # None
    <3>1. purpose \in Work /\ uartQ' = Append(uartQ, purpose)
      BY <1>3, <2>3 DEF DispatchWakes, SendWork, TypeOK
    <3>2. uartQ' \in Seq(AllRequests)
      BY <3>1, AppendProperties DEF TypeOK
    <3> QED
      <4>1. dispatch' \in {"recv", "work"} /\ op' = None /\ purpose' = None
        BY <1>3, <2>3 DEF DispatchWakes, SendWork
      <4>2. /\ state' = "Pause" /\ pausedBy' = "service" /\ resume_timer' = "armed"
            /\ crossed' = crossed
        BY <1>3, <2>3 DEF DispatchWakes, FinishPause
      <4> QED
        BY <1>3, <3>2, <4>1, <4>2 DEF DispatchWakes, TypeOK, OpInv
  <2>4. CASE ~Ok(result)
    BY <1>3, <2>4 DEF DispatchWakes, TypeOK, OpInv
  <2> QED
    BY <2>2, <2>3, <2>4
<1>4. CASE ResumeTimerFires
  BY <1>4 DEF ResumeTimerFires, TypeOK, OpInv
<1>5. CASE AutoResume
  <2>1. uartQ' \in Seq(AllRequests)
    BY <1>5, AppendProperties DEF AutoResume, TypeOK, Commands
  <2> QED
    <3>1. timer' \in {"idle", "wait"}
      BY <1>5 DEF AutoResume
    <3>2. overlapped' \in BOOLEAN
      BY <1>5 DEF AutoResume, TypeOK
    <3> QED
      BY <1>5, <2>1, <3>1, <3>2 DEF AutoResume, TypeOK, OpInv
<1>6. CASE TimerWakes
  BY <1>6 DEF TimerWakes, TypeOK, OpInv
<1>7. CASE PostResult \/ CommandUnanswered \/ WorkAnswered \/ WorkTimesOut \/ WorkBadlyAnswered
  <2>1. uartQ # << >> /\ uartQ' = Tail(uartQ)
    BY <1>7 DEF PostResult, CommandUnanswered, WorkAnswered, WorkTimesOut, WorkBadlyAnswered
  <2>2. uartQ' \in Seq(AllRequests) /\ Head(uartQ) \in AllRequests
    BY <2>1, HeadTailProperties DEF TypeOK
  <2>3. Head(uartQ) \in Commands => Obeyed(Head(uartQ)) \in {"Resume", "Pause"}
    BY ObeyedFacts DEF Commands
  <2>4. CASE PostResult
    BY <2>2, <2>3, <2>4 DEF PostResult, Posted, TypeOK, OpInv
  <2>5. CASE CommandUnanswered
    BY <2>2, <2>3, <2>5 DEF CommandUnanswered, TypeOK, OpInv
  <2>6. CASE WorkAnswered
    <3>1. resume_timer' \in {"none", "armed", "spent"}
      BY <2>6 DEF WorkAnswered, Renewed, TypeOK
    <3>2. dispatch' \in {dispatch, "recv"} /\ renewing' \in BOOLEAN
      BY <2>6 DEF WorkAnswered, TypeOK
    <3> QED
      BY <2>2, <2>6, <3>1, <3>2 DEF WorkAnswered, TypeOK, OpInv
  <2>7. CASE WorkTimesOut
    BY <2>2, <2>7 DEF WorkTimesOut, TypeOK, OpInv
  <2>8. CASE WorkBadlyAnswered
    BY <2>2, <2>8 DEF WorkBadlyAnswered, TypeOK, OpInv
  <2> QED
    BY <1>7, <2>4, <2>5, <2>6, <2>7, <2>8
<1>8. CASE Renew
  <2>1. resume_timer' \in {"none", "armed", "spent"} /\ renewing' = FALSE
    BY <1>8 DEF Renew, Renewed
  <2>2. UNCHANGED <<state, result, dispatch, op, purpose, timer, uartQ, module, pausedBy,
                    crossed, ops, denied, unanswered, overlapped>>
    BY <1>8 DEF Renew
  <2>3. OpInv'
    BY <2>2 DEF OpInv
  <2>4. TypeOK'
    BY <2>1, <2>2 DEF TypeOK
  <2> QED
    BY <2>3, <2>4
<1>9. CASE UNCHANGED vars
  BY <1>9 DEF vars, TypeOK, OpInv
<1> QED
  BY <1>1, <1>2, <1>3, <1>4, <1>5, <1>6, <1>7, <1>8, <1>9
  DEF Next, Dispatcher, TimerThread, Uart

\* A pause gets its timer, or loses it, in the step that makes it; a renewal and the start of
\* the callback leave a timer a timer.
LEMMA OwnerStep == TypeOK /\ OpInv /\ PauseHasOwner /\ [Next]_vars => PauseHasOwner'
<1> SUFFICES ASSUME TypeOK, OpInv, PauseHasOwner, [Next]_vars PROVE PauseHasOwner'
  OBVIOUS
<1> USE NameFacts DEF meteringState, dispatchVars, PauseHasOwner
<1>0. ASSUME NEW c \in Commands, FinishClient(c), timer' = timer
      PROVE  PauseHasOwner'
  <2>1. CASE c = "Pause"
    BY <1>0, <2>1 DEF FinishClient
  <2>2. CASE c # "Pause"
    BY <1>0, <2>2 DEF FinishClient, Commands
  <2> QED
    BY <2>1, <2>2
<1>1. ASSUME NEW c \in ClientOps, ClientOperates(c)
      PROVE  PauseHasOwner'
  <2>1. CASE c = state
    BY <1>0, <1>1, <2>1, OpsAssumption DEF ClientOperates
  <2>2. CASE c # state
    BY <1>1, <2>2 DEF ClientOperates
  <2> QED
    BY <2>1, <2>2
<1>2. ASSUME NEW w \in Work, AutoPause(w)
      PROVE  PauseHasOwner'
  BY <1>2 DEF AutoPause, Renewed
<1>3. CASE DispatchWakes
  <2>1. op \in Commands /\ timer' = timer
    BY <1>3 DEF DispatchWakes, OpInv
  <2>2. CASE FinishClient(op)
    BY <1>0, <2>1, <2>2
  <2>3. CASE FinishPause
    BY <2>3 DEF FinishPause
  <2>4. CASE UNCHANGED <<state, resume_timer, pausedBy, crossed>>
    BY <2>1, <2>4
  <2> QED
    BY <1>3, <2>2, <2>3, <2>4 DEF DispatchWakes
<1>4. CASE ResumeTimerFires \/ AutoResume \/ TimerWakes
  BY <1>4 DEF ResumeTimerFires, AutoResume, TimerWakes
<1>5. CASE Uart
  BY <1>5 DEF Uart, PostResult, CommandUnanswered, WorkAnswered, Renew, WorkTimesOut, WorkBadlyAnswered,
     Renewed
<1>6. CASE UNCHANGED vars
  BY <1>6 DEF vars
<1> QED
  BY <1>1, <1>2, <1>3, <1>4, <1>5, <1>6 DEF Next, Dispatcher, TimerThread

\* A monitor node request is sent when there is none, and the dispatcher then waits until it
\* is taken out of the queue.
LEMMA MonitorStep == TypeOK /\ OpInv /\ MonitorInv /\ [Next]_vars => MonitorInv'
<1> SUFFICES ASSUME TypeOK, OpInv, MonitorInv, [Next]_vars PROVE MonitorInv'
  OBVIOUS
<1>0. uartQ \in Seq(AllRequests)
  BY DEF TypeOK, AllRequests
<1> USE NameFacts DEF meteringState, dispatchVars, MonitorInv
\* nothing but a command joins the queue
<1>1. ASSUME NEW c \in Commands, dispatch # "work", uartQ' = uartQ \/ uartQ' = Append(uartQ, c)
      PROVE  MonitorInv'
  <2>1. c \in AllRequests /\ c \notin {"monitor"}
    BY <1>1
  <2>2. /\ Without(uartQ, {"monitor"}) => Without(Append(uartQ, c), {"monitor"})
        /\ Only(uartQ, {"monitor"}, "monitor") => Only(Append(uartQ, c), {"monitor"}, "monitor")
    BY <1>0, <2>1, AppendOther
  <2> QED
    BY <1>1, <2>2
\* the request that a pause was for joins it
<1>2. ASSUME NEW w \in Work, dispatch # "work", SendWork(w)
      PROVE  MonitorInv'
  <2>1. CASE w = "monitor"
    BY <1>0, <1>2, <2>1, AppendFirst DEF SendWork
  <2>2. CASE w # "monitor"
    BY <1>0, <1>2, <2>2, AppendOther DEF SendWork
  <2> QED
    BY <2>1, <2>2
<1>3. ASSUME NEW c \in ClientOps, ClientOperates(c)
      PROVE  MonitorInv'
  BY <1>1, <1>3, OpsAssumption DEF ClientOperates, TakeMessage
<1>4. ASSUME NEW w \in Work, AutoPause(w)
      PROVE  MonitorInv'
  BY <1>1, <1>2, <1>4 DEF AutoPause, TakeMessage
<1>5. CASE DispatchWakes
  <2>1. dispatch # "work" /\ purpose \in Work \cup {None}
    BY <1>5 DEF DispatchWakes, TypeOK
  <2>2. uartQ' = uartQ \/ (purpose # None /\ SendWork(purpose))
    BY <1>5 DEF DispatchWakes
  <2> QED
    BY <1>1, <1>2, <2>1, <2>2
<1>6. CASE AutoResume
  <2>1. dispatch' = dispatch /\ (uartQ' = uartQ \/ uartQ' = Append(uartQ, "Resume"))
    BY <1>6 DEF AutoResume
  <2>2. "Resume" \in AllRequests /\ "Resume" \notin {"monitor"}
    OBVIOUS
  <2>3. /\ Without(uartQ, {"monitor"}) => Without(Append(uartQ, "Resume"), {"monitor"})
        /\ Only(uartQ, {"monitor"}, "monitor") => Only(Append(uartQ, "Resume"), {"monitor"}, "monitor")
    BY <1>0, <2>2, AppendOther
  <2> QED
    BY <2>1, <2>3
<1>7. CASE PostResult \/ CommandUnanswered \/ WorkAnswered \/ WorkTimesOut \/ WorkBadlyAnswered
  <2>1. /\ uartQ # << >> /\ uartQ' = Tail(uartQ)
        /\ Head(uartQ) # "monitor" => dispatch' = dispatch
    BY <1>7 DEF PostResult, CommandUnanswered, WorkAnswered, WorkTimesOut, WorkBadlyAnswered
  <2> QED
    BY <1>0, <2>1, TailRequest
<1>8. CASE ResumeTimerFires \/ TimerWakes \/ Renew \/ UNCHANGED vars
  BY <1>8 DEF ResumeTimerFires, TimerWakes, Renew, vars
<1> QED
  BY <1>3, <1>4, <1>5, <1>6, <1>7, <1>8 DEF Next, Dispatcher, TimerThread, Uart

----------------------------------------------------------------------------
(* The mailbox. *)

\* As long as the threads do not wait at once, every step keeps the command under way and the
\* result in the mailbox those of the thread that waits.
LEMMA MailboxStep == IInv /\ [Next]_vars => MailboxInv'
<1> SUFFICES ASSUME TypeOK, OpInv, MonitorInv, MailboxInv, [Next]_vars, ~overlapped'
             PROVE  /\ dispatch' = "wait" => timer' # "wait" /\ Progress(op)'
                    /\ timer' = "wait" => Progress("Resume")'
                    /\ dispatch' # "wait" /\ timer' # "wait" =>
                         Without(uartQ', Commands) /\ result' = None /\ state' = module'
  BY DEF IInv, MailboxInv, Without
<1> DEFINE Goal == /\ dispatch' = "wait" => timer' # "wait" /\ Progress(op)'
                   /\ timer' = "wait" => Progress("Resume")'
                   /\ dispatch' # "wait" /\ timer' # "wait" =>
                        Without(uartQ', Commands) /\ result' = None /\ state' = module'
<1> USE NameFacts DEF meteringState, dispatchVars, faults
<1>0. /\ ~overlapped
      /\ dispatch = "wait" => timer # "wait" /\ Progress(op) /\ op \in Commands
      /\ timer = "wait" => Progress("Resume") /\ "Resume" \in Commands
      /\ dispatch # "wait" /\ timer # "wait" => Without(uartQ, Commands) /\ result = None /\ state = module
      /\ uartQ \in Seq(AllRequests)
  <2>1. ~overlapped
    BY DEF Next, Dispatcher, TimerThread, Uart, ClientOperates, AutoPause, DispatchWakes,
       ResumeTimerFires, AutoResume, TimerWakes, PostResult, CommandUnanswered, WorkAnswered, Renew,
       WorkTimesOut, WorkBadlyAnswered, vars
  <2> QED
    BY <2>1 DEF MailboxInv, OpInv, TypeOK, AllRequests, Commands
<1>1. ASSUME NEW c \in ClientOps, ClientOperates(c)
      PROVE  Goal
  <2>1. CASE c = state
    <3>1. UNCHANGED <<state, result, dispatch, op, timer, uartQ, module, unanswered>>
      BY <1>1, <2>1 DEF ClientOperates, FinishClient, TypeOK
    <3> QED
      BY <1>0, <3>1 DEF Progress
  <2>2. CASE c # state
    <3>1. /\ dispatch # "wait" /\ timer # "wait" /\ timer' = timer
          /\ dispatch' = "wait" /\ op' = c /\ uartQ' = Append(uartQ, c)
          /\ UNCHANGED <<state, result, module>>
      BY <1>1, <2>2 DEF ClientOperates, TakeMessage
    <3>2. c \in Commands
      BY OpsAssumption
    <3>3. Only(uartQ', Commands, c)
      BY <1>0, <3>1, <3>2, AppendFirst
    <3> QED
      BY <1>0, <3>1, <3>3 DEF Progress
  <2> QED
    BY <2>1, <2>2
<1>2. ASSUME NEW w \in Work, AutoPause(w)
      PROVE  Goal
  <2>1. CASE state = "Pause"
    <3>1. /\ dispatch # "wait" /\ dispatch' # "wait" /\ uartQ' = Append(uartQ, w)
          /\ UNCHANGED <<state, result, timer, module, unanswered>>
      BY <1>2, <2>1 DEF AutoPause, TakeMessage, SendWork
    <3>2. /\ Without(uartQ, Commands) => Without(uartQ', Commands)
          /\ Only(uartQ, Commands, "Resume") => Only(uartQ', Commands, "Resume")
      BY <1>0, <3>1, AppendOther
    <3> QED
      BY <1>0, <3>1, <3>2 DEF Progress
  <2>2. CASE state # "Pause"
    <3>1. /\ dispatch # "wait" /\ timer # "wait" /\ timer' = timer
          /\ dispatch' = "wait" /\ op' = "Pause" /\ uartQ' = Append(uartQ, "Pause")
          /\ UNCHANGED <<state, result, module>>
      BY <1>2, <2>2 DEF AutoPause, TakeMessage
    <3>2. Only(uartQ', Commands, "Pause")
      BY <1>0, <3>1, AppendFirst
    <3> QED
      BY <1>0, <3>1, <3>2 DEF Progress
  <2> QED
    BY <2>1, <2>2
<1>3. CASE DispatchWakes
  <2>1. dispatch = "wait" /\ timer # "wait" /\ timer' = timer /\ result # None /\ result' = None
    BY <1>0, <1>3 DEF DispatchWakes
  <2>2. /\ Without(uartQ, Commands)
        /\ (result = "ok" /\ module = Obeyed(op)) \/ (result = "err" /\ module = state)
    BY <1>0, <2>1 DEF Progress
  <2>3. dispatch' # "wait" /\ module' = module
    BY <1>3 DEF DispatchWakes, SendWork
  <2>4. CASE Ok(result) /\ purpose = None
    <3>1. uartQ' = uartQ /\ state' = Obeyed(op)
      BY <1>0, <1>3, <2>1, <2>4, ObeyedFacts DEF DispatchWakes, FinishClient, Commands
    <3> QED
      BY <2>1, <2>2, <2>3, <2>4, <3>1 DEF Ok
  <2>5. CASE Ok(result) /\ purpose # None
    <3>1. uartQ' = Append(uartQ, purpose) /\ state' = "Pause" /\ op = "Pause" /\ purpose \in Work
      BY <1>3, <2>1, <2>5 DEF DispatchWakes, FinishPause, SendWork, OpInv, TypeOK
    <3>2. Without(uartQ', Commands)
      BY <1>0, <2>2, <3>1, AppendOther
    <3> QED
      BY <2>1, <2>2, <2>3, <2>5, <3>1, <3>2, ObeyedFacts DEF Ok
  <2>6. CASE ~Ok(result)
    <3>1. uartQ' = uartQ /\ state' = state
      BY <1>3, <2>6 DEF DispatchWakes
    <3> QED
      BY <2>1, <2>2, <2>3, <2>6, <3>1 DEF Ok
  <2> QED
    BY <2>4, <2>5, <2>6
<1>4. CASE ResumeTimerFires
  <2>1. /\ UNCHANGED <<state, result, dispatch, op, uartQ, module, unanswered>>
        /\ timer # "wait" /\ timer' # "wait"
    BY <1>4 DEF ResumeTimerFires
  <2> QED
    BY <1>0, <2>1 DEF Progress
<1>5. CASE AutoResume
  <2>1. CASE state = "Resume"
    <3>1. /\ UNCHANGED <<state, result, dispatch, op, uartQ, module, unanswered>>
          /\ timer # "wait" /\ timer' # "wait"
      BY <1>5, <2>1 DEF AutoResume
    <3> QED
      BY <1>0, <3>1 DEF Progress
  <2>2. CASE state # "Resume"
    <3>1. /\ dispatch # "wait" /\ timer # "wait" /\ dispatch' = dispatch
          /\ timer' = "wait" /\ uartQ' = Append(uartQ, "Resume")
          /\ UNCHANGED <<state, result, module>>
      BY <1>5, <2>2 DEF AutoResume
    <3>2. Only(uartQ', Commands, "Resume")
      BY <1>0, <3>1, AppendFirst
    <3> QED
      BY <1>0, <3>1, <3>2 DEF Progress
  <2> QED
    BY <2>1, <2>2
<1>6. CASE TimerWakes
  <2>1. /\ timer = "wait" /\ dispatch # "wait" /\ dispatch' = dispatch /\ timer' = "idle"
        /\ result # None /\ result' = None /\ UNCHANGED <<uartQ, module>>
    BY <1>0, <1>6 DEF TimerWakes
  <2>2. /\ Without(uartQ, Commands)
        /\ (result = "ok" /\ module = Obeyed("Resume")) \/ (result = "err" /\ module = state)
    BY <1>0, <2>1 DEF Progress
  <2>3. state' = module
    BY <1>6, <2>2, ObeyedFacts DEF TimerWakes, Ok
  <2> QED
    BY <2>1, <2>2, <2>3
<1>7. CASE PostResult \/ CommandUnanswered
  <2>1. /\ uartQ # << >> /\ Head(uartQ) \in Commands /\ uartQ' = Tail(uartQ)
        /\ UNCHANGED <<state, dispatch, op, timer>>
    BY <1>7 DEF PostResult, CommandUnanswered
  <2>2. ~Without(uartQ, Commands)
    BY <1>0, <2>1, TailRequest
  <2>3. \/ result' = "ok" /\ module' = Obeyed(Head(uartQ))
        \/ result' = "err" /\ module' = module
        \/ result' = result /\ unanswered' > 0
    BY <1>7, BoundsAssumption DEF PostResult, Posted, CommandUnanswered, TypeOK
  <2>4. CASE dispatch = "wait"
    <3>1. Only(uartQ, Commands, op) /\ result = None /\ state = module /\ timer # "wait"
      BY <1>0, <2>2, <2>4 DEF Progress
    <3>2. Head(uartQ) = op /\ Without(uartQ', Commands)
      BY <1>0, <2>1, <3>1, TailRequest
    <3> QED
      BY <2>1, <2>3, <2>4, <3>1, <3>2 DEF Progress
  <2>5. CASE timer = "wait"
    <3>1. Only(uartQ, Commands, "Resume") /\ result = None /\ state = module /\ dispatch # "wait"
      BY <1>0, <2>2, <2>5 DEF Progress
    <3>2. Head(uartQ) = "Resume" /\ Without(uartQ', Commands)
      BY <1>0, <2>1, <3>1, TailRequest
    <3> QED
      BY <2>1, <2>3, <2>5, <3>1, <3>2 DEF Progress
  <2> QED
    BY <1>0, <2>2, <2>4, <2>5
<1>8. CASE WorkAnswered \/ WorkTimesOut \/ WorkBadlyAnswered
  <2>1. /\ uartQ # << >> /\ Head(uartQ) \notin Commands /\ uartQ' = Tail(uartQ)
        /\ UNCHANGED <<state, result, op, timer, module>>
        /\ unanswered' >= unanswered /\ unanswered \in Nat /\ unanswered' \in Nat
    BY <1>8, BoundsAssumption DEF WorkAnswered, WorkTimesOut, WorkBadlyAnswered, Work, Commands, TypeOK
  <2>2. /\ Without(uartQ, Commands) => Without(uartQ', Commands)
        /\ Only(uartQ, Commands, "Resume") => Only(uartQ', Commands, "Resume")
        /\ op \in Commands => (Only(uartQ, Commands, op) => Only(uartQ', Commands, op))
    BY <1>0, <2>1, TailRequest
  <2>3. dispatch' = dispatch \/ (dispatch # "wait" /\ dispatch' # "wait")
    <3>1. dispatch' # dispatch => Head(uartQ) = "monitor" /\ dispatch' = "recv"
      BY <1>8 DEF WorkAnswered, WorkTimesOut, WorkBadlyAnswered
    <3>2. Head(uartQ) = "monitor" => dispatch = "work"
      BY <1>0, <2>1, TailRequest DEF MonitorInv
    <3> QED
      BY <3>1, <3>2
  <2> QED
    BY <1>0, <2>1, <2>2, <2>3 DEF Progress
<1>9. CASE Renew \/ UNCHANGED vars
  <2>1. UNCHANGED <<state, result, dispatch, op, timer, uartQ, module, unanswered>>
    BY <1>9 DEF Renew, vars
  <2> QED
    BY <1>0, <2>1 DEF Progress
<1> QED
  BY <1>1, <1>2, <1>3, <1>4, <1>5, <1>6, <1>7, <1>8, <1>9
  DEF Next, Dispatcher, TimerThread, Uart

----------------------------------------------------------------------------
(* The theorems. *)

\* The inductive invariant holds of every behaviour.
THEOREM Invariance == Spec => []IInv
<1>1. Init => IInv
  <2> SUFFICES ASSUME Init PROVE IInv
    OBVIOUS
  <2>1. TypeOK
    <3>1. uartQ \in Seq(Commands \cup Work)
      BY DEF Init
    <3>2. ops \in 0 .. MaxOps /\ denied \in 0 .. MaxDenied /\ unanswered \in 0 .. MaxUnanswered
      BY BoundsAssumption DEF Init
    <3> QED
      BY <3>1, <3>2 DEF Init, TypeOK
  <2> QED
    BY <2>1 DEF Init, IInv, OpInv, PauseHasOwner, MonitorInv, MailboxInv, Without
<1>2. IInv /\ [Next]_vars => IInv'
  BY TypeStep, OwnerStep, MonitorStep, MailboxStep DEF IInv
<1> QED
  BY <1>1, <1>2, PTL DEF Spec

\* The state of the service, its mailbox and the channel of the UART agent keep their types.
THEOREM TypeCorrect == Spec => []TypeOK
<1>1. IInv => TypeOK
  BY DEF IInv
<1> QED
  BY <1>1, Invariance, PTL

\* An automatic pause has a resume timer and a client's pause has none, whoever waits,
\* renews or fires meanwhile.
THEOREM PauseOwner == Spec => []PauseHasOwner
<1>1. IInv => PauseHasOwner
  BY DEF IInv
<1> QED
  BY <1>1, Invariance, PTL

\* When no command is under way the service's belief is the module's state, up to the first
\* time that both threads wait.
THEOREM TrueBelief == Spec => []BeliefIsTrue
<1>1. IInv => BeliefIsTrue
  BY DEF IInv, MailboxInv, BeliefIsTrue, Settled
<1> QED
  BY <1>1, Invariance, PTL

\* A thread that waits has its command under way or its result in the mailbox, up to the
\* first unanswered command or the first time that both threads wait.
THEOREM WaiterServed == Spec => []EveryWaiterIsServed
<1>1. IInv => EveryWaiterIsServed
  <2> SUFFICES ASSUME IInv, dispatch = "wait" \/ timer = "wait", unanswered = 0, ~overlapped, result = None
               PROVE  \E i \in 1 .. Len(uartQ) : uartQ[i] \in Commands
    BY DEF EveryWaiterIsServed
  <2>1. CASE dispatch = "wait"
    BY <2>1, NameFacts DEF IInv, OpInv, MailboxInv, Progress, Only
  <2>2. CASE timer = "wait"
    BY <2>2, NameFacts DEF IInv, MailboxInv, Progress, Only
  <2> QED
    BY <2>1, <2>2
<1> QED
  BY <1>1, Invariance, PTL

=============================================================================
