--------------------------- MODULE RequestService ---------------------------
(***************************************************************************)
(* What the services above it may expect of the UART agent, without its    *)
(* threads, its lock, its slot and its sequence numbers.                   *)
(*                                                                         *)
(*   - The messages on the serial channel start in the order in which they *)
(*     were sent, one at a time: the next one starts only when the module  *)
(*     answered the one before it or its time ran out.  A confirmation of  *)
(*     a report is only written, nobody waits for it.                      *)
(*   - Meter readings start in order too, and any number is open at once.  *)
(*   - An answer is delivered by one thread, one answer at a time.         *)
(*   - A request has one outcome, and it has one in the end, unless the    *)
(*     agent broke down.  A meter reading that the module does not answer  *)
(*     has none either when the timer is stalled: its thread is shared     *)
(*     with callbacks that may never return.                               *)
(***************************************************************************)
EXTENDS Naturals, Sequences

CONSTANTS
  Ids,    \* requests and replies
  None    \* nothing

VARIABLES
  line,        \* serial messages that wait for their turn
  meterLine,   \* meter readings that wait for theirs
  slot,        \* the serial request that is open
  open,        \* the meter readings that are open
  inHand,      \* the request whose answer is delivered
  outcome,     \* the outcomes so far
  halted,      \* the agent broke down
  stalled      \* the timer runs no more callbacks

vars == <<line, meterLine, slot, open, inHand, outcome, halted, stalled>>

Outcomes == {"answered", "dropped", "panicked", "timeout", "lost", "confirmed"}

Queued == {line[i] : i \in DOMAIN line} \cup {meterLine[i] : i \in DOMAIN meterLine}
Unused(r) == r \notin Queued \cup open \cup {slot, inHand} /\ outcome[r] = None

EndAll(rs, o) == outcome' = [r \in Ids |-> IF r \in rs THEN o ELSE outcome[r]]

Init ==
  /\ line = << >>
  /\ meterLine = << >>
  /\ slot = None
  /\ open = {}
  /\ inHand = None
  /\ outcome = [r \in Ids |-> None]
  /\ halted = FALSE
  /\ stalled = FALSE

Submit(r) ==
  /\ Unused(r)
  /\ \/ line' = Append(line, r) /\ UNCHANGED meterLine
     \/ meterLine' = Append(meterLine, r) /\ UNCHANGED line
  /\ UNCHANGED <<slot, open, inHand, outcome, halted, stalled>>

Start ==
  /\ ~halted /\ line # << >> /\ slot = None
  /\ line' = Tail(line)
  /\ slot' = Head(line)
  /\ UNCHANGED <<meterLine, open, inHand, outcome, halted, stalled>>

\* A confirmation goes out.
Confirm ==
  /\ ~halted /\ line # << >> /\ slot = None
  /\ line' = Tail(line)
  /\ EndAll({Head(line)}, "confirmed")
  /\ UNCHANGED <<meterLine, slot, open, inHand, halted, stalled>>

TimeOut ==
  /\ ~halted /\ slot # None
  /\ EndAll({slot}, "timeout")
  /\ slot' = None
  /\ UNCHANGED <<line, meterLine, open, inHand, halted, stalled>>

\* A meter reading opens, and may drive out one that is open already; or it is lost itself.
StartMeter ==
  /\ ~halted /\ meterLine # << >>
  /\ meterLine' = Tail(meterLine)
  /\ LET r == Head(meterLine) IN
       \/ /\ open' = open \cup {r}
          /\ UNCHANGED outcome
       \/ \E old \in open :
            /\ open' = (open \ {old}) \cup {r}
            /\ EndAll({old}, "lost")
       \/ /\ EndAll({r}, "lost")
          /\ UNCHANGED open
  /\ UNCHANGED <<line, slot, inHand, halted, stalled>>

TimeOutMeter ==
  /\ ~halted /\ ~stalled
  /\ \E r \in open : open' = open \ {r} /\ EndAll({r}, "timeout")
  /\ UNCHANGED <<line, meterLine, slot, inHand, halted, stalled>>

\* The module's answer arrives.
Answer ==
  /\ ~halted /\ inHand = None
  /\ \/ /\ slot # None
        /\ inHand' = slot
        /\ slot' = None
        /\ UNCHANGED open
     \/ \E r \in open :
          /\ inHand' = r
          /\ open' = open \ {r}
          /\ UNCHANGED slot
  /\ UNCHANGED <<line, meterLine, outcome, halted, stalled>>

\* The waiter is told or the answer is dropped; a reply may have to follow.
Deliver ==
  /\ inHand # None
  /\ \E o \in {"answered", "dropped", "panicked"} : EndAll({inHand}, o)
  /\ inHand' = None
  /\ \/ UNCHANGED line
     \/ \E n \in Ids : Unused(n) /\ line' = Append(line, n)
  /\ UNCHANGED <<meterLine, slot, open, halted, stalled>>

Halt ==
  /\ ~halted
  /\ halted' = TRUE
  /\ UNCHANGED <<line, meterLine, slot, open, inHand, outcome, stalled>>

Stall ==
  /\ ~stalled
  /\ stalled' = TRUE
  /\ UNCHANGED <<line, meterLine, slot, open, inHand, outcome, halted>>

SerialStep == Start \/ Confirm \/ TimeOut

Next ==
  \/ \E r \in Ids : Submit(r)
  \/ SerialStep
  \/ StartMeter \/ TimeOutMeter
  \/ Answer \/ Deliver
  \/ Halt \/ Stall

\* Nothing makes a service send, the module answer, the agent break down or the timer stall.
Spec ==
  /\ Init /\ [][Next]_vars
  /\ WF_vars(SerialStep)
  /\ WF_vars(StartMeter)
  /\ WF_vars(TimeOutMeter)
  /\ WF_vars(Deliver)
=============================================================================
