-------------------------- MODULE UartAgentService --------------------------
(***************************************************************************)
(* The UART agent implements RequestService: the mapping of its state to   *)
(* what the services above it see.                                         *)
(***************************************************************************)
EXTENDS UartAgent

\* The slot may also hold a confirmation, which nobody waits for.
OpenSlot == IF req_info # None /\ req_info = cur THEN req_info ELSE None

OpenMeters == {concurrent_req_info[s] : s \in Seqs} \ {None}

\* A confirmation in the slot may be taken for the answered request: it stays confirmed.
InHand == IF hand # None /\ IsResponse(hand) THEN None ELSE hand

OutcomeOf(r) ==
  IF kind[r] = "confirm" /\ status[r] # "queued" THEN "confirmed"
  ELSE IF status[r] \in Final THEN status[r]
  ELSE None

OutcomesSoFar == [r \in Ids |-> OutcomeOf(r)]

Service == INSTANCE RequestService WITH
  line <- uartCh,
  meterLine <- concurrentCh,
  slot <- OpenSlot,
  open <- OpenMeters,
  inHand <- InHand,
  outcome <- OutcomesSoFar,
  halted <- poisoned,
  stalled <- (timer = "blocked")

(* The agent with its four threads, its one slot and its wrapping sequence *)
(* numbers behaves as RequestService says: serial requests open one at a   *)
(* time and in order, nothing is forgotten, answered twice or answered     *)
(* after its timeout. Every serial request ends unless the mutex is        *)
(* poisoned; so does every meter reading, which an answer ends or else the *)
(* timer, unless a resume of route control blocks the timer's thread.      *)
ImplementsService == Service!Spec
=============================================================================
