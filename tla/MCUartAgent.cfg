CONSTANTS
  Requests = {r1, r2}
  Replies = {p1}
  SeqMod = 2
  CounterMod = 2
  None = None
SPECIFICATION FairSpec
INVARIANT TypeOK
INVARIANT SlotIsCurrent
INVARIANT SerialCustody
INVARIANT ConcurrentCustody
INVARIANT AnswersAreOwn
PROPERTY OneOutcome
PROPERTY SerialRequestsEnd
PROPERTY ImplementsService
CHECK_DEADLOCK FALSE
