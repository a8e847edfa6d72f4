CONSTANTS
  ClientOps = {"Pause", "Resume", "Restart"}
  MaxOps = 5
  MaxDenied = 1
  MaxUnanswered = 1
  None = None
SPECIFICATION FairSpec
INVARIANT PauseHasOwner
INVARIANT BeliefIsTrue
INVARIANT EveryWaiterIsServed
PROPERTY AutoPauseEnds
CHECK_DEADLOCK FALSE
