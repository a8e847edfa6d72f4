SPECIFICATION Spec
CONSTANTS
  Messages <- MCMessages
  MaxSent = 3
  Net0 <- MCNet0
  Newcomer = "n4"
  QUERY_NODE_NUMBER = 2
INVARIANTS
  MailboxIsCurrent
  NoSilentWait
PROPERTIES
  PagesAreWhole
  MessagesAreAnswered
CHECK_DEADLOCK FALSE
