SPECIFICATION Spec
CONSTANTS
  Messages <- MCMessages
  MaxSent = 3
  Net0 <- MCNet0
  Newcomer = "n4"
  QUERY_NODE_NUMBER = 2
PROPERTY
  ServedInOrder
CHECK_DEADLOCK FALSE
