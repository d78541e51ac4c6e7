SPECIFICATION FairSpec
CONSTANTS
  Addr <- Addresses
  GroupOf <- Groups
  MaxChanges = 2
INVARIANTS TypeOK SearchExact SubscribedExact
PROPERTIES Follows
CHECK_DEADLOCK FALSE
