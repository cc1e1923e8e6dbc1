SPECIFICATION FairSpec
CONSTANTS
  ZERO = ZERO
  LEASE = LEASE
  Addrs = {a}
  MAX_DHCP_TRIES = 6
  REQUEST_TRIES = 4
  REBOOT_TRIES = 2
  TRIES_CAP = 7
  Replies = {"offer", "ack", "nak", "conflict"}
  LinkMayChange = TRUE
INVARIANT TypeOK
 
INVARIANT NullSafe
INVARIANT StartedOnlyUp
INVARIANT TimeoutMeansStopped
PROPERTY WaitEnds
