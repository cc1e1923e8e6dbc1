SPECIFICATION Spec
CONSTANTS
  ZERO = ZERO
  LEASE = LEASE
  Addrs = {a}
  MAX_DHCP_TRIES = 10
  REQUEST_TRIES = 5
  REBOOT_TRIES = 2
  TRIES_CAP = 12
  Replies = {"offer", "ack"}
  LinkMayChange = FALSE
PROPERTY StoppedIsNotBound
