CONSTANTS
  SocketAddresses = {1, 2}
  FirstNotificationId = 1
  MaxNotificationId = 5
  MaxPending = 1
  TenSeconds = 1
  MaxLatency = 1
  MaxQueue = 2
SPECIFICATION Spec
CHECK_DEADLOCK FALSE
INVARIANTS RepliesMatch SocketsAgree TimeoutsJustified OnePing
PROPERTIES RepliesFinish
