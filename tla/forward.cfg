CONSTANTS
  c1 = c1
  c2 = c2
  direct = direct
  Calls <- TwoCalls
  Uploads <- FirstCall
  Proxies <- OneProxy
  MaxChunks = 2
  MaxReply = 1
  None = None
SPECIFICATION FairSpec
INVARIANTS TypeOK  OneTransport
PROPERTIES CancelledCallEnds GoroutineEnds
CHECK_DEADLOCK FALSE
