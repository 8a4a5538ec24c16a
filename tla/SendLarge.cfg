SPECIFICATION Spec
CONSTANTS
  Senders = {s1, s2}
  Worker = worker
  Nobody = nobody
  Libraries = {"openssl", "gnutls", "mbedtls", "none"}
  Sizes = {1, 3, 4}
  Short = 2
  Long = 3
  MaxMessageSize = 3
  RecordLen = 10
  FlushLen = 8
  MaxFrames = 2
  MaxOwn = 1
INVARIANT LargeIsSent
CHECK_DEADLOCK FALSE
