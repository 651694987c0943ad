CONSTANTS
  Threads = {t1, t2, t3}
  NoThread = NoThread
  Nil = Nil
  Failed = Failed
  Manifest <- TornManifest
  Resources <- TornResources
  Requests <- SomeRequests
  MaxInt = 2147483647
  MaxCalls = 2
SPECIFICATION Spec
INVARIANT OnlyDecodeException
\* Threads stop when they have made their calls.
CHECK_DEADLOCK FALSE
