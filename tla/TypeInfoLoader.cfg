CONSTANTS
  Threads = {t1, t2}
  NoThread = NoThread
  Nil = Nil
  Failed = Failed
  Manifest <- GoodManifest
  Resources <- GoodResources
  Requests <- SomeRequests
  MaxInt = 2147483647
  MaxCalls = 2
SPECIFICATION FairSpec
INVARIANTS InitializedComplete AnswersNearestVersion ReturnedIsCached
  SharedTables OneFactory FailedNeverServed
PROPERTIES RegistrySpec CallsEnd HungLoadIsContained
\* Threads stop when they have made their calls.
CHECK_DEADLOCK FALSE
