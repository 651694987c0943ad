--------------------------- MODULE TypeInfoLoader ---------------------------
(***************************************************************************)
(* The process-wide registry of decoder tables: the static class           *)
(* TypeInfoLoader of S2Protocol/TypeInfoLoader.cs.                         *)
(*                                                                         *)
(* Any number of threads call LoadTypeInfos(n) or GetLatestVersion().  The *)
(* first calls race on Initialize, a double-checked lock around a loop     *)
(* that fills two dictionaries and may throw half-way; every call then     *)
(* races on the two caches, which share one lock, and on the Lazy that     *)
(* runs the loading of a payload exactly once.                             *)
(*                                                                         *)
(* Initialize is modelled one write at a time, because _initialized is     *)
(* read outside the lock.  A block under _typeInfoCacheLock is one action: *)
(* nothing reads or writes the two caches outside that lock.               *)
(*                                                                         *)
(* A version object is a record: id is its reference identity, tables the  *)
(* identity of the decoder tables it points to, version its number.  Only  *)
(* the identities of the tables matter here, never what is in them.        *)
(***************************************************************************)
EXTENDS Integers, Sequences, FiniteSets

CONSTANTS
  Threads,     \* the callers
  Manifest,    \* protocol-versions.json: a sequence of [version, payload]
  Resources,   \* numbers n > 0 for which a resource protocol<n>.json exists
  Requests,    \* the version numbers callers ask for
  MaxInt,      \* int.MaxValue
  MaxCalls,    \* bound: calls made by one thread
  NoThread,    \* nobody: the init lock is free, nobody runs the factory
  Nil          \* null

(* The numbers of the manifest are read as C# ints.                        *)
Int32 == (-MaxInt - 1) .. MaxInt

Entries  == { Manifest[i] : i \in DOMAIN Manifest }
Versions == { e.version : e \in Entries }

ASSUME ConstantsAssumption ==
  /\ Manifest \in Seq([version : Int32, payload : Int32])
  /\ \A i, j \in DOMAIN Manifest :
       Manifest[i].version = Manifest[j].version => i = j
  /\ Resources \subseteq Nat \ {0}
  /\ Requests \subseteq Int
  /\ MaxInt \in Nat
  /\ MaxCalls \in Nat
  /\ NoThread \notin Threads
  /\ Nil \notin Int
  /\ Nil \notin [id : Int, tables : Int, version : Int]

VARIABLES
  \* --- the static fields
  initialized,      \* _initialized
  initLock,         \* the thread inside lock (_initLock), or NoThread
  resourceMap,      \* the keys of _protocolResourceMap
  payloadMap,       \* _protocolPayloadMap, Nil where it has no key
  protocolVersions, \* _protocolVersions, as the set of its elements
  latest,           \* _latestProtocolVersion
  lazy,             \* _canonicalTypeInfoCache: the Lazy of each payload
  typeInfoCache,    \* _typeInfoCache, Nil where it has no key
  \* --- the objects
  nextId,           \* identities 1 .. nextId - 1 are allocated
  built,            \* identities of the tables with decoder metadata
  \* --- the threads
  pc,               \* what each thread does next
  op,               \* "load" or "latest": the call it is in
  arg,              \* protocolVersion, the argument of LoadTypeInfos
  cursor,           \* the entry of the manifest loop
  usedVersion,      \* usedVersion
  loaded,           \* loadedCanonicalVersion
  outcome,          \* how its last call ended
  calls             \* calls it has started

statics == <<initialized, initLock, resourceMap, payloadMap,
             protocolVersions, latest>>
caches  == <<lazy, typeInfoCache>>
objects == <<nextId, built>>
locals  == <<op, arg, cursor, usedVersion, loaded, outcome, calls>>
vars    == <<statics, caches, objects, pc, locals>>

-----------------------------------------------------------------------------
(* Outcomes of a call and the states of a Lazy.                            *)

Idle        == [kind |-> "none"]
Returned(o) == [kind |-> "returned", object |-> o]
Threw(x)    == [kind |-> "threw", exception |-> x]

NoLazy         == [state |-> "none"]
LazyCreated    == [state |-> "created"]
LazyRunning(t) == [state |-> "running", by |-> t]
LazyValue(o)   == [state |-> "value", object |-> o]
LazyFailed     == [state |-> "failed"]

Goto(t, from, to) == pc[t] = from /\ pc' = [pc EXCEPT ![t] = to]

(* The call of t ends: it returns an object or throws.                     *)
End(t, from, result) ==
  /\ Goto(t, from, "idle")
  /\ outcome' = [outcome EXCEPT ![t] = result]
  /\ UNCHANGED <<op, arg, cursor, usedVersion, loaded, calls>>

-----------------------------------------------------------------------------
(* Calls.                                                                  *)

Call(t, kind, n) ==
  /\ calls[t] < MaxCalls
  /\ Goto(t, "idle", "checkInit")
  /\ op' = [op EXCEPT ![t] = kind]
  /\ arg' = [arg EXCEPT ![t] = n]
  /\ outcome' = [outcome EXCEPT ![t] = Idle]
  /\ calls' = [calls EXCEPT ![t] = @ + 1]
  /\ UNCHANGED <<statics, caches, objects, cursor, usedVersion, loaded>>

(* LoadTypeInfos(protocolVersion), up to the Initialize of                 *)
(* ResolveProtocolVersion.                                                 *)
CallLoadTypeInfos(t) == \E n \in Requests : Call(t, "load", n)

(* GetLatestVersion(), up to its own Initialize.                           *)
CallGetLatestVersion(t) == Call(t, "latest", 0)

(* Where a call goes on once Initialize has returned.                      *)
AfterInitialize(t) == IF op[t] = "latest" THEN "readLatest" ELSE "resolve"

-----------------------------------------------------------------------------
(* Initialize.                                                             *)

(* The unlocked read of _initialized.                                      *)
CheckInitialized(t) ==
  /\ Goto(t, "checkInit", IF initialized THEN AfterInitialize(t) ELSE "enter")
  /\ UNCHANGED <<statics, caches, objects, locals>>

(* lock (_initLock), then the second read of _initialized.                 *)
EnterInitLock(t) ==
  /\ initLock = NoThread
  /\ IF initialized
     THEN /\ Goto(t, "enter", AfterInitialize(t))
          /\ UNCHANGED initLock
     ELSE /\ Goto(t, "enter", "resources")
          /\ initLock' = t
  /\ UNCHANGED <<initialized, resourceMap, payloadMap, protocolVersions,
                 latest, caches, objects, locals>>

(* Bug: the lock is not released on the way out of an exception.           *)
FailInitializeLocked(t, from, exception) ==
  /\ End(t, from, Threw(exception))
  /\ UNCHANGED <<statics, caches, objects>>

(* An exception inside the lock leaves it, and leaves every write made     *)
(* before it.                                                              *)
FailInitialize(t, from, exception) ==
  /\ End(t, from, Threw(exception))
  /\ initLock' = NoThread
  /\ UNCHANGED <<initialized, resourceMap, payloadMap, protocolVersions,
                 latest, caches, objects>>

(* LoadManifest throws when the manifest has no entry.                     *)
LoadManifestFails(t) == FailInitialize(t, "resources", "DecodeException")

(* LoadManifest returns; then the loop over the names of the resources.     *)
MapResources(t) ==
  /\ Goto(t, "resources", "entries")
  /\ resourceMap' = resourceMap \union Resources
  /\ cursor' = [cursor EXCEPT ![t] = 1]
  /\ UNCHANGED <<initialized, initLock, payloadMap, protocolVersions, latest,
                 caches, objects, op, arg, usedVersion, loaded, outcome, calls>>

LoadManifest(t) ==
  IF Manifest = <<>> THEN LoadManifestFails(t) ELSE MapResources(t)

(* Bug: the resource of the payload is not looked for.                     *)
PositiveEntry(e) == e.version > 0 /\ e.payload > 0

ValidEntry(e) == e.version > 0 /\ e.payload > 0 /\ e.payload \in resourceMap

(* One turn of the loop over manifest.Versions that adds its entry.        *)
AddEntry(t) ==
  LET e == Manifest[cursor[t]] IN
  /\ Goto(t, "entries", "entries")
  /\ cursor[t] \in DOMAIN Manifest
  /\ ValidEntry(e)
  /\ payloadMap[e.version] = Nil
  /\ payloadMap' = [payloadMap EXCEPT ![e.version] = e.payload]
  /\ cursor' = [cursor EXCEPT ![t] = @ + 1]
  /\ UNCHANGED <<initialized, initLock, resourceMap, protocolVersions, latest,
                 caches, objects, op, arg, usedVersion, loaded, outcome, calls>>

(* A turn that throws: an invalid entry, or a key that Dictionary.Add      *)
(* already holds, left by an earlier Initialize that failed further on.    *)
RejectEntry(t) ==
  /\ cursor[t] \in DOMAIN Manifest
  /\ LET e == Manifest[cursor[t]] IN
     \/ /\ ~ValidEntry(e)
        /\ FailInitialize(t, "entries", "DecodeException")
     \/ /\ ValidEntry(e)
        /\ payloadMap[e.version] # Nil
        /\ FailInitialize(t, "entries", "ArgumentException")

(* Bug: _initialized is set before the last field is.                      *)
SetVersionsAndFlag(t) ==
  /\ cursor[t] \notin DOMAIN Manifest
  /\ Goto(t, "entries", "setLatest")
  /\ protocolVersions' = { v \in Versions : payloadMap[v] # Nil }
  /\ initialized' = TRUE
  /\ UNCHANGED <<initLock, resourceMap, payloadMap, latest,
                 caches, objects, locals>>

(* _protocolVersions = the keys of _protocolPayloadMap.                    *)
SetVersions(t) ==
  /\ cursor[t] \notin DOMAIN Manifest
  /\ Goto(t, "entries", "setLatest")
  /\ protocolVersions' = { v \in Versions : payloadMap[v] # Nil }
  /\ UNCHANGED <<initialized, initLock, resourceMap, payloadMap, latest,
                 caches, objects, locals>>

Greatest(S) == CHOOSE v \in S : \A w \in S : w <= v

SetLatest(t) ==
  /\ Goto(t, "setLatest", "setFlag")
  /\ latest' = IF protocolVersions = {} THEN 0 ELSE Greatest(protocolVersions)
  /\ UNCHANGED <<initialized, initLock, resourceMap, payloadMap,
                 protocolVersions, caches, objects, locals>>

(* Bug: the lock is not released.                                          *)
SetInitializedLocked(t) ==
  /\ Goto(t, "setFlag", AfterInitialize(t))
  /\ initialized' = TRUE
  /\ UNCHANGED <<initLock, resourceMap, payloadMap, protocolVersions, latest,
                 caches, objects, locals>>

(* _initialized = true, then the end of the lock.                          *)
SetInitialized(t) ==
  /\ Goto(t, "setFlag", AfterInitialize(t))
  /\ initialized' = TRUE
  /\ initLock' = NoThread
  /\ UNCHANGED <<resourceMap, payloadMap, protocolVersions, latest,
                 caches, objects, locals>>

-----------------------------------------------------------------------------
(* GetLatestVersion and ResolveProtocolVersion.                            *)

(* GetLatestVersion goes on as LoadTypeInfos(_latestProtocolVersion).  The *)
(* test for 0 never holds: LoadManifest refuses an empty manifest.         *)
ReadLatest(t) ==
  /\ Goto(t, "readLatest", "checkInit")
  /\ op' = [op EXCEPT ![t] = "load"]
  /\ arg' = [arg EXCEPT ![t] = latest]
  /\ UNCHANGED <<statics, caches, objects, cursor, usedVersion, loaded,
                 outcome, calls>>

(* Bug: an exact match of the binary search counts as a miss.              *)
Below(n) == { v \in protocolVersions : v < n }

AtMost(n) == { v \in protocolVersions : v <= n }

(* The binary search: the version itself, or its nearest predecessor.      *)
Resolve(t) ==
  /\ Goto(t, "resolve", "lookup")
  /\ AtMost(arg[t]) # {}
  /\ usedVersion' = [usedVersion EXCEPT ![t] = Greatest(AtMost(arg[t]))]
  /\ UNCHANGED <<statics, caches, objects, op, arg, cursor, loaded, outcome,
                 calls>>

ResolveFails(t) ==
  /\ End(t, "resolve", Threw("DecodeException"))
  /\ AtMost(arg[t]) = {}
  /\ UNCHANGED <<statics, caches, objects>>

-----------------------------------------------------------------------------
(* LoadTypeInfos.                                                          *)

Payload(t) == payloadMap[usedVersion[t]]

(* The first locked block, when it hits.                                   *)
LookupHit(t) ==
  /\ End(t, "lookup", Returned(typeInfoCache[usedVersion[t]]))
  /\ typeInfoCache[usedVersion[t]] # Nil
  /\ UNCHANGED <<statics, caches, objects>>

LookupMiss(t) ==
  /\ Goto(t, "lookup", "getLazy")
  /\ typeInfoCache[usedVersion[t]] = Nil
  /\ UNCHANGED <<statics, caches, objects, locals>>

(* Bug: the resource is loaded inside _typeInfoCacheLock.                  *)
GetOrAddLazyBlocked(t) ==
  /\ Goto(t, "getLazy", "value")
  /\ \A u \in Threads : pc[u] # "loadResource"
  /\ lazy' = IF lazy[Payload(t)] = NoLazy
             THEN [lazy EXCEPT ![Payload(t)] = LazyCreated]
             ELSE lazy
  /\ UNCHANGED <<statics, typeInfoCache, objects, locals>>

(* The second locked block: the Lazy of the payload, made if need be.      *)
GetOrAddLazy(t) ==
  /\ Goto(t, "getLazy", "value")
  /\ lazy' = IF lazy[Payload(t)] = NoLazy
             THEN [lazy EXCEPT ![Payload(t)] = LazyCreated]
             ELSE lazy
  /\ UNCHANGED <<statics, typeInfoCache, objects, locals>>

(* Bug: LazyThreadSafetyMode.None, the factory is run by whoever comes.    *)
StartFactoryAnew(t) ==
  /\ Goto(t, "value", "loadResource")
  /\ lazy[Payload(t)] # LazyFailed
  /\ lazy' = [lazy EXCEPT ![Payload(t)] = LazyRunning(t)]
  /\ UNCHANGED <<statics, typeInfoCache, objects, locals>>

(* canonicalVersion.Value, ExecutionAndPublication: the first thread runs  *)
(* LoadCanonicalVersion, the others block until it ends.                   *)
StartFactory(t) ==
  /\ Goto(t, "value", "loadResource")
  /\ lazy[Payload(t)] = LazyCreated
  /\ lazy' = [lazy EXCEPT ![Payload(t)] = LazyRunning(t)]
  /\ UNCHANGED <<statics, typeInfoCache, objects, locals>>

(* LoadResourceContent succeeds: tables without decoder metadata.          *)
LoadResourceContent(t) ==
  /\ Goto(t, "loadResource", "buildMetadata")
  /\ loaded' = [loaded EXCEPT ![t] =
                  [id |-> nextId, tables |-> nextId, version |-> Payload(t)]]
  /\ nextId' = nextId + 1
  /\ UNCHANGED <<statics, caches, built, op, arg, cursor, usedVersion,
                 outcome, calls>>

(* LoadResourceContent or BuildDecoderMetadata throws: the Lazy keeps the  *)
(* exception.                                                              *)
FactoryThrows(t) ==
  /\ \/ End(t, "loadResource", Threw("FactoryException"))
     \/ End(t, "buildMetadata", Threw("FactoryException"))
  /\ lazy' = [lazy EXCEPT ![Payload(t)] = LazyFailed]
  /\ UNCHANGED <<statics, typeInfoCache, objects>>

(* BuildDecoderMetadata of every type.                                     *)
BuildDecoderMetadata(t) ==
  /\ Goto(t, "buildMetadata", "publish")
  /\ built' = built \union {loaded[t].tables}
  /\ UNCHANGED <<statics, caches, nextId, locals>>

(* Bug: a failure at the end of the factory goes to the Lazy, and the      *)
(* caller that ran it goes on.                                             *)
PublishFailure(t) ==
  /\ Goto(t, "publish", "cache")
  /\ lazy' = [lazy EXCEPT ![Payload(t)] = LazyFailed]
  /\ UNCHANGED <<statics, typeInfoCache, objects, locals>>

(* LoadCanonicalVersion returns: the Lazy holds the value from now on.     *)
PublishValue(t) ==
  /\ Goto(t, "publish", "cache")
  /\ lazy' = [lazy EXCEPT ![Payload(t)] = LazyValue(loaded[t])]
  /\ UNCHANGED <<statics, typeInfoCache, objects, locals>>

(* canonicalVersion.Value on a Lazy that has run.                          *)
ReadValue(t) ==
  /\ Goto(t, "value", "cache")
  /\ lazy[Payload(t)].state = "value"
  /\ loaded' = [loaded EXCEPT ![t] = lazy[Payload(t)].object]
  /\ UNCHANGED <<statics, caches, objects, op, arg, cursor, usedVersion,
                 outcome, calls>>

RethrowCached(t) ==
  /\ End(t, "value", Threw("FactoryException"))
  /\ lazy[Payload(t)] = LazyFailed
  /\ UNCHANGED <<statics, caches, objects>>

(* The third locked block, when another thread was faster.                 *)
RecheckHit(t) ==
  /\ End(t, "cache", Returned(typeInfoCache[usedVersion[t]]))
  /\ typeInfoCache[usedVersion[t]] # Nil
  /\ UNCHANGED <<statics, caches, objects>>

(* CacheVersion: the canonical object, or a copy that shares its tables.   *)
Canonical(t) == usedVersion[t] = Payload(t)

(* Bug: an alias is answered with the object of its payload.               *)
VersionObjectOfPayload(t) == loaded[t]

(* Bug: an alias gets tables of its own.                                   *)
VersionObjectCloned(t) ==
  IF Canonical(t)
  THEN loaded[t]
  ELSE [id |-> nextId, tables |-> nextId, version |-> usedVersion[t]]

VersionObject(t) ==
  IF Canonical(t)
  THEN loaded[t]
  ELSE [id |-> nextId, tables |-> loaded[t].tables, version |-> usedVersion[t]]

(* Bug: the third block caches without looking.                            *)
CacheVersionUntested(t) ==
  /\ End(t, "cache", Returned(VersionObject(t)))
  /\ typeInfoCache' = [typeInfoCache EXCEPT ![usedVersion[t]] = VersionObject(t)]
  /\ nextId' = IF Canonical(t) THEN nextId ELSE nextId + 1
  /\ UNCHANGED <<statics, lazy, built>>

CacheVersion(t) ==
  /\ End(t, "cache", Returned(VersionObject(t)))
  /\ typeInfoCache[usedVersion[t]] = Nil
  /\ typeInfoCache' = [typeInfoCache EXCEPT ![usedVersion[t]] = VersionObject(t)]
  /\ nextId' = IF Canonical(t) THEN nextId ELSE nextId + 1
  /\ UNCHANGED <<statics, lazy, built>>

-----------------------------------------------------------------------------

Init ==
  /\ initialized = FALSE
  /\ initLock = NoThread
  /\ resourceMap = {}
  /\ payloadMap = [v \in Versions |-> Nil]
  /\ protocolVersions = {}
  /\ latest = 0
  /\ lazy = [p \in Resources |-> NoLazy]
  /\ typeInfoCache = [v \in Versions |-> Nil]
  /\ nextId = 1
  /\ built = {}
  /\ pc = [t \in Threads |-> "idle"]
  /\ op = [t \in Threads |-> "load"]
  /\ arg = [t \in Threads |-> 0]
  /\ cursor = [t \in Threads |-> 1]
  /\ usedVersion = [t \in Threads |-> Nil]
  /\ loaded = [t \in Threads |-> Nil]
  /\ outcome = [t \in Threads |-> Idle]
  /\ calls = [t \in Threads |-> 0]

Initialize(t) ==
  \/ CheckInitialized(t)
  \/ EnterInitLock(t)
  \/ LoadManifest(t)
  \/ AddEntry(t)
  \/ RejectEntry(t)
  \/ SetVersions(t)
  \/ SetLatest(t)
  \/ SetInitialized(t)

LoadTypeInfos(t) ==
  \/ ReadLatest(t)
  \/ Resolve(t)
  \/ ResolveFails(t)
  \/ LookupHit(t)
  \/ LookupMiss(t)
  \/ GetOrAddLazy(t)
  \/ StartFactory(t)
  \/ LoadResourceContent(t)
  \/ FactoryThrows(t)
  \/ BuildDecoderMetadata(t)
  \/ PublishValue(t)
  \/ ReadValue(t)
  \/ RethrowCached(t)
  \/ RecheckHit(t)
  \/ CacheVersion(t)

(* What a thread does inside a call.                                       *)
Step(t) == Initialize(t) \/ LoadTypeInfos(t)

Next ==
  \E t \in Threads :
    \/ CallLoadTypeInfos(t)
    \/ CallGetLatestVersion(t)
    \/ Step(t)

Spec == Init /\ [][Next]_vars

(* A thread inside a call keeps running, but a factory may hang: reading a *)
(* resource need never end.  Nobody is obliged to call.                    *)
FairSpec ==
  /\ Spec
  /\ \A t \in Threads : WF_vars(pc[t] # "loadResource" /\ Step(t))

-----------------------------------------------------------------------------
(* Invariants.                                                             *)

PayloadOf ==
  [v \in Versions |-> (CHOOSE e \in Entries : e.version = v).payload]

Floor(n) == Greatest({ v \in Versions : v <= n })

Ids     == 1 .. nextId - 1
Objects == [id : Ids, tables : Ids, version : Versions \union Resources]

Lazies ==
  [state : {"none", "created", "failed"}]
    \union [state : {"running"}, by : Threads]
    \union [state : {"value"}, object : Objects]
Outcomes ==
  [kind : {"none"}]
    \union [kind : {"returned"}, object : Objects]
    \union [kind : {"threw"}, exception :
               {"DecodeException", "ArgumentException", "FactoryException"}]

InitPcs == {"resources", "entries", "setLatest", "setFlag"}
FactoryPcs == {"loadResource", "buildMetadata", "publish"}
KnowsVersionPcs == {"lookup", "getLazy", "value", "cache"} \union FactoryPcs
Pcs == {"idle", "checkInit", "enter", "readLatest", "resolve"}
         \union InitPcs \union KnowsVersionPcs

StaticsTypeOK ==
  /\ initialized \in BOOLEAN
  /\ initLock \in Threads \union {NoThread}
  /\ resourceMap \in SUBSET Resources
  /\ payloadMap \in [Versions -> Resources \union {Nil}]
  /\ protocolVersions \in SUBSET Versions
  /\ latest \in Versions \union {0}

CachesTypeOK ==
  /\ lazy \in [Resources -> Lazies]
  /\ typeInfoCache \in [Versions -> Objects \union {Nil}]
  /\ nextId \in Nat \ {0}
  /\ built \in SUBSET Ids

ThreadsTypeOK ==
  /\ pc \in [Threads -> Pcs]
  /\ op \in [Threads -> {"load", "latest"}]
  /\ arg \in [Threads -> Int]
  /\ cursor \in [Threads -> Nat]
  /\ usedVersion \in [Threads -> Versions \union {Nil}]
  /\ loaded \in [Threads -> Objects \union {Nil}]
  /\ outcome \in [Threads -> Outcomes]
  /\ calls \in [Threads -> Nat]

(* Every variable has its type: what the declarations of the fields and    *)
(* the locals of TypeInfoLoader.cs say, null included.                     *)
TypeOK == StaticsTypeOK /\ CachesTypeOK /\ ThreadsTypeOK

(* Double-checked locking: whoever reads _initialized = true without the   *)
(* lock finds every dictionary and array of Initialize complete.           *)
InitializedComplete ==
  initialized =>
    /\ \A e \in Entries : payloadMap[e.version] = e.payload
    /\ \A e \in Entries : e.payload \in resourceMap
    /\ protocolVersions = Versions
    /\ latest = Greatest(Versions)

(* LoadTypeInfos(n) answers with the greatest version of the whole         *)
(* manifest that is not above n, whoever initialized and whenever.         *)
AnswersNearestVersion ==
  \A t \in Threads :
    pc[t] = "idle" /\ outcome[t].kind = "returned" =>
      outcome[t].object.version = Floor(arg[t])

(* What a call returned is, and stays, what the cache holds for its        *)
(* version: two calls for one version share one object.                    *)
ReturnedIsCached ==
  \A t \in Threads :
    outcome[t].kind = "returned" =>
      LET o == outcome[t].object IN
      o.version \in Versions /\ typeInfoCache[o.version] = o

(* Versions share decoder tables exactly when they share a payload         *)
(* (AliasedVersionsShareCanonicalDecoderTables in the tests), and every    *)
(* table a caller can reach has its decoder metadata built.                *)
SharedTables ==
  \A v, w \in Versions :
    typeInfoCache[v] # Nil /\ typeInfoCache[w] # Nil =>
      /\ typeInfoCache[v].tables \in built
      /\ typeInfoCache[v].tables = typeInfoCache[w].tables
            <=> PayloadOf[v] = PayloadOf[w]

(* The factory of a payload is run by one thread, once: while it runs      *)
(* nobody else loads the payload and none of its versions is cached.       *)
OneFactory ==
  \A t, u \in Threads :
    pc[t] \in FactoryPcs =>
      /\ pc[u] \in FactoryPcs /\ Payload(t) = Payload(u) => t = u
      /\ \A v \in Versions :
           typeInfoCache[v] # Nil => PayloadOf[v] # Payload(t)

(* Lazy caches the exception: a payload that failed to load is failed for  *)
(* every version, none of which was or will be served.                     *)
FailedNeverServed ==
  \A v \in Versions :
    PayloadOf[v] \in Resources /\ lazy[PayloadOf[v]] = LazyFailed =>
      typeInfoCache[v] = Nil

(* An empty manifest, or one with a bad entry, never yields an initialized *)
(* registry, and whatever a failed Initialize leaves behind, no caller     *)
(* gets a version.                                                         *)
BadManifest ==
  \/ Manifest = << >>
  \/ \E e \in Entries : e.version <= 0 \/ e.payload \notin Resources

BadManifestNeverServes ==
  BadManifest =>
    /\ ~initialized
    /\ \A t \in Threads : outcome[t].kind # "returned"

(* What the documentation of GetLatestVersion says: the exception it       *)
(* throws, when the resources are unusable, is DecodeException.            *)
OnlyDecodeException ==
  \A t \in Threads :
    op[t] = "latest" => outcome[t] # Threw("ArgumentException")

-----------------------------------------------------------------------------
(* Liveness.                                                               *)

(* No factory hangs.                                                       *)
FactoriesEnd ==
  \A t \in Threads : WF_vars(pc[t] = "loadResource" /\ Step(t))

(* If no factory hangs, every call ends: no lock is left held, no Lazy     *)
(* left running, whatever throws.                                          *)
CallsEnd == FactoriesEnd => \A t \in Threads : pc[t] # "idle" ~> pc[t] = "idle"

(* A payload whose loading hangs delays only the calls that need it: the   *)
(* factory runs outside _typeInfoCacheLock.                                *)
HungLoadIsContained ==
  \A t \in Threads :
    pc[t] # "idle" ~>
      \/ pc[t] = "idle"
      \/ pc[t] = "loadResource"
      \/ pc[t] = "value" /\ lazy[Payload(t)].state = "running"

=============================================================================
