------------------------ MODULE TypeInfoLoaderProofs ------------------------
(***************************************************************************)
(* Proofs about TypeInfoLoader, for any threads, manifest, resources and   *)
(* requests.  The invariants of the specification become inductive with    *)
(* what the code's author has in mind at each line: who is inside a lock,  *)
(* how far the manifest loop has come, who runs a Lazy and what it made.   *)
(***************************************************************************)
EXTENDS TypeInfoLoaderRefinement, WellFoundedInduction, TLAPS

-----------------------------------------------------------------------------
(* The inductive invariant.                                                *)

(* Only the holder of _initLock is inside it, and only before the end.     *)
LockInv ==
  /\ \A t \in Threads : pc[t] \in InitPcs <=> initLock = t
  /\ initialized => initLock = NoThread

(* How much of the static fields Initialize has filled at each line.       *)
MappedUpTo(n) ==
  \A i \in DOMAIN Manifest : i < n =>
    /\ payloadMap[Manifest[i].version] = Manifest[i].payload
    /\ Manifest[i].payload \in resourceMap
    /\ Manifest[i].version > 0

AllMapped == MappedUpTo(Len(Manifest) + 1)

LoopInv ==
  /\ \A v \in Versions : payloadMap[v] \in {Nil, PayloadOf[v]}
  /\ \A t \in Threads :
       /\ pc[t] \in InitPcs \ {"resources"} => Manifest # << >>
       /\ pc[t] = "entries" => cursor[t] \in Nat \ {0} /\ MappedUpTo(cursor[t])
       /\ pc[t] \in {"setLatest", "setFlag"} =>
            AllMapped /\ protocolVersions = Versions
       /\ pc[t] = "setFlag" => latest = Greatest(Versions)
  /\ initialized =>
       /\ Manifest # << >>
       /\ AllMapped
       /\ protocolVersions = Versions
       /\ latest = Greatest(Versions)

(* A thread past Initialize runs on a complete registry; one past the      *)
(* resolution knows a version, one past GetOrAddLazy has a Lazy.           *)
ThreadInv ==
  \A t \in Threads :
    /\ pc[t] \in {"readLatest", "resolve"} \union KnowsVersionPcs => initialized
    /\ pc[t] \in KnowsVersionPcs =>
         /\ usedVersion[t] \in Versions
         /\ usedVersion[t] = Floor(arg[t])
    /\ pc[t] \in {"value", "cache"} => lazy[Payload(t)] # NoLazy
    /\ pc[t] = "cache" => lazy[Payload(t)] = LazyValue(loaded[t])

(* A Lazy runs while one thread is in its factory, and nobody else is.     *)
RunningInv ==
  \A t \in Threads : pc[t] \in FactoryPcs => lazy[Payload(t)] = LazyRunning(t)

(* What the factory has made at each line.                                 *)
FactoryInv ==
  \A t \in Threads :
    /\ pc[t] \in {"buildMetadata", "publish"} =>
         /\ loaded[t] # Nil
         /\ loaded[t].version = Payload(t)
    /\ pc[t] = "publish" => loaded[t].tables \in built

HasTables(p, k) ==
  \/ lazy[p].state = "value" /\ lazy[p].object.tables = k
  \/ \E t \in Threads :
       /\ pc[t] \in {"buildMetadata", "publish"}
       /\ Payload(t) = p
       /\ loaded[t].tables = k

(* Tables belong to one payload, and those in a Lazy are finished.         *)
TablesInv ==
  /\ \A p, q \in Resources : \A k \in Ids :
       HasTables(p, k) /\ HasTables(q, k) => p = q
  /\ \A p \in Resources :
       lazy[p].state = "value" =>
         lazy[p].object.tables \in built /\ lazy[p].object.version = p

(* A cached version is an object over the tables of its loaded payload.    *)
CacheInv ==
  \A v \in Versions :
    typeInfoCache[v] # Nil =>
      /\ initialized
      /\ typeInfoCache[v].version = v
      /\ lazy[PayloadOf[v]].state = "value"
      /\ typeInfoCache[v].tables = lazy[PayloadOf[v]].object.tables

IInv ==
  /\ TypeOK
  /\ LockInv
  /\ LoopInv
  /\ ThreadInv
  /\ RunningInv
  /\ FactoryInv
  /\ TablesInv
  /\ CacheInv
  /\ ReturnedIsCached
  /\ AnswersNearestVersion

-----------------------------------------------------------------------------
(* Facts about the constants.                                              *)

(* A non-empty set of C# ints has a greatest element, and Greatest is it:  *)
(* the distances to the largest int are naturals, and < on the naturals    *)
(* is well founded.                                                        *)
LEMMA GreatestIsElement ==
  ASSUME NEW S \in SUBSET Int32, S # {}
  PROVE  Greatest(S) \in S /\ \A w \in S : w <= Greatest(S)
<1> DEFINE D == { MaxInt - w : w \in S }
<1>1. D \subseteq Nat /\ D # {}
  BY ConstantsAssumption DEF ConstantsAssumption, Int32
<1>2. PICK d \in D : \A e \in D : ~ (<<e, d>> \in OpToRel(<, Nat))
  <2>1. \E d \in D : \A e \in D : ~ (<<e, d>> \in OpToRel(<, Nat))
    BY <1>1, NatLessThanWellFounded, WFMin, Zenon
  <2>2. QED
    BY <2>1
<1>3. \A e \in D : ~ (e < d)
  BY <1>1, <1>2, Zenon DEF OpToRel
<1>4. PICK v \in S : d = MaxInt - v
  BY <1>2
<1>5. ASSUME NEW w \in S PROVE w <= v
  <2>1. MaxInt - w \in D
    OBVIOUS
  <2>2. ~ (MaxInt - w < MaxInt - v)
    BY <2>1, <1>3, <1>4
  <2>3. w \in Int /\ v \in Int /\ MaxInt \in Int
    BY ConstantsAssumption DEF ConstantsAssumption, Int32
  <2>4. QED
    BY <2>2, <2>3
<1>6. QED
  BY <1>5 DEF Greatest

LEMMA ManifestDomain ==
  /\ Len(Manifest) \in Nat
  /\ DOMAIN Manifest = 1 .. Len(Manifest)
<1>1. ASSUME NEW R, NEW s \in Seq(R)
      PROVE  Len(s) \in Nat /\ DOMAIN s = 1 .. Len(s)
  OBVIOUS
<1>2. QED
  BY <1>1, ConstantsAssumption DEF ConstantsAssumption

(* Every entry is what PayloadOf says of its version.                      *)
LEMMA EntryPayload ==
  ASSUME NEW e \in Entries
  PROVE  e.version \in Versions /\ PayloadOf[e.version] = e.payload
BY ConstantsAssumption DEF ConstantsAssumption, Entries, Versions, PayloadOf

(* Versions are C# ints.                                                   *)
LEMMA VersionsAreInts == Versions \subseteq Int32 /\ Versions \subseteq Int
<1>1. \A i \in DOMAIN Manifest : Manifest[i] \in [version : Int32, payload : Int32]
  <2>1. ASSUME NEW R, NEW s \in Seq(R), NEW i \in DOMAIN s PROVE s[i] \in R
    BY <2>1
  <2>2. Manifest \in Seq([version : Int32, payload : Int32])
    BY ConstantsAssumption DEF ConstantsAssumption
  <2>3. QED
    BY <2>1, <2>2
<1>2. Versions \subseteq Int32
  BY <1>1 DEF Entries, Versions
<1>3. QED
  BY <1>2, ConstantsAssumption DEF ConstantsAssumption, Int32

LEMMA AtMostBelow ==
  ASSUME protocolVersions = Versions, NEW n \in Int
  PROVE  /\ AtMost(n) \subseteq Int32
         /\ AtMost(n) # {} => Greatest(AtMost(n)) \in Versions
         /\ Greatest(AtMost(n)) = Floor(n)
BY GreatestIsElement, VersionsAreInts DEF AtMost, Floor

-----------------------------------------------------------------------------
(* What the inductive invariant says at hand of one thread or version.     *)

(* An entry of the manifest loop.                                          *)
LEMMA EntryFacts ==
  ASSUME NEW i \in DOMAIN Manifest
  PROVE  /\ Manifest[i] \in Entries
         /\ Manifest[i].version \in Versions
         /\ PayloadOf[Manifest[i].version] = Manifest[i].payload
BY EntryPayload DEF Entries

(* AllMapped is MappedUpTo at any cursor past the end.                     *)
LEMMA MappedPastEnd ==
  ASSUME NEW n \in Nat, n \notin DOMAIN Manifest, n > 0, MappedUpTo(n)
  PROVE  AllMapped
<1>1. DOMAIN Manifest = 1 .. Len(Manifest) /\ Len(Manifest) \in Nat
  BY ManifestDomain
<1>2. QED
  BY <1>1 DEF MappedUpTo, AllMapped

(* Of a complete registry.                                                 *)
LEMMA AllMappedFacts ==
  ASSUME AllMapped, StaticsTypeOK, NEW v \in Versions
  PROVE  payloadMap[v] = PayloadOf[v] /\ PayloadOf[v] \in Resources
<1>1. PICK i \in DOMAIN Manifest : v = Manifest[i].version
  BY DEF Versions, Entries
<1>2. i < Len(Manifest) + 1
  BY ManifestDomain
<1>3. QED
  BY <1>1, <1>2, EntryFacts DEF AllMapped, MappedUpTo, StaticsTypeOK

(* A thread that knows its version knows its payload.                      *)
LEMMA PayloadFacts ==
  ASSUME IInv, NEW t \in Threads, pc[t] \in KnowsVersionPcs
  PROVE  /\ initialized
         /\ usedVersion[t] \in Versions
         /\ Payload(t) = PayloadOf[usedVersion[t]]
         /\ Payload(t) \in Resources
BY AllMappedFacts DEF IInv, ThreadInv, LoopInv, Payload, TypeOK

(* Null is no object, and objects stay objects as more are allocated.      *)
LEMMA NilIsNoObject ==
  ASSUME CachesTypeOK
  PROVE  Nil \notin Objects
<1>1. Objects \subseteq [id : Int, tables : Int, version : Int]
  <2>1. Ids \subseteq Int /\ Versions \union Resources \subseteq Int
    BY ConstantsAssumption, VersionsAreInts
       DEF ConstantsAssumption, Ids, CachesTypeOK
  <2>2. QED
    BY <2>1 DEF Objects
<1>2. QED
  BY <1>1, ConstantsAssumption DEF ConstantsAssumption

(* The states of a Lazy are distinct values, each in Lazies.               *)
LEMMA LazyFacts ==
  /\ {NoLazy, LazyCreated, LazyFailed} \subseteq Lazies
  /\ LazyCreated # NoLazy /\ LazyFailed # NoLazy /\ LazyFailed # LazyCreated
  /\ NoLazy.state # "value" /\ LazyCreated.state # "value"
  /\ LazyFailed.state # "value"
  /\ \A t \in Threads :
       /\ LazyRunning(t) \in Lazies
       /\ LazyRunning(t) \notin {NoLazy, LazyCreated, LazyFailed}
       /\ LazyRunning(t).state # "value"
       /\ \A u \in Threads : LazyRunning(t) = LazyRunning(u) => t = u
<1>1. /\ NoLazy.state = "none" /\ LazyCreated.state = "created"
     /\ LazyFailed.state = "failed"
  BY DEF NoLazy, LazyCreated, LazyFailed
<1>2. {NoLazy, LazyCreated, LazyFailed} \subseteq Lazies
  BY DEF NoLazy, LazyCreated, LazyFailed, Lazies
<1>3. ASSUME NEW t \in Threads
      PROVE  /\ LazyRunning(t) \in Lazies
             /\ LazyRunning(t).state = "running"
             /\ LazyRunning(t).by = t
  BY DEF LazyRunning, Lazies
<1>4. QED
  BY <1>1, <1>2, <1>3

LEMMA LazyValueFacts ==
  ASSUME NEW o
  PROVE  /\ o \in Objects => LazyValue(o) \in Lazies
         /\ LazyValue(o) \notin {NoLazy, LazyCreated, LazyFailed}
         /\ LazyValue(o).state = "value"
         /\ LazyValue(o).object = o
         /\ \A t \in Threads : LazyValue(o) # LazyRunning(t)
<1>1. LazyValue(o).state = "value" /\ LazyValue(o).object = o
  BY DEF LazyValue
<1>2. \A x \in {NoLazy, LazyCreated, LazyFailed} : x.state # "value"
  BY LazyFacts
<1>3. \A t \in Threads : LazyRunning(t).state # "value"
  BY LazyFacts
<1>4. o \in Objects => LazyValue(o) \in Lazies
  BY DEF LazyValue, Lazies
<1>5. QED
  BY <1>1, <1>2, <1>3, <1>4

(* Outcomes of the right type.                                             *)
LEMMA OutcomeFacts ==
  /\ \A x \in {"DecodeException", "ArgumentException", "FactoryException"} :
       Threw(x) \in Outcomes /\ Threw(x).kind # "returned"
  /\ \A o \in Objects :
       /\ Returned(o) \in Outcomes
       /\ Returned(o).kind = "returned"
       /\ Returned(o).object = o
BY DEF Threw, Returned, Outcomes

LEMMA ReturnedFacts ==
  ASSUME NEW o
  PROVE  Returned(o).kind = "returned" /\ Returned(o).object = o
BY DEF Returned

(* Objects stay objects when the next identity grows.                      *)
LEMMA ObjectsGrow ==
  ASSUME nextId \in Nat \ {0}, nextId' = nextId \/ nextId' = nextId + 1
  PROVE  /\ Ids \subseteq Ids' /\ nextId' \in Nat \ {0}
         /\ Objects \subseteq Objects'
         /\ Lazies \subseteq Lazies'
         /\ Outcomes \subseteq Outcomes'
<1>1. Ids \subseteq Ids' /\ nextId' \in Nat \ {0}
  BY DEF Ids
<1>2. Objects \subseteq Objects'
  BY <1>1 DEF Objects
<1>3. QED
  BY <1>1, <1>2 DEF Lazies, Outcomes

(* A Lazy that has a value has an object.                                  *)
LEMMA LazyObject ==
  ASSUME NEW x \in Lazies, x.state = "value"
  PROVE  x.object \in Objects /\ x = LazyValue(x.object)
<1>1. \A y \in [state : {"none", "created", "failed"}] : y.state # "value"
  OBVIOUS
<1>2. \A y \in [state : {"running"}, by : Threads] : y.state # "value"
  OBVIOUS
<1>3. \A y \in [state : {"value"}, object : Objects] :
        y.object \in Objects /\ y = LazyValue(y.object)
  BY DEF LazyValue
<1>4. QED
  BY <1>1, <1>2, <1>3 DEF Lazies

(* So does an outcome that is a result.                                    *)
LEMMA OutcomeObject ==
  ASSUME NEW x \in Outcomes, x.kind = "returned"
  PROVE  x.object \in Objects
<1>1. \A y \in [kind : {"none"}] : y.kind # "returned"
  OBVIOUS
<1>2. \A y \in [kind : {"threw"}, exception :
                  {"DecodeException", "ArgumentException", "FactoryException"}] :
        y.kind # "returned"
  OBVIOUS
<1>3. \A y \in [kind : {"returned"}, object : Objects] : y.object \in Objects
  OBVIOUS
<1>4. QED
  BY <1>1, <1>2, <1>3 DEF Outcomes

(* Tables in use are allocated.                                            *)
LEMMA HasTablesAllocated ==
  ASSUME CachesTypeOK, ThreadsTypeOK, FactoryInv,
         NEW p \in Resources, NEW k, HasTables(p, k)
  PROVE  k \in Ids
<1>1. CASE lazy[p].state = "value" /\ lazy[p].object.tables = k
  BY <1>1, LazyObject DEF CachesTypeOK, Objects
<1>2. ASSUME NEW t \in Threads, pc[t] \in {"buildMetadata", "publish"},
             loaded[t].tables = k
      PROVE  k \in Ids
  <2>1. loaded[t] \in Objects
    BY <1>2 DEF FactoryInv, ThreadsTypeOK
  <2>2. QED
    BY <1>2, <2>1 DEF Objects
<1>3. QED
  BY <1>1, <1>2 DEF HasTables

-----------------------------------------------------------------------------
(* One lemma for each action: it keeps the inductive invariant.            *)

(* LoadTypeInfos is called.                                                *)
LEMMA CallLoadTypeInfosStep ==
  ASSUME IInv, NEW t \in Threads, CallLoadTypeInfos(t)
  PROVE  IInv'
<1> USE DEF IInv, TypeOK, StaticsTypeOK, CachesTypeOK, ThreadsTypeOK, Goto,
            statics, caches, objects, locals, CallLoadTypeInfos, Call, Idle
<1>1. Requests \subseteq Int
  BY ConstantsAssumption DEF ConstantsAssumption
<1>2. StaticsTypeOK'
  BY <1>1
<1>3. CachesTypeOK'
  BY <1>1 DEF Lazies, Objects, Ids
<1>4. ThreadsTypeOK'
  BY <1>1 DEF Outcomes, Objects, Ids, Pcs, InitPcs, KnowsVersionPcs, FactoryPcs
<1>5. LockInv'
  BY <1>1 DEF LockInv, InitPcs
<1>6. LoopInv'
  BY <1>1 DEF LoopInv, InitPcs, MappedUpTo, AllMapped
<1>7. ThreadInv'
  BY <1>1 DEF ThreadInv, KnowsVersionPcs, FactoryPcs, Payload
<1>8. RunningInv'
  BY <1>1 DEF RunningInv, FactoryPcs, Payload
<1>9. FactoryInv'
  BY <1>1 DEF FactoryInv, FactoryPcs, Payload
<1>10. TablesInv'
  BY <1>1 DEF TablesInv, HasTables, Payload, Ids
<1>11. CacheInv'
  BY <1>1 DEF CacheInv
<1>12. ReturnedIsCached'
  BY <1>1 DEF ReturnedIsCached
<1>13. AnswersNearestVersion'
  BY <1>1 DEF AnswersNearestVersion
<1>14. QED
  BY <1>2, <1>3, <1>4, <1>5, <1>6, <1>7, <1>8, <1>9, <1>10, <1>11, <1>12,
     <1>13 DEF IInv, TypeOK

(* GetLatestVersion is called.                                             *)
LEMMA CallGetLatestVersionStep ==
  ASSUME IInv, NEW t \in Threads, CallGetLatestVersion(t)
  PROVE  IInv'
<1> USE DEF IInv, TypeOK, StaticsTypeOK, CachesTypeOK, ThreadsTypeOK, Goto,
            statics, caches, objects, locals, CallGetLatestVersion, Call, Idle
<1>1. StaticsTypeOK'
  OBVIOUS
<1>2. CachesTypeOK'
  BY DEF Lazies, Objects, Ids
<1>3. ThreadsTypeOK'
  BY DEF Outcomes, Objects, Ids, Pcs, InitPcs, KnowsVersionPcs, FactoryPcs
<1>4. LockInv'
  BY DEF LockInv, InitPcs
<1>5. LoopInv'
  BY DEF LoopInv, InitPcs, MappedUpTo, AllMapped
<1>6. ThreadInv'
  BY DEF ThreadInv, KnowsVersionPcs, FactoryPcs, Payload
<1>7. RunningInv'
  BY DEF RunningInv, FactoryPcs, Payload
<1>8. FactoryInv'
  BY DEF FactoryInv, FactoryPcs, Payload
<1>9. TablesInv'
  BY DEF TablesInv, HasTables, Payload, Ids
<1>10. CacheInv'
  BY DEF CacheInv
<1>11. ReturnedIsCached'
  BY DEF ReturnedIsCached
<1>12. AnswersNearestVersion'
  BY DEF AnswersNearestVersion
<1>13. QED
  BY <1>1, <1>2, <1>3, <1>4, <1>5, <1>6, <1>7, <1>8, <1>9, <1>10, <1>11,
     <1>12 DEF IInv, TypeOK

(* The unlocked test.                                                      *)
LEMMA CheckInitializedStep ==
  ASSUME IInv, NEW t \in Threads, CheckInitialized(t)
  PROVE  IInv'
<1> USE DEF IInv, TypeOK, StaticsTypeOK, CachesTypeOK, ThreadsTypeOK, Goto,
            statics, caches, objects, locals, CheckInitialized, AfterInitialize
<1>1. StaticsTypeOK'
  OBVIOUS
<1>2. CachesTypeOK'
  BY DEF Lazies, Objects, Ids
<1>3. ThreadsTypeOK'
  BY DEF Outcomes, Objects, Ids, Pcs, InitPcs, KnowsVersionPcs, FactoryPcs
<1>4. LockInv'
  BY DEF LockInv, InitPcs
<1>5. LoopInv'
  BY DEF LoopInv, InitPcs, MappedUpTo, AllMapped
<1>6. ThreadInv'
  BY DEF ThreadInv, KnowsVersionPcs, FactoryPcs, Payload
<1>7. RunningInv'
  BY DEF RunningInv, FactoryPcs, Payload
<1>8. FactoryInv'
  BY DEF FactoryInv, FactoryPcs, Payload
<1>9. TablesInv'
  BY DEF TablesInv, HasTables, Payload, Ids
<1>10. CacheInv'
  BY DEF CacheInv
<1>11. ReturnedIsCached'
  BY DEF ReturnedIsCached
<1>12. AnswersNearestVersion'
  BY DEF AnswersNearestVersion
<1>13. QED
  BY <1>1, <1>2, <1>3, <1>4, <1>5, <1>6, <1>7, <1>8, <1>9, <1>10, <1>11,
     <1>12 DEF IInv, TypeOK

(* The lock and the test under it.                                         *)
LEMMA EnterInitLockStep ==
  ASSUME IInv, NEW t \in Threads, EnterInitLock(t)
  PROVE  IInv'
<1> USE DEF IInv, TypeOK, StaticsTypeOK, CachesTypeOK, ThreadsTypeOK, Goto,
            statics, caches, objects, locals, EnterInitLock, AfterInitialize
<1>1. NoThread \notin Threads
  BY ConstantsAssumption DEF ConstantsAssumption
<1>2. StaticsTypeOK'
  BY <1>1
<1>3. CachesTypeOK'
  BY <1>1 DEF Lazies, Objects, Ids
<1>4. ThreadsTypeOK'
  BY <1>1 DEF Outcomes, Objects, Ids, Pcs, InitPcs, KnowsVersionPcs, FactoryPcs
<1>5. LockInv'
  BY <1>1 DEF LockInv, InitPcs
<1>6. LoopInv'
  <2>1. \A u \in Threads : pc[u] \notin InitPcs
    BY <1>1 DEF LockInv
  <2>2. \A u \in Threads : pc'[u] \in InitPcs => pc'[u] = "resources"
    BY <2>1 DEF InitPcs
  <2>3. QED
    BY <2>2 DEF LoopInv, InitPcs, MappedUpTo, AllMapped
<1>7. ThreadInv'
  BY <1>1 DEF ThreadInv, KnowsVersionPcs, FactoryPcs, Payload
<1>8. RunningInv'
  BY <1>1 DEF RunningInv, FactoryPcs, Payload
<1>9. FactoryInv'
  BY <1>1 DEF FactoryInv, FactoryPcs, Payload
<1>10. TablesInv'
  BY <1>1 DEF TablesInv, HasTables, Payload, Ids
<1>11. CacheInv'
  BY <1>1 DEF CacheInv
<1>12. ReturnedIsCached'
  BY <1>1 DEF ReturnedIsCached
<1>13. AnswersNearestVersion'
  BY <1>1 DEF AnswersNearestVersion
<1>14. QED
  BY <1>2, <1>3, <1>4, <1>5, <1>6, <1>7, <1>8, <1>9, <1>10, <1>11, <1>12,
     <1>13 DEF IInv, TypeOK

(* No manifest.                                                            *)
LEMMA LoadManifestFailsStep ==
  ASSUME IInv, NEW t \in Threads, LoadManifestFails(t)
  PROVE  IInv'
<1> USE DEF IInv, TypeOK, StaticsTypeOK, CachesTypeOK, ThreadsTypeOK, Goto,
            statics, caches, objects, locals, LoadManifestFails, FailInitialize, End, Threw
<1>1. NoThread \notin Threads
  BY ConstantsAssumption DEF ConstantsAssumption
<1>2. StaticsTypeOK'
  BY <1>1
<1>3. CachesTypeOK'
  BY <1>1 DEF Lazies, Objects, Ids
<1>4. ThreadsTypeOK'
  BY <1>1 DEF Outcomes, Objects, Ids, Pcs, InitPcs, KnowsVersionPcs, FactoryPcs
<1>5. LockInv'
  BY <1>1 DEF LockInv, InitPcs
<1>6. LoopInv'
  BY <1>1 DEF LoopInv, InitPcs, MappedUpTo, AllMapped
<1>7. ThreadInv'
  BY <1>1 DEF ThreadInv, KnowsVersionPcs, FactoryPcs, Payload
<1>8. RunningInv'
  BY <1>1 DEF RunningInv, FactoryPcs, Payload
<1>9. FactoryInv'
  BY <1>1 DEF FactoryInv, FactoryPcs, Payload
<1>10. TablesInv'
  BY <1>1 DEF TablesInv, HasTables, Payload, Ids
<1>11. CacheInv'
  BY <1>1 DEF CacheInv
<1>12. ReturnedIsCached'
  BY <1>1 DEF ReturnedIsCached
<1>13. AnswersNearestVersion'
  BY <1>1 DEF AnswersNearestVersion
<1>14. QED
  BY <1>2, <1>3, <1>4, <1>5, <1>6, <1>7, <1>8, <1>9, <1>10, <1>11, <1>12,
     <1>13 DEF IInv, TypeOK

(* The loop over the resources.                                            *)
LEMMA MapResourcesStep ==
  ASSUME IInv, NEW t \in Threads, MapResources(t), Manifest # <<>>
  PROVE  IInv'
<1> USE DEF IInv, TypeOK, StaticsTypeOK, CachesTypeOK, ThreadsTypeOK, Goto,
            statics, caches, objects, locals, MapResources
<1>1. \A u \in Threads : pc[u] \in InitPcs => u = t
  BY DEF LockInv, InitPcs
<1>2. StaticsTypeOK'
  BY <1>1
<1>3. CachesTypeOK'
  BY <1>1 DEF Lazies, Objects, Ids
<1>4. ThreadsTypeOK'
  BY <1>1 DEF Outcomes, Objects, Ids, Pcs, InitPcs, KnowsVersionPcs, FactoryPcs
<1>5. LockInv'
  BY <1>1 DEF LockInv, InitPcs
<1>6. LoopInv'
  <2>1. \A u \in Threads \ {t} : pc'[u] \notin InitPcs
    BY <1>1
  <2>2. pc'[t] = "entries" /\ cursor'[t] = 1
    OBVIOUS
  <2>3. MappedUpTo(1)'
    BY ManifestDomain DEF MappedUpTo
  <2>4. initialized => FALSE
    BY ConstantsAssumption DEF ConstantsAssumption, LockInv, InitPcs
  <2>5. QED
    BY <2>1, <2>2, <2>3, <2>4 DEF LoopInv, InitPcs
<1>7. ThreadInv'
  BY <1>1 DEF ThreadInv, KnowsVersionPcs, FactoryPcs, Payload
<1>8. RunningInv'
  BY <1>1 DEF RunningInv, FactoryPcs, Payload
<1>9. FactoryInv'
  BY <1>1 DEF FactoryInv, FactoryPcs, Payload
<1>10. TablesInv'
  BY <1>1 DEF TablesInv, HasTables, Payload, Ids
<1>11. CacheInv'
  BY <1>1 DEF CacheInv
<1>12. ReturnedIsCached'
  BY <1>1 DEF ReturnedIsCached
<1>13. AnswersNearestVersion'
  BY <1>1 DEF AnswersNearestVersion
<1>14. QED
  BY <1>2, <1>3, <1>4, <1>5, <1>6, <1>7, <1>8, <1>9, <1>10, <1>11, <1>12,
     <1>13 DEF IInv, TypeOK

(* GetLatestVersion goes on.                                               *)
LEMMA ReadLatestStep ==
  ASSUME IInv, NEW t \in Threads, ReadLatest(t)
  PROVE  IInv'
<1> USE DEF IInv, TypeOK, StaticsTypeOK, CachesTypeOK, ThreadsTypeOK, Goto,
            statics, caches, objects, locals, ReadLatest
<1>1. Versions \subseteq Int
  BY VersionsAreInts
<1>2. StaticsTypeOK'
  BY <1>1
<1>3. CachesTypeOK'
  BY <1>1 DEF Lazies, Objects, Ids
<1>4. ThreadsTypeOK'
  BY <1>1 DEF Outcomes, Objects, Ids, Pcs, InitPcs, KnowsVersionPcs, FactoryPcs
<1>5. LockInv'
  BY <1>1 DEF LockInv, InitPcs
<1>6. LoopInv'
  BY <1>1 DEF LoopInv, InitPcs, MappedUpTo, AllMapped
<1>7. ThreadInv'
  BY <1>1 DEF ThreadInv, KnowsVersionPcs, FactoryPcs, Payload
<1>8. RunningInv'
  BY <1>1 DEF RunningInv, FactoryPcs, Payload
<1>9. FactoryInv'
  BY <1>1 DEF FactoryInv, FactoryPcs, Payload
<1>10. TablesInv'
  BY <1>1 DEF TablesInv, HasTables, Payload, Ids
<1>11. CacheInv'
  BY <1>1 DEF CacheInv
<1>12. ReturnedIsCached'
  BY <1>1 DEF ReturnedIsCached
<1>13. AnswersNearestVersion'
  BY <1>1 DEF AnswersNearestVersion
<1>14. QED
  BY <1>2, <1>3, <1>4, <1>5, <1>6, <1>7, <1>8, <1>9, <1>10, <1>11, <1>12,
     <1>13 DEF IInv, TypeOK

(* No version is low enough.                                               *)
LEMMA ResolveFailsStep ==
  ASSUME IInv, NEW t \in Threads, ResolveFails(t)
  PROVE  IInv'
<1> USE DEF IInv, TypeOK, StaticsTypeOK, CachesTypeOK, ThreadsTypeOK, Goto,
            statics, caches, objects, locals, ResolveFails, End, Threw
<1>1. StaticsTypeOK'
  OBVIOUS
<1>2. CachesTypeOK'
  BY DEF Lazies, Objects, Ids
<1>3. ThreadsTypeOK'
  BY DEF Outcomes, Objects, Ids, Pcs, InitPcs, KnowsVersionPcs, FactoryPcs
<1>4. LockInv'
  BY DEF LockInv, InitPcs
<1>5. LoopInv'
  BY DEF LoopInv, InitPcs, MappedUpTo, AllMapped
<1>6. ThreadInv'
  BY DEF ThreadInv, KnowsVersionPcs, FactoryPcs, Payload
<1>7. RunningInv'
  BY DEF RunningInv, FactoryPcs, Payload
<1>8. FactoryInv'
  BY DEF FactoryInv, FactoryPcs, Payload
<1>9. TablesInv'
  BY DEF TablesInv, HasTables, Payload, Ids
<1>10. CacheInv'
  BY DEF CacheInv
<1>11. ReturnedIsCached'
  BY DEF ReturnedIsCached
<1>12. AnswersNearestVersion'
  BY DEF AnswersNearestVersion
<1>13. QED
  BY <1>1, <1>2, <1>3, <1>4, <1>5, <1>6, <1>7, <1>8, <1>9, <1>10, <1>11,
     <1>12 DEF IInv, TypeOK

(* A version is chosen.                                                    *)
LEMMA ResolveStep ==
  ASSUME IInv, NEW t \in Threads, Resolve(t)
  PROVE  IInv'
<1> USE DEF IInv, TypeOK, StaticsTypeOK, CachesTypeOK, ThreadsTypeOK, Goto,
            statics, caches, objects, locals, Resolve
<1>1. /\ Greatest(AtMost(arg[t])) \in Versions
     /\ Greatest(AtMost(arg[t])) = Floor(arg[t])
  <2>1. protocolVersions = Versions
    BY DEF ThreadInv, LoopInv
  <2>2. arg[t] \in Int
    OBVIOUS
  <2>3. QED
    BY <2>1, <2>2, AtMostBelow
<1>2. StaticsTypeOK'
  BY <1>1
<1>3. CachesTypeOK'
  BY <1>1 DEF Lazies, Objects, Ids
<1>4. ThreadsTypeOK'
  BY <1>1 DEF Outcomes, Objects, Ids, Pcs, InitPcs, KnowsVersionPcs, FactoryPcs
<1>5. LockInv'
  BY <1>1 DEF LockInv, InitPcs
<1>6. LoopInv'
  BY <1>1 DEF LoopInv, InitPcs, MappedUpTo, AllMapped
<1>7. ThreadInv'
  BY <1>1 DEF ThreadInv, KnowsVersionPcs, FactoryPcs, Payload
<1>8. RunningInv'
  BY <1>1 DEF RunningInv, FactoryPcs, Payload
<1>9. FactoryInv'
  BY <1>1 DEF FactoryInv, FactoryPcs, Payload
<1>10. TablesInv'
  BY <1>1 DEF TablesInv, HasTables, Payload, Ids
<1>11. CacheInv'
  BY <1>1 DEF CacheInv
<1>12. ReturnedIsCached'
  BY <1>1 DEF ReturnedIsCached
<1>13. AnswersNearestVersion'
  BY <1>1 DEF AnswersNearestVersion
<1>14. QED
  BY <1>2, <1>3, <1>4, <1>5, <1>6, <1>7, <1>8, <1>9, <1>10, <1>11, <1>12,
     <1>13 DEF IInv, TypeOK

(* The first block hits.                                                   *)
LEMMA LookupHitStep ==
  ASSUME IInv, NEW t \in Threads, LookupHit(t)
  PROVE  IInv'
<1> USE DEF IInv, TypeOK, StaticsTypeOK, CachesTypeOK, ThreadsTypeOK, Goto,
            statics, caches, objects, locals, LookupHit, End, Returned
<1>1. usedVersion[t] \in Versions /\ Payload(t) \in Resources /\ initialized
     /\ Payload(t) = PayloadOf[usedVersion[t]]
  BY PayloadFacts DEF KnowsVersionPcs, FactoryPcs
<1>2. StaticsTypeOK'
  BY <1>1
<1>3. CachesTypeOK'
  BY <1>1 DEF Lazies, Objects, Ids
<1>4. ThreadsTypeOK'
  BY <1>1 DEF Outcomes, Objects, Ids, Pcs, InitPcs, KnowsVersionPcs, FactoryPcs
<1>5. LockInv'
  BY <1>1 DEF LockInv, InitPcs
<1>6. LoopInv'
  BY <1>1 DEF LoopInv, InitPcs, MappedUpTo, AllMapped
<1>7. ThreadInv'
  BY <1>1 DEF ThreadInv, KnowsVersionPcs, FactoryPcs, Payload
<1>8. RunningInv'
  BY <1>1 DEF RunningInv, FactoryPcs, Payload
<1>9. FactoryInv'
  BY <1>1 DEF FactoryInv, FactoryPcs, Payload
<1>10. TablesInv'
  BY <1>1 DEF TablesInv, HasTables, Payload, Ids
<1>11. CacheInv'
  BY <1>1 DEF CacheInv
<1>12. ReturnedIsCached'
  <2>1. outcome'[t].object = typeInfoCache[usedVersion[t]]
    BY DEF ThreadsTypeOK
  <2>2. outcome'[t].object.version = usedVersion[t]
    BY <1>1, <2>1 DEF CacheInv
  <2>3. \A u \in Threads \ {t} : outcome'[u] = outcome[u]
    OBVIOUS
  <2>4. QED
    BY <1>1, <2>1, <2>2, <2>3 DEF ReturnedIsCached
<1>13. AnswersNearestVersion'
  <2>1. outcome'[t].object.version = usedVersion[t]
    BY <1>1 DEF CacheInv
  <2>2. usedVersion[t] = Floor(arg[t])
    BY DEF ThreadInv, KnowsVersionPcs
  <2>3. \A u \in Threads \ {t} : outcome'[u] = outcome[u] /\ pc'[u] = pc[u]
    OBVIOUS
  <2>4. QED
    BY <2>1, <2>2, <2>3 DEF AnswersNearestVersion
<1>14. QED
  BY <1>2, <1>3, <1>4, <1>5, <1>6, <1>7, <1>8, <1>9, <1>10, <1>11, <1>12,
     <1>13 DEF IInv, TypeOK

(* The first block misses.                                                 *)
LEMMA LookupMissStep ==
  ASSUME IInv, NEW t \in Threads, LookupMiss(t)
  PROVE  IInv'
<1> USE DEF IInv, TypeOK, StaticsTypeOK, CachesTypeOK, ThreadsTypeOK, Goto,
            statics, caches, objects, locals, LookupMiss
<1>1. StaticsTypeOK'
  OBVIOUS
<1>2. CachesTypeOK'
  BY DEF Lazies, Objects, Ids
<1>3. ThreadsTypeOK'
  BY DEF Outcomes, Objects, Ids, Pcs, InitPcs, KnowsVersionPcs, FactoryPcs
<1>4. LockInv'
  BY DEF LockInv, InitPcs
<1>5. LoopInv'
  BY DEF LoopInv, InitPcs, MappedUpTo, AllMapped
<1>6. ThreadInv'
  BY DEF ThreadInv, KnowsVersionPcs, FactoryPcs, Payload
<1>7. RunningInv'
  BY DEF RunningInv, FactoryPcs, Payload
<1>8. FactoryInv'
  BY DEF FactoryInv, FactoryPcs, Payload
<1>9. TablesInv'
  BY DEF TablesInv, HasTables, Payload, Ids
<1>10. CacheInv'
  BY DEF CacheInv
<1>11. ReturnedIsCached'
  BY DEF ReturnedIsCached
<1>12. AnswersNearestVersion'
  BY DEF AnswersNearestVersion
<1>13. QED
  BY <1>1, <1>2, <1>3, <1>4, <1>5, <1>6, <1>7, <1>8, <1>9, <1>10, <1>11,
     <1>12 DEF IInv, TypeOK

(* The second block.                                                       *)
LEMMA GetOrAddLazyStep ==
  ASSUME IInv, NEW t \in Threads, GetOrAddLazy(t)
  PROVE  IInv'
<1> USE DEF IInv, TypeOK, StaticsTypeOK, CachesTypeOK, ThreadsTypeOK, Goto,
            statics, caches, objects, locals, GetOrAddLazy, NoLazy, LazyCreated
<1>1. usedVersion[t] \in Versions /\ Payload(t) \in Resources /\ initialized
     /\ Payload(t) = PayloadOf[usedVersion[t]]
  BY PayloadFacts DEF KnowsVersionPcs, FactoryPcs
<1>2. StaticsTypeOK'
  BY <1>1
<1>3. CachesTypeOK'
  BY <1>1 DEF Lazies, Objects, Ids
<1>4. ThreadsTypeOK'
  BY <1>1 DEF Outcomes, Objects, Ids, Pcs, InitPcs, KnowsVersionPcs, FactoryPcs
<1>5. LockInv'
  BY <1>1 DEF LockInv, InitPcs
<1>6. LoopInv'
  BY <1>1 DEF LoopInv, InitPcs, MappedUpTo, AllMapped
<1>7. ThreadInv'
  BY <1>1 DEF ThreadInv, KnowsVersionPcs, FactoryPcs, Payload
<1>8. RunningInv'
  <2>1. \A p \in Resources : lazy'[p] # lazy[p] => lazy[p] = NoLazy
    BY <1>1
  <2>2. \A u \in Threads : pc'[u] \in FactoryPcs => pc[u] \in FactoryPcs
    BY DEF FactoryPcs
  <2>3. \A u \in Threads : pc[u] \in FactoryPcs => Payload(u) \in Resources
    BY PayloadFacts DEF KnowsVersionPcs
  <2>4. QED
    BY <2>1, <2>2, <2>3 DEF RunningInv, Payload, LazyRunning
<1>9. FactoryInv'
  BY <1>1 DEF FactoryInv, FactoryPcs, Payload
<1>10. TablesInv'
  BY <1>1 DEF TablesInv, HasTables, Payload, Ids
<1>11. CacheInv'
  BY <1>1 DEF CacheInv
<1>12. ReturnedIsCached'
  BY <1>1 DEF ReturnedIsCached
<1>13. AnswersNearestVersion'
  BY <1>1 DEF AnswersNearestVersion
<1>14. QED
  BY <1>2, <1>3, <1>4, <1>5, <1>6, <1>7, <1>8, <1>9, <1>10, <1>11, <1>12,
     <1>13 DEF IInv, TypeOK

(* A thread becomes the one that runs the factory.                         *)
LEMMA StartFactoryStep ==
  ASSUME IInv, NEW t \in Threads, StartFactory(t)
  PROVE  IInv'
<1> USE DEF Goto, statics, caches, objects, locals, StartFactory
<1>1. /\ TypeOK /\ LockInv /\ LoopInv /\ ThreadInv /\ RunningInv /\ FactoryInv
     /\ TablesInv /\ CacheInv /\ ReturnedIsCached /\ AnswersNearestVersion
  BY DEF IInv
<1>2. StaticsTypeOK /\ CachesTypeOK /\ ThreadsTypeOK
  BY <1>1 DEF TypeOK
<1>3. usedVersion[t] \in Versions /\ Payload(t) \in Resources /\ initialized
     /\ Payload(t) = PayloadOf[usedVersion[t]]
  BY PayloadFacts DEF KnowsVersionPcs, FactoryPcs
<1>4. \A u \in Threads : Payload(u)' = Payload(u)
  BY DEF Payload
<1>5. \A u \in Threads : pc[u] \in KnowsVersionPcs => Payload(u) \in Resources
  BY PayloadFacts
<1>6. lazy \in [Resources -> Lazies] /\ pc \in [Threads -> Pcs] /\ loaded \in [Threads -> Objects \union {Nil}]
  BY <1>2 DEF CachesTypeOK, ThreadsTypeOK
<1>7. StaticsTypeOK'
  BY <1>1, <1>2, <1>3, <1>4, <1>5, <1>6
     DEF StaticsTypeOK, CachesTypeOK, ThreadsTypeOK
<1>8. CachesTypeOK'
  BY <1>2, <1>3, LazyFacts DEF CachesTypeOK, Objects, Ids, Lazies
<1>9. ThreadsTypeOK'
  BY <1>1, <1>2, <1>3, <1>4, <1>5, <1>6
     DEF StaticsTypeOK, CachesTypeOK, ThreadsTypeOK,
     Outcomes, Objects, Ids, Pcs, InitPcs, KnowsVersionPcs, FactoryPcs
<1>10. LockInv'
  BY <1>1, <1>2, <1>3, <1>4, <1>5, <1>6
     DEF StaticsTypeOK, CachesTypeOK, ThreadsTypeOK,
     LockInv, InitPcs
<1>11. LoopInv'
  BY <1>1, <1>2, <1>3, <1>4, <1>5, <1>6
     DEF StaticsTypeOK, CachesTypeOK, ThreadsTypeOK,
     LoopInv, InitPcs, MappedUpTo, AllMapped
<1>12. ThreadInv'
  <2>1. ASSUME NEW u \in Threads \ {t}, pc[u] \in {"value", "cache"}
        PROVE  lazy'[Payload(u)] # NoLazy
    BY <1>1, <1>3, <1>5, <1>6, <2>1, LazyFacts DEF ThreadInv, KnowsVersionPcs
  <2>2. ASSUME NEW u \in Threads \ {t}, pc[u] = "cache"
        PROVE  lazy'[Payload(u)] = LazyValue(loaded[u])
    BY <1>1, <1>3, <1>5, <1>6, <2>2, LazyValueFacts DEF ThreadInv,
       KnowsVersionPcs
  <2>3. QED
    BY <1>1, <1>3, <1>4, <1>6, <2>1, <2>2
       DEF ThreadInv, KnowsVersionPcs, FactoryPcs
<1>13. RunningInv'
  <2>1. ASSUME NEW u \in Threads \ {t}, pc[u] \in FactoryPcs
        PROVE  lazy'[Payload(u)] = LazyRunning(u)
    BY <1>1, <1>3, <1>5, <1>6, <2>1, LazyFacts DEF RunningInv, KnowsVersionPcs
  <2>2. QED
    BY <1>3, <1>4, <1>6, <2>1 DEF RunningInv
<1>14. FactoryInv'
  BY <1>1, <1>2, <1>3, <1>4, <1>5, <1>6
     DEF StaticsTypeOK, CachesTypeOK, ThreadsTypeOK,
     FactoryInv, FactoryPcs, Payload
<1>15. TablesInv'
  <2>1. \A p \in Resources :
          lazy'[p] = lazy[p] \/ (lazy[p].state # "value" /\ lazy'[p].state # "value")
    <3>1. lazy[Payload(t)].state # "value" /\ LazyRunning(t).state # "value"
      BY LazyFacts
    <3>2. lazy' = [lazy EXCEPT ![Payload(t)] = LazyRunning(t)]
      OBVIOUS
    <3>3. QED
      BY <1>6, <3>1, <3>2
  <2>2. \A u \in Threads : pc'[u] \in {"buildMetadata", "publish"} <=> pc[u] \in {"buildMetadata", "publish"}
    BY <1>6
  <2>3. \A p \in Resources, k \in Ids : HasTables(p, k)' <=> HasTables(p, k)
    BY <1>4, <2>1, <2>2 DEF HasTables
  <2>4. QED
    BY <1>1, <2>1, <2>3 DEF TablesInv, Ids
<1>16. CacheInv'
  BY <1>1, <1>3, <1>6, LazyFacts DEF CacheInv
<1>17. ReturnedIsCached'
  BY <1>1, <1>2, <1>3, <1>4, <1>5, <1>6
     DEF StaticsTypeOK, CachesTypeOK, ThreadsTypeOK,
     ReturnedIsCached
<1>18. AnswersNearestVersion'
  BY <1>1, <1>2, <1>3, <1>4, <1>5, <1>6
     DEF StaticsTypeOK, CachesTypeOK, ThreadsTypeOK,
     AnswersNearestVersion
<1>19. QED
  BY <1>7, <1>8, <1>9, <1>10, <1>11, <1>12, <1>13, <1>14, <1>15, <1>16,
     <1>17, <1>18 DEF IInv, TypeOK

(* One turn of the manifest loop.                                          *)
LEMMA AddEntryStep ==
  ASSUME IInv, NEW t \in Threads, AddEntry(t)
  PROVE  IInv'
<1> USE DEF Goto, statics, caches, objects, locals, AddEntry, ValidEntry
<1>1. /\ TypeOK /\ LockInv /\ LoopInv /\ ThreadInv /\ RunningInv /\ FactoryInv
     /\ TablesInv /\ CacheInv /\ ReturnedIsCached /\ AnswersNearestVersion
  BY DEF IInv
<1>2. StaticsTypeOK /\ CachesTypeOK /\ ThreadsTypeOK
  BY <1>1 DEF TypeOK
<1>3. /\ payloadMap \in [Versions -> Resources \union {Nil}] /\ pc \in [Threads -> Pcs]
     /\ cursor \in [Threads -> Nat] /\ outcome \in [Threads -> Outcomes]
     /\ resourceMap \in SUBSET Resources /\ Nil \notin Resources
  <2>1. Nil \notin Resources
    <3>1. Resources \subseteq Int /\ Nil \notin Int
      BY ConstantsAssumption DEF ConstantsAssumption
    <3>2. QED
      BY <3>1
  <2>2. QED
    BY <1>2, <2>1 DEF StaticsTypeOK, ThreadsTypeOK
<1>4. /\ \A u \in Threads : pc[u] \in InitPcs => u = t
     /\ ~initialized
     /\ \A u \in Threads : pc[u] \notin KnowsVersionPcs \union {"readLatest", "resolve"}
  <2>1. initLock = t /\ NoThread \notin Threads
    BY <1>1, ConstantsAssumption DEF ConstantsAssumption, LockInv, InitPcs
  <2>2. QED
    BY <1>1, <2>1 DEF LockInv, ThreadInv
<1>5. /\ pc[t] = "entries" /\ pc'[t] = "entries"
     /\ \A u \in Threads \ {t} : pc'[u] = pc[u]
  BY <1>3
<1>6. /\ cursor[t] \in Nat \ {0} /\ MappedUpTo(cursor[t]) /\ Manifest # << >>
     /\ \A v \in Versions : payloadMap[v] \in {Nil, PayloadOf[v]}
  BY <1>1, <1>5 DEF LoopInv, InitPcs
<1>7. /\ cursor[t] \in DOMAIN Manifest
     /\ Manifest[cursor[t]].version \in Versions
     /\ PayloadOf[Manifest[cursor[t]].version] = Manifest[cursor[t]].payload
     /\ Manifest[cursor[t]].payload \in Resources
  BY <1>3, EntryFacts
<1>8. StaticsTypeOK'
  BY <1>2, <1>3, <1>7 DEF StaticsTypeOK
<1>9. CachesTypeOK'
  BY <1>2 DEF CachesTypeOK, Objects, Ids, Lazies
<1>10. ThreadsTypeOK'
  <2>1. cursor' \in [Threads -> Nat]
    BY <1>3, <1>6
  <2>2. QED
    BY <1>2, <1>5, <2>1 DEF ThreadsTypeOK, Pcs, InitPcs, Outcomes, Objects, Ids
<1>11. LockInv'
  BY <1>1, <1>4, <1>5 DEF LockInv, InitPcs
<1>12. LoopInv'
  <2>1. \A v \in Versions : payloadMap'[v] \in {Nil, PayloadOf[v]}
    BY <1>3, <1>6, <1>7
  <2>2. cursor'[t] = cursor[t] + 1
    BY <1>3
  <2>3. ASSUME NEW i \in DOMAIN Manifest, i < cursor[t] + 1
        PROVE  /\ payloadMap'[Manifest[i].version] = Manifest[i].payload
               /\ Manifest[i].payload \in resourceMap
               /\ Manifest[i].version > 0
    <3>1. CASE i = cursor[t]
      BY <1>3, <1>7, <3>1
    <3>2. CASE i # cursor[t]
      <4>1. i < cursor[t]
        BY <1>6, <2>3, <3>2, ManifestDomain
      <4>2. /\ payloadMap[Manifest[i].version] = Manifest[i].payload
            /\ Manifest[i].payload \in resourceMap
            /\ Manifest[i].version > 0
        BY <1>6, <4>1 DEF MappedUpTo
      <4>3. Manifest[i].version # Manifest[cursor[t]].version
        BY <1>7, <3>2, ConstantsAssumption DEF ConstantsAssumption
      <4>4. QED
        BY <1>3, <4>2, <4>3, EntryFacts
    <3>3. QED
      BY <3>1, <3>2
  <2>4. MappedUpTo(cursor[t])'
    BY <2>2, <2>3 DEF MappedUpTo
  <2>5. cursor'[t] \in Nat \ {0}
    BY <1>6, <2>2
  <2>6. \A u \in Threads \ {t} : pc'[u] \notin InitPcs
    BY <1>4, <1>5
  <2>7. QED
    BY <1>4, <1>5, <1>6, <2>1, <2>4, <2>5, <2>6 DEF LoopInv, InitPcs
<1>13. ThreadInv'
  BY <1>4, <1>5 DEF ThreadInv, KnowsVersionPcs, FactoryPcs
<1>14. RunningInv'
  BY <1>4, <1>5 DEF RunningInv, KnowsVersionPcs, FactoryPcs
<1>15. FactoryInv'
  BY <1>4, <1>5 DEF FactoryInv, KnowsVersionPcs, FactoryPcs
<1>16. TablesInv'
  <2>1. \A p \in Resources, k \in Ids : HasTables(p, k)' => HasTables(p, k)
    BY <1>4, <1>5 DEF HasTables, KnowsVersionPcs, FactoryPcs
  <2>2. QED
    BY <1>1, <2>1 DEF TablesInv, Ids
<1>17. CacheInv'
  BY <1>1 DEF CacheInv
<1>18. ReturnedIsCached'
  BY <1>1 DEF ReturnedIsCached
<1>19. AnswersNearestVersion'
  BY <1>1, <1>5 DEF AnswersNearestVersion
<1>20. QED
  BY <1>8, <1>9, <1>10, <1>11, <1>12, <1>13, <1>14, <1>15, <1>16, <1>17,
     <1>18, <1>19 DEF IInv, TypeOK

(* The turn that throws.                                                   *)
LEMMA RejectEntryStep ==
  ASSUME IInv, NEW t \in Threads, RejectEntry(t)
  PROVE  IInv'
<1> USE DEF Goto, statics, caches, objects, locals, RejectEntry, FailInitialize, End
<1>1. /\ TypeOK /\ LockInv /\ LoopInv /\ ThreadInv /\ RunningInv /\ FactoryInv
     /\ TablesInv /\ CacheInv /\ ReturnedIsCached /\ AnswersNearestVersion
  BY DEF IInv
<1>2. StaticsTypeOK /\ CachesTypeOK /\ ThreadsTypeOK
  BY <1>1 DEF TypeOK
<1>3. /\ payloadMap \in [Versions -> Resources \union {Nil}] /\ pc \in [Threads -> Pcs]
     /\ cursor \in [Threads -> Nat] /\ outcome \in [Threads -> Outcomes]
     /\ resourceMap \in SUBSET Resources /\ Nil \notin Resources
  <2>1. Nil \notin Resources
    <3>1. Resources \subseteq Int /\ Nil \notin Int
      BY ConstantsAssumption DEF ConstantsAssumption
    <3>2. QED
      BY <3>1
  <2>2. QED
    BY <1>2, <2>1 DEF StaticsTypeOK, ThreadsTypeOK
<1>4. /\ \A u \in Threads : pc[u] \in InitPcs => u = t
     /\ ~initialized
     /\ \A u \in Threads : pc[u] \notin KnowsVersionPcs \union {"readLatest", "resolve"}
  <2>1. initLock = t /\ NoThread \notin Threads
    BY <1>1, ConstantsAssumption DEF ConstantsAssumption, LockInv, InitPcs
  <2>2. QED
    BY <1>1, <2>1 DEF LockInv, ThreadInv
<1>5. /\ pc[t] = "entries" /\ pc'[t] = "idle"
     /\ \A u \in Threads \ {t} : pc'[u] = pc[u]
  BY <1>3
<1>6. /\ initLock' = NoThread /\ NoThread \notin Threads
     /\ \E x \in {"DecodeException", "ArgumentException"} :
          outcome' = [outcome EXCEPT ![t] = Threw(x)]
  BY ConstantsAssumption DEF ConstantsAssumption
<1>7. UNCHANGED <<initialized, resourceMap, payloadMap, protocolVersions,
                latest, caches, objects, op, arg, cursor, usedVersion, loaded, calls>>
  OBVIOUS
<1>8. StaticsTypeOK'
  BY <1>2, <1>6, <1>7 DEF StaticsTypeOK
<1>9. CachesTypeOK'
  BY <1>2, <1>7 DEF CachesTypeOK, Objects, Ids, Lazies
<1>10. ThreadsTypeOK'
  <2>1. outcome' \in [Threads -> Outcomes]
    BY <1>3, <1>6, OutcomeFacts
  <2>2. Outcomes' = Outcomes /\ Objects' = Objects
    BY <1>7 DEF Outcomes, Objects, Ids
  <2>3. pc' \in [Threads -> Pcs]
    BY <1>3 DEF Pcs
  <2>4. QED
    BY <1>2, <1>7, <2>1, <2>2, <2>3 DEF ThreadsTypeOK
<1>11. LockInv'
  BY <1>1, <1>4, <1>5, <1>6, <1>7 DEF LockInv, InitPcs
<1>12. LoopInv'
  <2>1. \A u \in Threads : pc'[u] \notin InitPcs
    BY <1>4, <1>5 DEF InitPcs
  <2>2. QED
    BY <1>1, <1>4, <1>7, <2>1 DEF LoopInv, InitPcs
<1>13. ThreadInv'
  BY <1>4, <1>5, <1>7 DEF ThreadInv, KnowsVersionPcs, FactoryPcs
<1>14. RunningInv'
  BY <1>4, <1>5, <1>7 DEF RunningInv, KnowsVersionPcs, FactoryPcs
<1>15. FactoryInv'
  BY <1>4, <1>5, <1>7 DEF FactoryInv, KnowsVersionPcs, FactoryPcs
<1>16. TablesInv'
  <2>1. \A p \in Resources, k \in Ids : HasTables(p, k)' => HasTables(p, k)
    BY <1>4, <1>5, <1>7 DEF HasTables, KnowsVersionPcs, FactoryPcs
  <2>2. QED
    BY <1>1, <1>7, <2>1 DEF TablesInv, Ids
<1>17. CacheInv'
  BY <1>1, <1>7 DEF CacheInv
<1>18. ReturnedIsCached'
  BY <1>1, <1>3, <1>6, <1>7, OutcomeFacts DEF ReturnedIsCached
<1>19. AnswersNearestVersion'
  BY <1>1, <1>3, <1>5, <1>6, <1>7, OutcomeFacts DEF AnswersNearestVersion
<1>20. QED
  BY <1>8, <1>9, <1>10, <1>11, <1>12, <1>13, <1>14, <1>15, <1>16, <1>17,
     <1>18, <1>19 DEF IInv, TypeOK

(* The array of versions.                                                  *)
LEMMA SetVersionsStep ==
  ASSUME IInv, NEW t \in Threads, SetVersions(t)
  PROVE  IInv'
<1> USE DEF Goto, statics, caches, objects, locals, SetVersions
<1>1. /\ TypeOK /\ LockInv /\ LoopInv /\ ThreadInv /\ RunningInv /\ FactoryInv
     /\ TablesInv /\ CacheInv /\ ReturnedIsCached /\ AnswersNearestVersion
  BY DEF IInv
<1>2. StaticsTypeOK /\ CachesTypeOK /\ ThreadsTypeOK
  BY <1>1 DEF TypeOK
<1>3. /\ payloadMap \in [Versions -> Resources \union {Nil}] /\ pc \in [Threads -> Pcs]
     /\ cursor \in [Threads -> Nat] /\ outcome \in [Threads -> Outcomes]
     /\ resourceMap \in SUBSET Resources /\ Nil \notin Resources
  <2>1. Nil \notin Resources
    <3>1. Resources \subseteq Int /\ Nil \notin Int
      BY ConstantsAssumption DEF ConstantsAssumption
    <3>2. QED
      BY <3>1
  <2>2. QED
    BY <1>2, <2>1 DEF StaticsTypeOK, ThreadsTypeOK
<1>4. /\ \A u \in Threads : pc[u] \in InitPcs => u = t
     /\ ~initialized
     /\ \A u \in Threads : pc[u] \notin KnowsVersionPcs \union {"readLatest", "resolve"}
  <2>1. initLock = t /\ NoThread \notin Threads
    BY <1>1, ConstantsAssumption DEF ConstantsAssumption, LockInv, InitPcs
  <2>2. QED
    BY <1>1, <2>1 DEF LockInv, ThreadInv
<1>5. /\ pc[t] = "entries" /\ pc'[t] = "setLatest"
     /\ \A u \in Threads \ {t} : pc'[u] = pc[u]
  BY <1>3
<1>6. /\ AllMapped /\ Manifest # << >>
     /\ \A v \in Versions : payloadMap[v] \in {Nil, PayloadOf[v]}
  BY <1>1, <1>3, <1>5, MappedPastEnd DEF LoopInv, InitPcs
<1>7. protocolVersions' = Versions
  <2>1. \A v \in Versions : payloadMap[v] \in Resources
    BY <1>2, <1>6, AllMappedFacts
  <2>2. \A v \in Versions : payloadMap[v] # Nil
    BY <1>3, <2>1
  <2>3. QED
    BY <2>2
<1>8. StaticsTypeOK'
  BY <1>2, <1>7 DEF StaticsTypeOK
<1>9. CachesTypeOK'
  BY <1>2 DEF CachesTypeOK, Objects, Ids, Lazies
<1>10. ThreadsTypeOK'
  BY <1>2, <1>5 DEF ThreadsTypeOK, Pcs, InitPcs, Outcomes, Objects, Ids
<1>11. LockInv'
  BY <1>1, <1>4, <1>5 DEF LockInv, InitPcs
<1>12. LoopInv'
  <2>1. AllMapped'
    BY <1>6 DEF AllMapped, MappedUpTo
  <2>2. QED
    BY <1>4, <1>5, <1>6, <1>7, <2>1 DEF LoopInv, InitPcs
<1>13. ThreadInv'
  BY <1>4, <1>5 DEF ThreadInv, KnowsVersionPcs, FactoryPcs
<1>14. RunningInv'
  BY <1>4, <1>5 DEF RunningInv, KnowsVersionPcs, FactoryPcs
<1>15. FactoryInv'
  BY <1>4, <1>5 DEF FactoryInv, KnowsVersionPcs, FactoryPcs
<1>16. TablesInv'
  <2>1. \A p \in Resources, k \in Ids : HasTables(p, k)' => HasTables(p, k)
    BY <1>4, <1>5 DEF HasTables, KnowsVersionPcs, FactoryPcs
  <2>2. QED
    BY <1>1, <2>1 DEF TablesInv, Ids
<1>17. CacheInv'
  BY <1>1 DEF CacheInv
<1>18. ReturnedIsCached'
  BY <1>1 DEF ReturnedIsCached
<1>19. AnswersNearestVersion'
  BY <1>1, <1>5 DEF AnswersNearestVersion
<1>20. QED
  BY <1>8, <1>9, <1>10, <1>11, <1>12, <1>13, <1>14, <1>15, <1>16, <1>17,
     <1>18, <1>19 DEF IInv, TypeOK

(* The latest version.                                                     *)
LEMMA SetLatestStep ==
  ASSUME IInv, NEW t \in Threads, SetLatest(t)
  PROVE  IInv'
<1> USE DEF Goto, statics, caches, objects, locals, SetLatest
<1>1. /\ TypeOK /\ LockInv /\ LoopInv /\ ThreadInv /\ RunningInv /\ FactoryInv
     /\ TablesInv /\ CacheInv /\ ReturnedIsCached /\ AnswersNearestVersion
  BY DEF IInv
<1>2. StaticsTypeOK /\ CachesTypeOK /\ ThreadsTypeOK
  BY <1>1 DEF TypeOK
<1>3. /\ payloadMap \in [Versions -> Resources \union {Nil}] /\ pc \in [Threads -> Pcs]
     /\ cursor \in [Threads -> Nat] /\ outcome \in [Threads -> Outcomes]
     /\ resourceMap \in SUBSET Resources /\ Nil \notin Resources
  <2>1. Nil \notin Resources
    <3>1. Resources \subseteq Int /\ Nil \notin Int
      BY ConstantsAssumption DEF ConstantsAssumption
    <3>2. QED
      BY <3>1
  <2>2. QED
    BY <1>2, <2>1 DEF StaticsTypeOK, ThreadsTypeOK
<1>4. /\ \A u \in Threads : pc[u] \in InitPcs => u = t
     /\ ~initialized
     /\ \A u \in Threads : pc[u] \notin KnowsVersionPcs \union {"readLatest", "resolve"}
  <2>1. initLock = t /\ NoThread \notin Threads
    BY <1>1, ConstantsAssumption DEF ConstantsAssumption, LockInv, InitPcs
  <2>2. QED
    BY <1>1, <2>1 DEF LockInv, ThreadInv
<1>5. /\ pc[t] = "setLatest" /\ pc'[t] = "setFlag"
     /\ \A u \in Threads \ {t} : pc'[u] = pc[u]
  BY <1>3
<1>6. /\ AllMapped /\ Manifest # << >> /\ protocolVersions = Versions
     /\ \A v \in Versions : payloadMap[v] \in {Nil, PayloadOf[v]}
  BY <1>1, <1>5 DEF LoopInv, InitPcs
<1>7. latest' = Greatest(Versions) /\ Greatest(Versions) \in Versions
  <2>1. Manifest[1] \in Entries
    <3>1. 1 \in DOMAIN Manifest
      <4>1. ASSUME NEW R, NEW s \in Seq(R), s # << >> PROVE 1 \in DOMAIN s
        BY <4>1
      <4>2. QED
        BY <1>6, <4>1, ConstantsAssumption DEF ConstantsAssumption
    <3>2. QED
      BY <3>1, EntryFacts
  <2>2. Versions # {}
    BY <2>1 DEF Versions
  <2>3. QED
    BY <1>6, <2>2, VersionsAreInts, GreatestIsElement
<1>8. StaticsTypeOK'
  BY <1>2, <1>7 DEF StaticsTypeOK
<1>9. CachesTypeOK'
  BY <1>2 DEF CachesTypeOK, Objects, Ids, Lazies
<1>10. ThreadsTypeOK'
  BY <1>2, <1>5 DEF ThreadsTypeOK, Pcs, InitPcs, Outcomes, Objects, Ids
<1>11. LockInv'
  BY <1>1, <1>4, <1>5 DEF LockInv, InitPcs
<1>12. LoopInv'
  <2>1. AllMapped'
    BY <1>6 DEF AllMapped, MappedUpTo
  <2>2. QED
    BY <1>4, <1>5, <1>6, <1>7, <2>1 DEF LoopInv, InitPcs
<1>13. ThreadInv'
  BY <1>4, <1>5 DEF ThreadInv, KnowsVersionPcs, FactoryPcs
<1>14. RunningInv'
  BY <1>4, <1>5 DEF RunningInv, KnowsVersionPcs, FactoryPcs
<1>15. FactoryInv'
  BY <1>4, <1>5 DEF FactoryInv, KnowsVersionPcs, FactoryPcs
<1>16. TablesInv'
  <2>1. \A p \in Resources, k \in Ids : HasTables(p, k)' => HasTables(p, k)
    BY <1>4, <1>5 DEF HasTables, KnowsVersionPcs, FactoryPcs
  <2>2. QED
    BY <1>1, <2>1 DEF TablesInv, Ids
<1>17. CacheInv'
  BY <1>1 DEF CacheInv
<1>18. ReturnedIsCached'
  BY <1>1 DEF ReturnedIsCached
<1>19. AnswersNearestVersion'
  BY <1>1, <1>5 DEF AnswersNearestVersion
<1>20. QED
  BY <1>8, <1>9, <1>10, <1>11, <1>12, <1>13, <1>14, <1>15, <1>16, <1>17,
     <1>18, <1>19 DEF IInv, TypeOK

(* The flag, last.                                                         *)
LEMMA SetInitializedStep ==
  ASSUME IInv, NEW t \in Threads, SetInitialized(t)
  PROVE  IInv'
<1> USE DEF IInv, TypeOK, StaticsTypeOK, CachesTypeOK, ThreadsTypeOK, Goto,
            statics, caches, objects, locals, SetInitialized, AfterInitialize
<1>1. NoThread \notin Threads
  BY ConstantsAssumption DEF ConstantsAssumption
<1>2. \A u \in Threads : pc[u] \in InitPcs => u = t
  BY DEF LockInv, InitPcs
<1>3. StaticsTypeOK'
  BY <1>1, <1>2
<1>4. CachesTypeOK'
  BY <1>1, <1>2 DEF Lazies, Objects, Ids
<1>5. ThreadsTypeOK'
  BY <1>1, <1>2 DEF Outcomes, Objects, Ids, Pcs, InitPcs, KnowsVersionPcs,
     FactoryPcs
<1>6. LockInv'
  BY <1>1, <1>2 DEF LockInv, InitPcs
<1>7. LoopInv'
  BY <1>1, <1>2 DEF LoopInv, InitPcs, MappedUpTo, AllMapped
<1>8. ThreadInv'
  BY <1>1, <1>2 DEF ThreadInv, KnowsVersionPcs, FactoryPcs, Payload
<1>9. RunningInv'
  BY <1>1, <1>2 DEF RunningInv, FactoryPcs, Payload
<1>10. FactoryInv'
  BY <1>1, <1>2 DEF FactoryInv, FactoryPcs, Payload
<1>11. TablesInv'
  BY <1>1, <1>2 DEF TablesInv, HasTables, Payload, Ids
<1>12. CacheInv'
  BY <1>1, <1>2 DEF CacheInv
<1>13. ReturnedIsCached'
  BY <1>1, <1>2 DEF ReturnedIsCached
<1>14. AnswersNearestVersion'
  BY <1>1, <1>2 DEF AnswersNearestVersion
<1>15. QED
  BY <1>3, <1>4, <1>5, <1>6, <1>7, <1>8, <1>9, <1>10, <1>11, <1>12, <1>13,
     <1>14 DEF IInv, TypeOK

(* The resource is read: a new object over new tables.                     *)
LEMMA LoadResourceContentStep ==
  ASSUME IInv, NEW t \in Threads, LoadResourceContent(t)
  PROVE  IInv'
<1> USE DEF Goto, statics, caches, objects, locals, LoadResourceContent
<1>1. /\ TypeOK /\ LockInv /\ LoopInv /\ ThreadInv /\ RunningInv /\ FactoryInv
     /\ TablesInv /\ CacheInv /\ ReturnedIsCached /\ AnswersNearestVersion
  BY DEF IInv
<1>2. StaticsTypeOK /\ CachesTypeOK /\ ThreadsTypeOK
  BY <1>1 DEF TypeOK
<1>3. usedVersion[t] \in Versions /\ Payload(t) \in Resources /\ initialized
     /\ Payload(t) = PayloadOf[usedVersion[t]]
  BY PayloadFacts DEF KnowsVersionPcs, FactoryPcs
<1>4. \A u \in Threads : Payload(u)' = Payload(u)
  BY DEF Payload
<1>5. \A u \in Threads : pc[u] \in KnowsVersionPcs => Payload(u) \in Resources
  BY PayloadFacts
<1>6. /\ lazy \in [Resources -> Lazies] /\ pc \in [Threads -> Pcs]
     /\ loaded \in [Threads -> Objects \union {Nil}]
  BY <1>2 DEF CachesTypeOK, ThreadsTypeOK
<1>7. LET o == [id |-> nextId, tables |-> nextId, version |-> Payload(t)]
     IN  /\ o \in Objects' /\ o # Nil
         /\ loaded' = [loaded EXCEPT ![t] = o]
         /\ o.version = Payload(t) /\ o.tables = nextId
  <2> DEFINE o == [id |-> nextId, tables |-> nextId, version |-> Payload(t)]
  <2>1. nextId \in Ids' /\ nextId \in Int
    BY <1>2 DEF Ids, CachesTypeOK
  <2>2. o \in Objects'
    BY <1>3, <2>1 DEF Objects
  <2>3. Payload(t) \in Int
    <3>1. Resources \subseteq Int
      BY ConstantsAssumption DEF ConstantsAssumption
    <3>2. QED
      BY <1>3, <3>1
  <2>4. o # Nil
    BY <2>1, <2>3, ConstantsAssumption DEF ConstantsAssumption
  <2>5. QED
    BY <2>2, <2>4
<1>8. /\ Ids \subseteq Ids' /\ nextId' \in Nat \ {0} /\ nextId \notin Ids
     /\ Objects \subseteq Objects' /\ Lazies \subseteq Lazies' /\ Outcomes \subseteq Outcomes'
  BY <1>2, ObjectsGrow DEF CachesTypeOK, Ids
<1>9. StaticsTypeOK'
  BY <1>2 DEF StaticsTypeOK
<1>10. CachesTypeOK'
  BY <1>2, <1>8 DEF CachesTypeOK
<1>11. ThreadsTypeOK'
  <2>1. loaded' \in [Threads -> Objects' \union {Nil}]
    BY <1>6, <1>7, <1>8
  <2>2. outcome' \in [Threads -> Outcomes']
    BY <1>2, <1>8 DEF ThreadsTypeOK
  <2>3. QED
    BY <1>2, <2>1, <2>2 DEF ThreadsTypeOK, Pcs, FactoryPcs, KnowsVersionPcs
<1>12. LockInv'
  BY <1>1, <1>6 DEF LockInv, InitPcs
<1>13. LoopInv'
  BY <1>1, <1>6 DEF LoopInv, InitPcs, MappedUpTo, AllMapped
<1>14. ThreadInv'
  BY <1>1, <1>3, <1>4, <1>6 DEF ThreadInv, KnowsVersionPcs, FactoryPcs
<1>15. RunningInv'
  BY <1>1, <1>4, <1>6 DEF RunningInv, FactoryPcs
<1>16. FactoryInv'
  <2>1. loaded'[t] # Nil /\ loaded'[t].version = Payload(t) /\ pc'[t] = "buildMetadata"
    BY <1>6, <1>7
  <2>2. \A u \in Threads \ {t} : loaded'[u] = loaded[u] /\ pc'[u] = pc[u]
    BY <1>6
  <2>3. QED
    BY <1>1, <1>4, <2>1, <2>2 DEF FactoryInv
<1>17. TablesInv'
  <2>1. ASSUME NEW p \in Resources, NEW k \in Ids', HasTables(p, k)'
        PROVE  (k = nextId /\ p = Payload(t)) \/ (k \in Ids /\ HasTables(p, k))
    <3>1. CASE lazy'[p].state = "value" /\ lazy'[p].object.tables = k
      <4>1. HasTables(p, k)
        BY <3>1 DEF HasTables
      <4>2. QED
        BY <1>1, <1>2, <4>1, HasTablesAllocated
    <3>2. ASSUME NEW u \in Threads, pc'[u] \in {"buildMetadata", "publish"},
                 Payload(u)' = p, loaded'[u].tables = k
          PROVE  (k = nextId /\ p = Payload(t)) \/ (k \in Ids /\ HasTables(p, k))
      <4>1. CASE u = t
        BY <1>4, <1>6, <1>7, <3>2, <4>1
      <4>2. CASE u # t
        <5>1. HasTables(p, k)
          BY <1>4, <1>6, <3>2, <4>2 DEF HasTables
        <5>2. QED
          BY <1>1, <1>2, <5>1, HasTablesAllocated
      <4>3. QED
        BY <4>1, <4>2
    <3>3. QED
      BY <2>1, <3>1, <3>2 DEF HasTables
  <2>2. QED
    BY <1>1, <1>8, <2>1 DEF TablesInv
<1>18. CacheInv'
  BY <1>1 DEF CacheInv
<1>19. ReturnedIsCached'
  BY <1>1 DEF ReturnedIsCached
<1>20. AnswersNearestVersion'
  BY <1>1, <1>6 DEF AnswersNearestVersion
<1>21. QED
  BY <1>9, <1>10, <1>11, <1>12, <1>13, <1>14, <1>15, <1>16, <1>17, <1>18,
     <1>19, <1>20 DEF IInv, TypeOK

(* The factory throws.                                                     *)
LEMMA FactoryThrowsStep ==
  ASSUME IInv, NEW t \in Threads, FactoryThrows(t)
  PROVE  IInv'
<1> USE DEF Goto, statics, caches, objects, locals, FactoryThrows, End
<1>1. /\ TypeOK /\ LockInv /\ LoopInv /\ ThreadInv /\ RunningInv /\ FactoryInv
     /\ TablesInv /\ CacheInv /\ ReturnedIsCached /\ AnswersNearestVersion
  BY DEF IInv
<1>2. StaticsTypeOK /\ CachesTypeOK /\ ThreadsTypeOK
  BY <1>1 DEF TypeOK
<1>3. pc[t] \in {"loadResource", "buildMetadata"}
  OBVIOUS
<1>4. usedVersion[t] \in Versions /\ Payload(t) \in Resources /\ initialized
     /\ Payload(t) = PayloadOf[usedVersion[t]]
  BY PayloadFacts DEF KnowsVersionPcs, FactoryPcs
<1>5. \A u \in Threads : Payload(u)' = Payload(u)
  BY DEF Payload
<1>6. \A u \in Threads : pc[u] \in KnowsVersionPcs => Payload(u) \in Resources
  BY PayloadFacts
<1>7. /\ lazy \in [Resources -> Lazies] /\ pc \in [Threads -> Pcs]
     /\ loaded \in [Threads -> Objects \union {Nil}]
  BY <1>2 DEF CachesTypeOK, ThreadsTypeOK
<1>8. lazy[Payload(t)] = LazyRunning(t)
  BY <1>1 DEF RunningInv, FactoryPcs
<1>9. /\ pc' = [pc EXCEPT ![t] = "idle"] /\ outcome' = [outcome EXCEPT ![t] = Threw("FactoryException")]
     /\ UNCHANGED <<op, arg, cursor, usedVersion, loaded, calls>>
  OBVIOUS
<1>10. \A p \in Resources : lazy'[p] = lazy[p]
       \/ (p = Payload(t) /\ lazy[p].state # "value" /\ lazy'[p] = LazyFailed)
  <2>1. lazy[Payload(t)].state # "value"
    BY <1>8, LazyFacts
  <2>2. lazy' = [lazy EXCEPT ![Payload(t)] = LazyFailed]
    OBVIOUS
  <2>3. QED
    BY <1>7, <2>1, <2>2
<1>11. StaticsTypeOK'
  BY <1>2 DEF StaticsTypeOK
<1>12. CachesTypeOK'
  BY <1>2, <1>4, <1>7, LazyFacts DEF CachesTypeOK, Objects, Ids, Lazies
<1>13. ThreadsTypeOK'
  BY <1>2, <1>9, OutcomeFacts DEF ThreadsTypeOK, Pcs, Outcomes, Objects, Ids
<1>14. LockInv'
  BY <1>1, <1>3, <1>7, <1>9 DEF LockInv, InitPcs
<1>15. LoopInv'
  BY <1>1, <1>3, <1>7, <1>9 DEF LoopInv, InitPcs, MappedUpTo, AllMapped
<1>16. ThreadInv'
  <2>1. ASSUME NEW u \in Threads \ {t}, pc[u] \in {"value", "cache"}
        PROVE  lazy'[Payload(u)] # NoLazy
    BY <1>1, <1>6, <1>10, <2>1, LazyFacts DEF ThreadInv, KnowsVersionPcs
  <2>2. ASSUME NEW u \in Threads \ {t}, pc[u] = "cache"
        PROVE  lazy'[Payload(u)] = LazyValue(loaded[u])
    BY <1>1, <1>6, <1>10, <2>2, LazyValueFacts DEF ThreadInv, KnowsVersionPcs
  <2>3. QED
    BY <1>1, <1>5, <1>7, <1>9, <2>1, <2>2
       DEF ThreadInv, KnowsVersionPcs, FactoryPcs
<1>17. RunningInv'
  <2>1. ASSUME NEW u \in Threads \ {t}, pc[u] \in FactoryPcs
        PROVE  lazy'[Payload(u)] = LazyRunning(u)
    BY <1>1, <1>6, <1>8, <1>10, <2>1, LazyFacts DEF RunningInv, KnowsVersionPcs
  <2>2. QED
    BY <1>5, <1>7, <1>9, <2>1 DEF RunningInv, FactoryPcs
<1>18. FactoryInv'
  BY <1>1, <1>5, <1>7, <1>9 DEF FactoryInv
<1>19. TablesInv'
  <2>1. \A p \in Resources, k \in Ids : HasTables(p, k)' => HasTables(p, k)
    BY <1>5, <1>7, <1>9, <1>10, LazyFacts DEF HasTables
  <2>2. QED
    BY <1>1, <1>10, <2>1, LazyFacts DEF TablesInv, Ids
<1>20. CacheInv'
  BY <1>1, <1>2, <1>10, AllMappedFacts DEF CacheInv, LoopInv
<1>21. ReturnedIsCached'
  BY <1>1, <1>2, <1>9, OutcomeFacts DEF ReturnedIsCached, ThreadsTypeOK
<1>22. AnswersNearestVersion'
  BY <1>1, <1>2, <1>7, <1>9, OutcomeFacts DEF AnswersNearestVersion,
     ThreadsTypeOK
<1>23. QED
  BY <1>11, <1>12, <1>13, <1>14, <1>15, <1>16, <1>17, <1>18, <1>19, <1>20,
     <1>21, <1>22 DEF IInv, TypeOK

(* The metadata is built.                                                  *)
LEMMA BuildDecoderMetadataStep ==
  ASSUME IInv, NEW t \in Threads, BuildDecoderMetadata(t)
  PROVE  IInv'
<1> USE DEF IInv, TypeOK, StaticsTypeOK, CachesTypeOK, ThreadsTypeOK, Goto,
            statics, caches, objects, locals, BuildDecoderMetadata
<1>1. usedVersion[t] \in Versions /\ Payload(t) \in Resources /\ initialized
     /\ Payload(t) = PayloadOf[usedVersion[t]]
  BY PayloadFacts DEF KnowsVersionPcs, FactoryPcs
<1>2. StaticsTypeOK'
  BY <1>1
<1>3. CachesTypeOK'
  <2>1. loaded[t] \in Objects
    BY DEF FactoryInv
  <2>2. QED
    BY <2>1 DEF Objects, Ids, Lazies
<1>4. ThreadsTypeOK'
  BY <1>1 DEF Outcomes, Objects, Ids, Pcs, InitPcs, KnowsVersionPcs, FactoryPcs
<1>5. LockInv'
  BY <1>1 DEF LockInv, InitPcs
<1>6. LoopInv'
  BY <1>1 DEF LoopInv, InitPcs, MappedUpTo, AllMapped
<1>7. ThreadInv'
  BY <1>1 DEF ThreadInv, KnowsVersionPcs, FactoryPcs, Payload
<1>8. RunningInv'
  BY <1>1 DEF RunningInv, FactoryPcs, Payload
<1>9. FactoryInv'
  BY <1>1 DEF FactoryInv, FactoryPcs, Payload
<1>10. TablesInv'
  BY <1>1 DEF TablesInv, HasTables, Payload, Ids
<1>11. CacheInv'
  BY <1>1 DEF CacheInv
<1>12. ReturnedIsCached'
  BY <1>1 DEF ReturnedIsCached
<1>13. AnswersNearestVersion'
  BY <1>1 DEF AnswersNearestVersion
<1>14. QED
  BY <1>2, <1>3, <1>4, <1>5, <1>6, <1>7, <1>8, <1>9, <1>10, <1>11, <1>12,
     <1>13 DEF IInv, TypeOK

(* The Lazy gets its value.                                                *)
LEMMA PublishValueStep ==
  ASSUME IInv, NEW t \in Threads, PublishValue(t)
  PROVE  IInv'
<1> USE DEF Goto, statics, caches, objects, locals, PublishValue
<1>1. /\ TypeOK /\ LockInv /\ LoopInv /\ ThreadInv /\ RunningInv /\ FactoryInv
     /\ TablesInv /\ CacheInv /\ ReturnedIsCached /\ AnswersNearestVersion
  BY DEF IInv
<1>2. StaticsTypeOK /\ CachesTypeOK /\ ThreadsTypeOK
  BY <1>1 DEF TypeOK
<1>3. usedVersion[t] \in Versions /\ Payload(t) \in Resources /\ initialized
     /\ Payload(t) = PayloadOf[usedVersion[t]]
  BY PayloadFacts DEF KnowsVersionPcs, FactoryPcs
<1>4. \A u \in Threads : Payload(u)' = Payload(u)
  BY DEF Payload
<1>5. \A u \in Threads : pc[u] \in KnowsVersionPcs => Payload(u) \in Resources
  BY PayloadFacts
<1>6. /\ lazy \in [Resources -> Lazies] /\ pc \in [Threads -> Pcs]
     /\ loaded \in [Threads -> Objects \union {Nil}]
  BY <1>2 DEF CachesTypeOK, ThreadsTypeOK
<1>7. lazy[Payload(t)] = LazyRunning(t)
  BY <1>1 DEF RunningInv, FactoryPcs
<1>8. /\ loaded[t] \in Objects /\ loaded[t].version = Payload(t)
     /\ loaded[t].tables \in built
  BY <1>1, <1>2 DEF FactoryInv, ThreadsTypeOK
<1>9. /\ lazy'[Payload(t)] = LazyValue(loaded[t])
     /\ \A p \in Resources \ {Payload(t)} : lazy'[p] = lazy[p]
  BY <1>3, <1>6
<1>10. StaticsTypeOK'
  BY <1>2 DEF StaticsTypeOK
<1>11. CachesTypeOK'
  BY <1>2, <1>3, <1>8, LazyValueFacts DEF CachesTypeOK, Objects, Ids, Lazies
<1>12. ThreadsTypeOK'
  BY <1>2, <1>6 DEF ThreadsTypeOK, Pcs, KnowsVersionPcs, Outcomes, Objects, Ids
<1>13. LockInv'
  BY <1>1, <1>6 DEF LockInv, InitPcs
<1>14. LoopInv'
  BY <1>1, <1>6 DEF LoopInv, InitPcs, MappedUpTo, AllMapped
<1>15. ThreadInv'
  <2>1. ASSUME NEW u \in Threads \ {t}, pc[u] \in {"value", "cache"}
        PROVE  lazy'[Payload(u)] # NoLazy
    BY <1>1, <1>5, <1>9, <2>1, LazyValueFacts DEF ThreadInv, KnowsVersionPcs
  <2>2. ASSUME NEW u \in Threads \ {t}, pc[u] = "cache"
        PROVE  lazy'[Payload(u)] = LazyValue(loaded[u])
    BY <1>1, <1>5, <1>7, <1>9, <2>2, LazyValueFacts DEF ThreadInv,
       KnowsVersionPcs
  <2>3. pc'[t] = "cache" /\ lazy'[Payload(t)] # NoLazy
    BY <1>6, <1>9, LazyValueFacts
  <2>4. QED
    BY <1>1, <1>3, <1>4, <1>6, <1>9, <2>1, <2>2, <2>3
       DEF ThreadInv, KnowsVersionPcs, FactoryPcs
<1>16. RunningInv'
  <2>1. ASSUME NEW u \in Threads \ {t}, pc[u] \in FactoryPcs
        PROVE  lazy'[Payload(u)] = LazyRunning(u)
    BY <1>1, <1>5, <1>7, <1>9, <2>1, LazyFacts DEF RunningInv, KnowsVersionPcs
  <2>2. QED
    BY <1>4, <1>6, <2>1 DEF RunningInv, FactoryPcs
<1>17. FactoryInv'
  BY <1>1, <1>4, <1>6 DEF FactoryInv
<1>18. TablesInv'
  <2>1. \A p \in Resources, k \in Ids :
          p = Payload(t) /\ HasTables(p, k)' => HasTables(p, k)
    BY <1>4, <1>6, <1>9, LazyValueFacts DEF HasTables
  <2>2. \A p \in Resources \ {Payload(t)}, k \in Ids : HasTables(p, k)' => HasTables(p, k)
    BY <1>4, <1>6, <1>9 DEF HasTables
  <2>3. \A p \in Resources : lazy'[p].state = "value" =>
          lazy'[p].object.tables \in built /\ lazy'[p].object.version = p
    BY <1>1, <1>3, <1>8, <1>9, LazyValueFacts DEF TablesInv
  <2>4. Ids' = Ids /\ built' = built
    BY DEF Ids
  <2>5. \A p \in Resources, k \in Ids : HasTables(p, k)' => HasTables(p, k)
    BY <2>1, <2>2
  <2>6. \A p, q \in Resources : \A k \in Ids' :
          HasTables(p, k)' /\ HasTables(q, k)' => p = q
    BY <1>1, <2>4, <2>5 DEF TablesInv
  <2>7. QED
    BY <2>3, <2>4, <2>6 DEF TablesInv
<1>19. CacheInv'
  <2>1. \A v \in Versions : typeInfoCache[v] # Nil => PayloadOf[v] # Payload(t)
    BY <1>1, <1>7, LazyFacts DEF CacheInv
  <2>2. \A v \in Versions : typeInfoCache[v] # Nil => PayloadOf[v] \in Resources
    BY <1>1, <1>2, AllMappedFacts DEF CacheInv, LoopInv
  <2>3. QED
    BY <1>1, <1>9, <2>1, <2>2 DEF CacheInv
<1>20. ReturnedIsCached'
  BY <1>1 DEF ReturnedIsCached
<1>21. AnswersNearestVersion'
  BY <1>1, <1>6 DEF AnswersNearestVersion
<1>22. QED
  BY <1>10, <1>11, <1>12, <1>13, <1>14, <1>15, <1>16, <1>17, <1>18, <1>19,
     <1>20, <1>21 DEF IInv, TypeOK

(* The Lazy has its value.                                                 *)
LEMMA ReadValueStep ==
  ASSUME IInv, NEW t \in Threads, ReadValue(t)
  PROVE  IInv'
<1> USE DEF Goto, statics, caches, objects, locals, ReadValue
<1>1. /\ TypeOK /\ LockInv /\ LoopInv /\ ThreadInv /\ RunningInv /\ FactoryInv
     /\ TablesInv /\ CacheInv /\ ReturnedIsCached /\ AnswersNearestVersion
  BY DEF IInv
<1>2. StaticsTypeOK /\ CachesTypeOK /\ ThreadsTypeOK
  BY <1>1 DEF TypeOK
<1>3. usedVersion[t] \in Versions /\ Payload(t) \in Resources /\ initialized
     /\ Payload(t) = PayloadOf[usedVersion[t]]
  BY PayloadFacts DEF KnowsVersionPcs, FactoryPcs
<1>4. \A u \in Threads : Payload(u)' = Payload(u)
  BY DEF Payload
<1>5. \A u \in Threads : pc[u] \in KnowsVersionPcs => Payload(u) \in Resources
  BY PayloadFacts
<1>6. /\ lazy \in [Resources -> Lazies] /\ pc \in [Threads -> Pcs]
     /\ loaded \in [Threads -> Objects \union {Nil}]
  BY <1>2 DEF CachesTypeOK, ThreadsTypeOK
<1>7. /\ lazy[Payload(t)].object \in Objects
     /\ lazy[Payload(t)] = LazyValue(lazy[Payload(t)].object)
  <2>1. lazy[Payload(t)] \in Lazies
    BY <1>3, <1>6
  <2>2. QED
    BY <2>1, LazyObject
<1>8. /\ loaded'[t] = lazy[Payload(t)].object
     /\ \A u \in Threads \ {t} : loaded'[u] = loaded[u] /\ pc'[u] = pc[u]
     /\ pc'[t] = "cache"
  BY <1>6
<1>9. StaticsTypeOK'
  BY <1>2 DEF StaticsTypeOK
<1>10. CachesTypeOK'
  BY <1>2 DEF CachesTypeOK, Objects, Ids, Lazies
<1>11. ThreadsTypeOK'
  BY <1>2, <1>7 DEF ThreadsTypeOK, Pcs, KnowsVersionPcs, Outcomes, Objects, Ids
<1>12. LockInv'
  BY <1>1, <1>8 DEF LockInv, InitPcs
<1>13. LoopInv'
  BY <1>1, <1>8 DEF LoopInv, InitPcs, MappedUpTo, AllMapped
<1>14. ThreadInv'
  BY <1>1, <1>3, <1>4, <1>7, <1>8 DEF ThreadInv, KnowsVersionPcs, FactoryPcs
<1>15. RunningInv'
  BY <1>1, <1>4, <1>8 DEF RunningInv, FactoryPcs
<1>16. FactoryInv'
  BY <1>1, <1>4, <1>8 DEF FactoryInv
<1>17. TablesInv'
  <2>1. \A p \in Resources, k \in Ids : HasTables(p, k)' => HasTables(p, k)
    BY <1>4, <1>8 DEF HasTables
  <2>2. QED
    BY <1>1, <2>1 DEF TablesInv, Ids
<1>18. CacheInv'
  BY <1>1 DEF CacheInv
<1>19. ReturnedIsCached'
  BY <1>1 DEF ReturnedIsCached
<1>20. AnswersNearestVersion'
  BY <1>1, <1>8 DEF AnswersNearestVersion
<1>21. QED
  BY <1>9, <1>10, <1>11, <1>12, <1>13, <1>14, <1>15, <1>16, <1>17, <1>18,
     <1>19, <1>20 DEF IInv, TypeOK

(* The Lazy has its exception.                                             *)
LEMMA RethrowCachedStep ==
  ASSUME IInv, NEW t \in Threads, RethrowCached(t)
  PROVE  IInv'
<1> USE DEF IInv, TypeOK, StaticsTypeOK, CachesTypeOK, ThreadsTypeOK, Goto,
            statics, caches, objects, locals, RethrowCached, End, LazyFailed, Threw
<1>1. StaticsTypeOK'
  OBVIOUS
<1>2. CachesTypeOK'
  BY DEF Lazies, Objects, Ids
<1>3. ThreadsTypeOK'
  BY DEF Outcomes, Objects, Ids, Pcs, InitPcs, KnowsVersionPcs, FactoryPcs
<1>4. LockInv'
  BY DEF LockInv, InitPcs
<1>5. LoopInv'
  BY DEF LoopInv, InitPcs, MappedUpTo, AllMapped
<1>6. ThreadInv'
  BY DEF ThreadInv, KnowsVersionPcs, FactoryPcs, Payload
<1>7. RunningInv'
  BY DEF RunningInv, FactoryPcs, Payload
<1>8. FactoryInv'
  BY DEF FactoryInv, FactoryPcs, Payload
<1>9. TablesInv'
  BY DEF TablesInv, HasTables, Payload, Ids
<1>10. CacheInv'
  BY DEF CacheInv
<1>11. ReturnedIsCached'
  BY DEF ReturnedIsCached
<1>12. AnswersNearestVersion'
  BY DEF AnswersNearestVersion
<1>13. QED
  BY <1>1, <1>2, <1>3, <1>4, <1>5, <1>6, <1>7, <1>8, <1>9, <1>10, <1>11,
     <1>12 DEF IInv, TypeOK

(* The third block hits.                                                   *)
LEMMA RecheckHitStep ==
  ASSUME IInv, NEW t \in Threads, RecheckHit(t)
  PROVE  IInv'
<1> USE DEF IInv, TypeOK, StaticsTypeOK, CachesTypeOK, ThreadsTypeOK, Goto,
            statics, caches, objects, locals, RecheckHit, End, Returned
<1>1. usedVersion[t] \in Versions /\ Payload(t) \in Resources /\ initialized
     /\ Payload(t) = PayloadOf[usedVersion[t]]
  BY PayloadFacts DEF KnowsVersionPcs, FactoryPcs
<1>2. StaticsTypeOK'
  BY <1>1
<1>3. CachesTypeOK'
  BY <1>1 DEF Lazies, Objects, Ids
<1>4. ThreadsTypeOK'
  BY <1>1 DEF Outcomes, Objects, Ids, Pcs, InitPcs, KnowsVersionPcs, FactoryPcs
<1>5. LockInv'
  BY <1>1 DEF LockInv, InitPcs
<1>6. LoopInv'
  BY <1>1 DEF LoopInv, InitPcs, MappedUpTo, AllMapped
<1>7. ThreadInv'
  BY <1>1 DEF ThreadInv, KnowsVersionPcs, FactoryPcs, Payload
<1>8. RunningInv'
  BY <1>1 DEF RunningInv, FactoryPcs, Payload
<1>9. FactoryInv'
  BY <1>1 DEF FactoryInv, FactoryPcs, Payload
<1>10. TablesInv'
  BY <1>1 DEF TablesInv, HasTables, Payload, Ids
<1>11. CacheInv'
  BY <1>1 DEF CacheInv
<1>12. ReturnedIsCached'
  <2>1. outcome'[t].object = typeInfoCache[usedVersion[t]]
    BY DEF ThreadsTypeOK
  <2>2. outcome'[t].object.version = usedVersion[t]
    BY <1>1, <2>1 DEF CacheInv
  <2>3. \A u \in Threads \ {t} : outcome'[u] = outcome[u]
    OBVIOUS
  <2>4. QED
    BY <1>1, <2>1, <2>2, <2>3 DEF ReturnedIsCached
<1>13. AnswersNearestVersion'
  <2>1. outcome'[t].object.version = usedVersion[t]
    BY <1>1 DEF CacheInv
  <2>2. usedVersion[t] = Floor(arg[t])
    BY DEF ThreadInv, KnowsVersionPcs
  <2>3. \A u \in Threads \ {t} : outcome'[u] = outcome[u] /\ pc'[u] = pc[u]
    OBVIOUS
  <2>4. QED
    BY <2>1, <2>2, <2>3 DEF AnswersNearestVersion
<1>14. QED
  BY <1>2, <1>3, <1>4, <1>5, <1>6, <1>7, <1>8, <1>9, <1>10, <1>11, <1>12,
     <1>13 DEF IInv, TypeOK

(* The third block caches.                                                 *)
LEMMA CacheVersionStep ==
  ASSUME IInv, NEW t \in Threads, CacheVersion(t)
  PROVE  IInv'
<1> USE DEF Goto, statics, caches, objects, locals, CacheVersion, End
<1>1. /\ TypeOK /\ LockInv /\ LoopInv /\ ThreadInv /\ RunningInv /\ FactoryInv
     /\ TablesInv /\ CacheInv /\ ReturnedIsCached /\ AnswersNearestVersion
  BY DEF IInv
<1>2. StaticsTypeOK /\ CachesTypeOK /\ ThreadsTypeOK
  BY <1>1 DEF TypeOK
<1>3. usedVersion[t] \in Versions /\ Payload(t) \in Resources /\ initialized
     /\ Payload(t) = PayloadOf[usedVersion[t]]
  BY PayloadFacts DEF KnowsVersionPcs, FactoryPcs
<1>4. \A u \in Threads : Payload(u)' = Payload(u)
  BY DEF Payload
<1>5. \A u \in Threads : pc[u] \in KnowsVersionPcs => Payload(u) \in Resources
  BY PayloadFacts
<1>6. /\ lazy \in [Resources -> Lazies] /\ pc \in [Threads -> Pcs]
     /\ loaded \in [Threads -> Objects \union {Nil}]
  BY <1>2 DEF CachesTypeOK, ThreadsTypeOK
<1>7. /\ lazy[Payload(t)].state = "value" /\ lazy[Payload(t)].object = loaded[t]
     /\ loaded[t] \in Objects
  <2>1. lazy[Payload(t)] = LazyValue(loaded[t]) /\ lazy[Payload(t)] \in Lazies
    BY <1>1, <1>3, <1>6 DEF ThreadInv
  <2>2. QED
    BY <2>1, LazyObject, LazyValueFacts
<1>8. /\ Ids \subseteq Ids' /\ nextId' \in Nat \ {0}
     /\ Objects \subseteq Objects' /\ Lazies \subseteq Lazies' /\ Outcomes \subseteq Outcomes'
  BY <1>2, ObjectsGrow DEF CachesTypeOK
<1>9. /\ VersionObject(t) \in Objects' /\ VersionObject(t).version = usedVersion[t]
     /\ VersionObject(t).tables = loaded[t].tables
  <2>1. CASE Canonical(t)
    BY <1>1, <1>3, <1>7, <1>8, <2>1 DEF VersionObject, Canonical, TablesInv
  <2>2. CASE ~Canonical(t)
    <3>1. nextId \in Ids' /\ loaded[t].tables \in Ids'
      BY <1>2, <1>7, <1>8, <2>2 DEF CachesTypeOK, Ids, Objects
    <3>2. QED
      BY <1>3, <2>2, <3>1 DEF VersionObject, Objects
  <2>3. QED
    BY <2>1, <2>2
<1>10. /\ typeInfoCache'[usedVersion[t]] = VersionObject(t)
     /\ \A v \in Versions \ {usedVersion[t]} : typeInfoCache'[v] = typeInfoCache[v]
     /\ pc'[t] = "idle"
     /\ \A u \in Threads \ {t} : outcome'[u] = outcome[u] /\ pc'[u] = pc[u]
  BY <1>2, <1>3, <1>6 DEF CachesTypeOK, ThreadsTypeOK
<1>11. outcome'[t] = Returned(VersionObject(t))
  BY <1>2, <1>3, <1>6 DEF CachesTypeOK, ThreadsTypeOK
<1>12. outcome'[t].object = VersionObject(t)
  BY <1>11, ReturnedFacts
<1>13. StaticsTypeOK'
  BY <1>2 DEF StaticsTypeOK
<1>14. CachesTypeOK'
  <2>1. typeInfoCache' \in [Versions -> Objects' \union {Nil}]
    BY <1>2, <1>8, <1>9 DEF CachesTypeOK
  <2>2. QED
    BY <1>2, <1>8, <2>1 DEF CachesTypeOK
<1>15. ThreadsTypeOK'
  <2>1. outcome' \in [Threads -> Outcomes']
    <3>1. Returned(VersionObject(t)) \in Outcomes'
      BY <1>9 DEF Returned, Outcomes
    <3>2. QED
      BY <1>2, <1>8, <3>1 DEF ThreadsTypeOK
  <2>2. loaded' \in [Threads -> Objects' \union {Nil}]
    BY <1>6, <1>8
  <2>3. QED
    BY <1>2, <2>1, <2>2 DEF ThreadsTypeOK, Pcs
<1>16. LockInv'
  BY <1>1, <1>10 DEF LockInv, InitPcs
<1>17. LoopInv'
  BY <1>1, <1>10 DEF LoopInv, InitPcs, MappedUpTo, AllMapped
<1>18. ThreadInv'
  BY <1>1, <1>4, <1>10 DEF ThreadInv, KnowsVersionPcs, FactoryPcs
<1>19. RunningInv'
  BY <1>1, <1>4, <1>10 DEF RunningInv, FactoryPcs
<1>20. FactoryInv'
  BY <1>1, <1>4, <1>10 DEF FactoryInv
<1>21. TablesInv'
  <2>1. ASSUME NEW p \in Resources, NEW k \in Ids', HasTables(p, k)'
        PROVE  k \in Ids /\ HasTables(p, k)
    <3>1. HasTables(p, k)
      BY <1>4, <1>10, <2>1 DEF HasTables
    <3>2. QED
      BY <1>1, <1>2, <3>1, HasTablesAllocated
  <2>2. QED
    BY <1>1, <2>1 DEF TablesInv
<1>22. CacheInv'
  BY <1>1, <1>3, <1>7, <1>9, <1>10 DEF CacheInv
<1>23. ReturnedIsCached'
  <2>1. outcome'[t].object = VersionObject(t)
    BY <1>12
  <2>2. ASSUME NEW u \in Threads \ {t}, outcome[u].kind = "returned"
        PROVE  /\ outcome[u].object.version \in Versions
               /\ typeInfoCache'[outcome[u].object.version] = outcome[u].object
    <3>1. /\ outcome[u].object \in Objects /\ outcome[u].object.version \in Versions
          /\ typeInfoCache[outcome[u].object.version] = outcome[u].object
      BY <1>1, <1>2, <2>2, OutcomeObject DEF ReturnedIsCached, ThreadsTypeOK
    <3>2. outcome[u].object.version # usedVersion[t]
      BY <1>2, <3>1, NilIsNoObject
    <3>3. QED
      BY <1>10, <3>1, <3>2
  <2>3. QED
    BY <1>3, <1>9, <1>10, <2>1, <2>2 DEF ReturnedIsCached
<1>24. AnswersNearestVersion'
  <2>1. outcome'[t].object.version = usedVersion[t]
    BY <1>9, <1>12
  <2>2. usedVersion[t] = Floor(arg[t])
    BY <1>1 DEF ThreadInv, KnowsVersionPcs
  <2>3. QED
    BY <1>1, <1>10, <2>1, <2>2 DEF AnswersNearestVersion
<1>25. QED
  BY <1>13, <1>14, <1>15, <1>16, <1>17, <1>18, <1>19, <1>20, <1>21, <1>22,
     <1>23, <1>24 DEF IInv, TypeOK

-----------------------------------------------------------------------------
(* The inductive invariant.                                                *)

LEMMA InitIInv == Init => IInv
<1> SUFFICES ASSUME Init PROVE IInv
  OBVIOUS
<1> USE DEF Init
<1>1. NoThread \notin Threads
  BY ConstantsAssumption DEF ConstantsAssumption
<1>2. StaticsTypeOK
  BY DEF StaticsTypeOK
<1>3. CachesTypeOK
  BY LazyFacts DEF CachesTypeOK, Ids
<1>4. ThreadsTypeOK
  BY DEF ThreadsTypeOK, Pcs, Idle, Outcomes
<1>5. LockInv /\ LoopInv
  BY <1>1 DEF LockInv, LoopInv, InitPcs
<1>6. ThreadInv /\ RunningInv /\ FactoryInv
  BY DEF ThreadInv, RunningInv, FactoryInv, KnowsVersionPcs, FactoryPcs
<1>7. TablesInv
  BY LazyFacts DEF TablesInv, Ids
<1>8. CacheInv
  BY DEF CacheInv
<1>9. ReturnedIsCached /\ AnswersNearestVersion
  BY DEF ReturnedIsCached, AnswersNearestVersion, Idle
<1>10. QED
  BY <1>2, <1>3, <1>4, <1>5, <1>6, <1>7, <1>8, <1>9 DEF IInv, TypeOK

LEMMA NextIInv == IInv /\ [Next]_vars => IInv'
<1> SUFFICES ASSUME IInv, [Next]_vars PROVE IInv'
  OBVIOUS
<1>1. ASSUME NEW t \in Threads, Initialize(t) PROVE IInv'
  BY <1>1, CheckInitializedStep, EnterInitLockStep, LoadManifestFailsStep,
     MapResourcesStep, AddEntryStep, RejectEntryStep, SetVersionsStep,
     SetLatestStep, SetInitializedStep DEF Initialize, LoadManifest
<1>2. ASSUME NEW t \in Threads, LoadTypeInfos(t) PROVE IInv'
  BY <1>2, ReadLatestStep, ResolveStep, ResolveFailsStep, LookupHitStep,
     LookupMissStep, GetOrAddLazyStep, StartFactoryStep,
     LoadResourceContentStep, FactoryThrowsStep, BuildDecoderMetadataStep,
     PublishValueStep, ReadValueStep, RethrowCachedStep, RecheckHitStep,
     CacheVersionStep DEF LoadTypeInfos
<1>3. CASE UNCHANGED vars
  <2>1. /\ UNCHANGED <<initialized, initLock, resourceMap, payloadMap>>
        /\ UNCHANGED <<protocolVersions, latest, lazy, typeInfoCache>>
        /\ UNCHANGED <<nextId, built, pc, op, arg, cursor, usedVersion>>
        /\ UNCHANGED <<loaded, outcome, calls>>
    BY <1>3 DEF vars, statics, caches, objects, locals
  <2>2. TypeOK'
    BY <2>1 DEF IInv, TypeOK, StaticsTypeOK, CachesTypeOK, ThreadsTypeOK,
       Lazies, Outcomes, Objects, Ids
  <2>3. LockInv' /\ LoopInv'
    BY <2>1 DEF IInv, LockInv, LoopInv, AllMapped, MappedUpTo
  <2>4. ThreadInv'
    BY <2>1 DEF IInv, ThreadInv, Payload
  <2>5. RunningInv' /\ FactoryInv'
    BY <2>1 DEF IInv, RunningInv, FactoryInv, Payload
  <2>6. TablesInv'
    BY <2>1 DEF IInv, TablesInv, HasTables, Payload, Ids
  <2>7. CacheInv' /\ ReturnedIsCached' /\ AnswersNearestVersion'
    BY <2>1 DEF IInv, CacheInv, ReturnedIsCached, AnswersNearestVersion
  <2>8. QED
    BY <2>2, <2>3, <2>4, <2>5, <2>6, <2>7 DEF IInv
<1>4. QED
  BY <1>1, <1>2, <1>3, CallLoadTypeInfosStep, CallGetLatestVersionStep
     DEF Next, Step

(* The inductive invariant holds in every reachable state.                 *)
THEOREM InductiveInvariant == Spec => []IInv
<1>1. Init => IInv
  BY InitIInv
<1>2. IInv /\ [Next]_vars => IInv'
  BY NextIInv
<1>3. QED
  BY <1>1, <1>2, PTL DEF Spec

-----------------------------------------------------------------------------
(* The properties.                                                         *)

(* Every field and local of TypeInfoLoader keeps its type.                 *)
THEOREM TypeCorrect == Spec => []TypeOK
<1>1. IInv => TypeOK
  BY DEF IInv
<1>2. QED
  BY <1>1, InductiveInvariant, PTL

(* Double-checked locking is safe: a caller that sees _initialized without *)
(* the lock sees complete dictionaries.                                    *)
THEOREM DoubleCheckedLockingSafe == Spec => []InitializedComplete
<1>1. IInv => InitializedComplete
  <2> SUFFICES ASSUME IInv, initialized PROVE InitializedComplete
    BY DEF InitializedComplete
  <2>1. AllMapped /\ protocolVersions = Versions /\ latest = Greatest(Versions)
    BY DEF IInv, LoopInv
  <2>2. ASSUME NEW e \in Entries
        PROVE  payloadMap[e.version] = e.payload /\ e.payload \in resourceMap
    <3>1. PICK i \in DOMAIN Manifest : e = Manifest[i]
      BY DEF Entries
    <3>2. i < Len(Manifest) + 1
      BY ManifestDomain
    <3>3. QED
      BY <2>1, <3>1, <3>2 DEF AllMapped, MappedUpTo
  <2>3. QED
    BY <2>1, <2>2 DEF InitializedComplete
<1>2. QED
  BY <1>1, InductiveInvariant, PTL

(* LoadTypeInfos answers with the nearest version of the whole manifest.   *)
THEOREM NearestVersion == Spec => []AnswersNearestVersion
<1>1. IInv => AnswersNearestVersion
  BY DEF IInv
<1>2. QED
  BY <1>1, InductiveInvariant, PTL

(* Calls for one version share the cached object.                          *)
THEOREM ResultsAreCached == Spec => []ReturnedIsCached
<1>1. IInv => ReturnedIsCached
  BY DEF IInv
<1>2. QED
  BY <1>1, InductiveInvariant, PTL

LEMMA CachedVersion ==
  ASSUME IInv, NEW v \in Versions, typeInfoCache[v] # Nil
  PROVE  /\ PayloadOf[v] \in Resources
         /\ lazy[PayloadOf[v]].state = "value"
         /\ lazy[PayloadOf[v]].object \in Objects
         /\ typeInfoCache[v].tables = lazy[PayloadOf[v]].object.tables
<1>1. initialized /\ lazy[PayloadOf[v]].state = "value"
  BY DEF IInv, CacheInv
<1>2. AllMapped /\ StaticsTypeOK
  BY <1>1 DEF IInv, LoopInv, TypeOK
<1>3. PayloadOf[v] \in Resources
  BY <1>2, AllMappedFacts
<1>4. lazy[PayloadOf[v]] \in Lazies
  BY <1>3 DEF IInv, TypeOK, CachesTypeOK
<1>5. QED
  BY <1>1, <1>3, <1>4, LazyObject DEF IInv, CacheInv

(* Aliased versions, and only they, share decoder tables, and the tables   *)
(* a caller can reach are finished.                                        *)
THEOREM TablesShared == Spec => []SharedTables
<1>1. IInv => SharedTables
  <2> SUFFICES ASSUME IInv, NEW v \in Versions, NEW w \in Versions,
                      typeInfoCache[v] # Nil, typeInfoCache[w] # Nil
               PROVE  /\ typeInfoCache[v].tables \in built
                      /\ typeInfoCache[v].tables = typeInfoCache[w].tables
                            <=> PayloadOf[v] = PayloadOf[w]
    BY DEF SharedTables
  <2>1. /\ PayloadOf[v] \in Resources /\ lazy[PayloadOf[v]].state = "value"
        /\ lazy[PayloadOf[v]].object \in Objects
        /\ typeInfoCache[v].tables = lazy[PayloadOf[v]].object.tables
    BY CachedVersion
  <2>2. /\ PayloadOf[w] \in Resources /\ lazy[PayloadOf[w]].state = "value"
        /\ typeInfoCache[w].tables = lazy[PayloadOf[w]].object.tables
    BY CachedVersion
  <2>3. typeInfoCache[v].tables \in built
    BY <2>1 DEF IInv, TablesInv
  <2>4. ASSUME typeInfoCache[v].tables = typeInfoCache[w].tables
        PROVE  PayloadOf[v] = PayloadOf[w]
    <3>1. HasTables(PayloadOf[v], typeInfoCache[v].tables)
      BY <2>1 DEF HasTables
    <3>2. HasTables(PayloadOf[w], typeInfoCache[v].tables)
      BY <2>2, <2>4 DEF HasTables
    <3>3. typeInfoCache[v].tables \in Ids
      BY <2>1 DEF Objects
    <3>4. QED
      BY <2>1, <2>2, <3>1, <3>2, <3>3 DEF IInv, TablesInv
  <2>5. QED
    BY <2>1, <2>2, <2>3, <2>4
<1>2. QED
  BY <1>1, InductiveInvariant, PTL

(* Lazy with ExecutionAndPublication: one thread runs the factory of a     *)
(* payload, before any of its versions is cached.                          *)
THEOREM FactoryRunsOnce == Spec => []OneFactory
<1>1. IInv => OneFactory
  <2> SUFFICES ASSUME IInv, NEW t \in Threads, NEW u \in Threads,
                      pc[t] \in FactoryPcs
               PROVE  /\ pc[u] \in FactoryPcs /\ Payload(t) = Payload(u) => t = u
                      /\ \A v \in Versions :
                           typeInfoCache[v] # Nil => PayloadOf[v] # Payload(t)
    BY DEF OneFactory
  <2>1. lazy[Payload(t)] = LazyRunning(t)
    BY DEF IInv, RunningInv
  <2>2. pc[u] \in FactoryPcs => lazy[Payload(u)] = LazyRunning(u)
    BY DEF IInv, RunningInv
  <2>3. lazy[Payload(t)].state # "value"
    BY <2>1, LazyFacts
  <2>4. QED
    BY <2>1, <2>2, <2>3, LazyFacts, CachedVersion
<1>2. QED
  BY <1>1, InductiveInvariant, PTL

(* No version of a payload that failed to load is ever served.             *)
THEOREM FailureIsFinal == Spec => []FailedNeverServed
<1>1. IInv => FailedNeverServed
  BY CachedVersion, LazyFacts DEF FailedNeverServed
<1>2. QED
  BY <1>1, InductiveInvariant, PTL

(* An empty manifest or one with a bad entry never serves anybody.         *)
THEOREM BadManifestRejected == Spec => []BadManifestNeverServes
<1>1. IInv => BadManifestNeverServes
  <2> SUFFICES ASSUME IInv, BadManifest
               PROVE  /\ ~initialized
                      /\ \A t \in Threads : outcome[t].kind # "returned"
    BY DEF BadManifestNeverServes
  <2>1. ~initialized
    <3>1. CASE Manifest = << >>
      BY <3>1 DEF IInv, LoopInv
    <3>2. ASSUME NEW e \in Entries, e.version <= 0 \/ e.payload \notin Resources
          PROVE  ~initialized
      <4>1. PICK i \in DOMAIN Manifest : e = Manifest[i]
        BY DEF Entries
      <4>2. i < Len(Manifest) + 1
        BY ManifestDomain
      <4>3. AllMapped => Manifest[i].payload \in resourceMap
        BY <4>2 DEF AllMapped, MappedUpTo
      <4>4. AllMapped => Manifest[i].version > 0
        BY <4>2 DEF AllMapped, MappedUpTo
      <4>5. resourceMap \subseteq Resources
        BY DEF IInv, TypeOK, StaticsTypeOK
      <4>6. e.version \in Int
        BY EntryPayload, VersionsAreInts
      <4>7. ~AllMapped
        BY <3>2, <4>1, <4>3, <4>4, <4>5, <4>6
      <4>8. QED
        BY <4>7 DEF IInv, LoopInv
    <3>3. QED
      BY <3>1, <3>2 DEF BadManifest
  <2>2. ASSUME NEW t \in Threads, outcome[t].kind = "returned" PROVE FALSE
    <3>1. outcome[t].object \in Objects
      BY <2>2, OutcomeObject DEF IInv, TypeOK, ThreadsTypeOK
    <3>2. outcome[t].object # Nil
      BY <3>1, NilIsNoObject DEF IInv, TypeOK
    <3>3. QED
      BY <2>1, <2>2, <3>2 DEF IInv, ReturnedIsCached, CacheInv
  <2>3. QED
    BY <2>1, <2>2
<1>2. QED
  BY <1>1, InductiveInvariant, PTL

-----------------------------------------------------------------------------
(* The loader implements ProtocolRegistry.  That takes to know, beside     *)
(* IInv: what a call has asked for and that it is not answered, that the   *)
(* first Initialize with a good manifest meets no exception, and whose the *)
(* identities of objects are.                                              *)

CallInv ==
  \A t \in Threads :
    /\ pc[t] # "idle" => outcome[t] = Idle
    /\ pc[t] = "readLatest" => op[t] = "latest"
    /\ pc[t] \in {"resolve"} \union KnowsVersionPcs => op[t] = "load"
    /\ pc[t] \in KnowsVersionPcs => usedVersion[t] <= arg[t]

NothingMapped == \A v \in Versions : payloadMap[v] = Nil

(* Nobody has been in Initialize before, and what is still to come is new. *)
FirstRunInv ==
  /\ ~initialized /\ initLock = NoThread => NothingMapped
  /\ \A t \in Threads :
       /\ pc[t] = "resources" => NothingMapped
       /\ pc[t] = "entries" =>
            /\ resourceMap = Resources
            /\ \A i \in DOMAIN Manifest :
                 i >= cursor[t] => payloadMap[Manifest[i].version] = Nil

(* A canonical object is identified like its tables, and is cached, if at  *)
(* all, for the version that is its payload.                               *)
IdentityInv ==
  /\ \A p \in Resources :
       lazy[p].state = "value" => lazy[p].object.id = lazy[p].object.tables
  /\ \A t \in Threads :
       pc[t] \in {"buildMetadata", "publish"} => loaded[t].id = loaded[t].tables
  /\ \A v \in Versions : typeInfoCache[v] # Nil =>
       \A p \in Resources : HasTables(p, typeInfoCache[v].id) => p = v

RInv == IInv /\ CallInv /\ FirstRunInv /\ IdentityInv

(* With a good manifest every entry is added.                              *)
LEMMA GoodEntries ==
  ASSUME ~BadManifest
  PROVE  /\ Manifest # <<>>
         /\ \A i \in DOMAIN Manifest :
              /\ Manifest[i].version > 0
              /\ Manifest[i].payload \in Resources /\ Manifest[i].payload > 0
         /\ \A v \in Versions : PayloadOf[v] \in Resources
<1>1. ASSUME NEW i \in DOMAIN Manifest
      PROVE  /\ Manifest[i].version > 0
             /\ Manifest[i].payload \in Resources /\ Manifest[i].payload > 0
             /\ PayloadOf[Manifest[i].version] = Manifest[i].payload
  <2>1. /\ Manifest[i] \in Entries /\ Manifest[i].version \in Versions
        /\ PayloadOf[Manifest[i].version] = Manifest[i].payload
    BY EntryFacts
  <2>2. ~ (Manifest[i].version <= 0) /\ Manifest[i].payload \in Resources
    BY <2>1 DEF BadManifest
  <2>3. Manifest[i].version \in Int
    BY <2>1, VersionsAreInts
  <2>4. Manifest[i].payload \in Nat \ {0}
    BY <2>2, ConstantsAssumption DEF ConstantsAssumption
  <2> QED
    BY <2>1, <2>2, <2>3, <2>4
<1>2. ASSUME NEW v \in Versions PROVE PayloadOf[v] \in Resources
  <2>1. PICK i \in DOMAIN Manifest : v = Manifest[i].version
    BY DEF Versions, Entries
  <2> QED
    BY <1>1, <2>1
<1> QED
  BY <1>1, <1>2 DEF BadManifest

LEMMA NothingRejected ==
  ASSUME ~BadManifest, RInv, NEW t \in Threads
  PROVE  ~RejectEntry(t) /\ (LoadManifest(t) => MapResources(t))
<1>1. ~RejectEntry(t)
  <2>1. SUFFICES ASSUME RejectEntry(t) PROVE FALSE
    OBVIOUS
  <2>2. /\ cursor[t] \in DOMAIN Manifest /\ pc[t] = "entries"
        /\ \/ ~ValidEntry(Manifest[cursor[t]])
           \/ payloadMap[Manifest[cursor[t]].version] # Nil
    BY <2>1 DEF RejectEntry, FailInitialize, End, Goto
  <2>3. resourceMap = Resources /\ payloadMap[Manifest[cursor[t]].version] = Nil
    <3>1. cursor[t] >= cursor[t]
      BY <2>2, ManifestDomain
    <3> QED
      BY <2>2, <3>1 DEF RInv, FirstRunInv
  <2>4. ValidEntry(Manifest[cursor[t]])
    BY <2>2, <2>3, GoodEntries DEF ValidEntry
  <2> QED
    BY <2>2, <2>3, <2>4
<1>2. LoadManifest(t) => MapResources(t)
  BY GoodEntries DEF LoadManifest
<1> QED
  BY <1>1, <1>2

(* Calls stay what they were while their thread waits.                     *)
LEMMA CallInvStep ==
  ASSUME IInv, CallInv, NEW t \in Threads,
         \/ CallLoadTypeInfos(t) \/ CallGetLatestVersion(t)
         \/ CheckInitialized(t) \/ EnterInitLock(t) \/ MapResources(t)
         \/ AddEntry(t) \/ SetVersions(t) \/ SetLatest(t) \/ SetInitialized(t)
         \/ LoadTypeInfos(t)
  PROVE  CallInv'
<1> USE DEF Goto, statics, caches, objects, locals, KnowsVersionPcs, FactoryPcs
<1>1. /\ pc \in [Threads -> Pcs] /\ outcome \in [Threads -> Outcomes]
      /\ op \in [Threads -> {"load", "latest"}] /\ arg \in [Threads -> Int]
      /\ usedVersion \in [Threads -> Versions \union {Nil}]
  BY DEF IInv, TypeOK, ThreadsTypeOK
<1>2. CASE CallLoadTypeInfos(t) \/ CallGetLatestVersion(t)
  BY <1>1, <1>2 DEF CallInv, CallLoadTypeInfos, CallGetLatestVersion, Call
<1>3. CASE \/ CheckInitialized(t) \/ EnterInitLock(t) \/ SetInitialized(t)
  BY <1>1, <1>3 DEF CallInv, CheckInitialized, EnterInitLock, SetInitialized,
     AfterInitialize
<1>4. CASE \/ MapResources(t) \/ AddEntry(t) \/ SetVersions(t) \/ SetLatest(t)
  BY <1>1, <1>4 DEF CallInv, MapResources, AddEntry, SetVersions, SetLatest
<1>5. CASE ReadLatest(t)
  BY <1>1, <1>5 DEF CallInv, ReadLatest
<1>6. CASE Resolve(t)
  <2>1. usedVersion'[t] <= arg'[t]
    <3> DEFINE S == AtMost(arg[t])
    <3>1. protocolVersions = Versions
      BY <1>6 DEF Resolve, IInv, ThreadInv, LoopInv
    <3>2. S \in SUBSET Int32 /\ S # {}
      BY <1>1, <1>6, <3>1, AtMostBelow DEF Resolve
    <3>3. Greatest(S) \in S
      <4> HIDE DEF S
      <4> QED
        BY <3>2, GreatestIsElement
    <3>4. Greatest(S) <= arg[t]
      BY <3>3 DEF AtMost
    <3> QED
      BY <1>1, <1>6, <3>4 DEF Resolve
  <2> QED
    BY <1>1, <1>6, <2>1 DEF CallInv, Resolve
<1>7. CASE \/ ResolveFails(t) \/ LookupHit(t) \/ RethrowCached(t) \/ RecheckHit(t)
           \/ FactoryThrows(t) \/ CacheVersion(t)
  BY <1>1, <1>7 DEF CallInv, End, ResolveFails, LookupHit, RethrowCached, RecheckHit,
     FactoryThrows, CacheVersion
<1>8. CASE \/ LookupMiss(t) \/ GetOrAddLazy(t) \/ StartFactory(t)
           \/ LoadResourceContent(t) \/ BuildDecoderMetadata(t) \/ PublishValue(t)
           \/ ReadValue(t)
  BY <1>1, <1>8 DEF CallInv, LookupMiss, GetOrAddLazy, StartFactory,
     LoadResourceContent, BuildDecoderMetadata, PublishValue, ReadValue
<1> QED
  BY <1>2, <1>3, <1>4, <1>5, <1>6, <1>7, <1>8 DEF LoadTypeInfos

LEMMA FirstRunSame ==
  ASSUME FirstRunInv, UNCHANGED <<initialized, initLock, payloadMap, resourceMap, cursor>>,
         \A u \in Threads : pc'[u] \in {"resources", "entries"} => pc[u] = pc'[u]
  PROVE  FirstRunInv'
BY DEF FirstRunInv, NothingMapped

LEMMA FirstRunStep ==
  ASSUME IInv, FirstRunInv, NEW t \in Threads,
         \/ CallLoadTypeInfos(t) \/ CallGetLatestVersion(t)
         \/ CheckInitialized(t) \/ EnterInitLock(t) \/ MapResources(t)
         \/ AddEntry(t) \/ SetVersions(t) \/ SetLatest(t) \/ SetInitialized(t)
         \/ LoadTypeInfos(t)
  PROVE  FirstRunInv'
<1> USE DEF Goto, statics, caches, objects, locals
<1>1. /\ pc \in [Threads -> Pcs] /\ cursor \in [Threads -> Nat]
      /\ payloadMap \in [Versions -> Resources \union {Nil}]
      /\ resourceMap \in SUBSET Resources /\ NoThread \notin Threads
      /\ \A u \in Threads : pc[u] \in InitPcs <=> initLock = u
  BY ConstantsAssumption
     DEF IInv, TypeOK, ThreadsTypeOK, StaticsTypeOK, LockInv, ConstantsAssumption
<1>2. CASE CallLoadTypeInfos(t) \/ CallGetLatestVersion(t)
  BY <1>1, <1>2, FirstRunSame DEF CallLoadTypeInfos, CallGetLatestVersion, Call
<1>3. CASE CheckInitialized(t)
  BY <1>1, <1>3, FirstRunSame DEF CheckInitialized, AfterInitialize
<1>4. CASE EnterInitLock(t)
  BY <1>1, <1>4 DEF FirstRunInv, EnterInitLock, AfterInitialize, NothingMapped, InitPcs
<1>5. CASE MapResources(t)
  <2>1. NothingMapped /\ initLock = t /\ UNCHANGED <<payloadMap, initLock, initialized>>
    BY <1>1, <1>5 DEF FirstRunInv, MapResources, InitPcs
  <2>2. \A u \in Threads \ {t} : pc'[u] \notin {"resources", "entries"}
    BY <1>1, <1>5, <2>1 DEF MapResources, InitPcs
  <2>3. pc'[t] = "entries" /\ resourceMap' = Resources
    BY <1>1, <1>5 DEF MapResources
  <2>4. \A i \in DOMAIN Manifest : payloadMap[Manifest[i].version] = Nil
    BY <2>1, EntryFacts DEF NothingMapped
  <2> QED
    BY <1>1, <2>1, <2>2, <2>3, <2>4 DEF FirstRunInv
<1>6. CASE AddEntry(t)
  <2>1. /\ initLock = t /\ UNCHANGED <<initLock, resourceMap, initialized>>
        /\ pc[t] = "entries" /\ pc'[t] = "entries"
        /\ cursor[t] \in DOMAIN Manifest /\ cursor'[t] = cursor[t] + 1
    BY <1>1, <1>6 DEF AddEntry, InitPcs
  <2>2. \A u \in Threads \ {t} : pc'[u] \notin {"resources", "entries"}
    BY <1>1, <1>6, <2>1 DEF AddEntry, InitPcs
  <2>3. ASSUME NEW i \in DOMAIN Manifest, i >= cursor'[t]
        PROVE  payloadMap'[Manifest[i].version] = Nil
    <3>1. i \in Nat /\ cursor[t] \in Nat /\ i >= cursor[t] /\ i # cursor[t]
      BY <1>1, <2>1, <2>3, ManifestDomain
    <3>2. Manifest[i].version # Manifest[cursor[t]].version
      BY <2>1, <3>1, ConstantsAssumption DEF ConstantsAssumption
    <3>3. payloadMap[Manifest[i].version] = Nil
      BY <2>1, <3>1 DEF FirstRunInv
    <3> QED
      BY <1>1, <1>6, <3>2, <3>3, EntryFacts DEF AddEntry
  <2>4. resourceMap' = Resources
    BY <2>1 DEF FirstRunInv
  <2> QED
    BY <1>1, <2>1, <2>2, <2>3, <2>4 DEF FirstRunInv
<1>7. CASE \/ SetVersions(t) \/ SetLatest(t)
  BY <1>1, <1>7, FirstRunSame DEF SetVersions, SetLatest
<1>8. CASE SetInitialized(t)
  BY <1>1, <1>8 DEF FirstRunInv, SetInitialized, AfterInitialize, NothingMapped
<1>9. CASE LoadTypeInfos(t)
  <2>1. /\ UNCHANGED <<initialized, initLock, payloadMap, resourceMap, cursor>>
        /\ \E to \in Pcs \ {"resources", "entries"} : pc' = [pc EXCEPT ![t] = to]
    BY <1>9 DEF LoadTypeInfos, End, ReadLatest, Resolve, ResolveFails, LookupHit,
       LookupMiss, GetOrAddLazy, StartFactory, LoadResourceContent, FactoryThrows,
       BuildDecoderMetadata, PublishValue, ReadValue, RethrowCached, RecheckHit,
       CacheVersion, Pcs, KnowsVersionPcs, FactoryPcs
  <2>2. \A u \in Threads : pc'[u] \in {"resources", "entries"} => pc[u] = pc'[u]
    BY <1>1, <2>1
  <2> QED
    BY <2>1, <2>2, FirstRunSame
<1> QED
  BY <1>2, <1>3, <1>4, <1>5, <1>6, <1>7, <1>8, <1>9

(* No object has come to a Lazy or into a hand.                            *)
LEMMA IdentitySame ==
  ASSUME IdentityInv, UNCHANGED typeInfoCache,
         \A p \in Resources : lazy'[p].state = "value" => lazy'[p] = lazy[p],
         \A u \in Threads : pc'[u] \in {"buildMetadata", "publish"} =>
           /\ pc[u] \in {"buildMetadata", "publish"} /\ loaded'[u] = loaded[u]
           /\ Payload(u)' = Payload(u)
  PROVE  IdentityInv'
<1>1. ASSUME NEW p \in Resources, NEW k, HasTables(p, k)' PROVE HasTables(p, k)
  BY <1>1 DEF HasTables
<1> QED
  BY <1>1 DEF IdentityInv

(* The canonical object and its tables are one allocation.                 *)
LEMMA LoadedIdentity ==
  ASSUME IInv, IdentityInv, NEW t \in Threads, LoadResourceContent(t)
  PROVE  IdentityInv'
<1> USE DEF Goto, statics, caches, objects, locals, LoadResourceContent
<1>1. /\ pc \in [Threads -> Pcs] /\ loaded \in [Threads -> Objects \union {Nil}]
      /\ typeInfoCache \in [Versions -> Objects \union {Nil}] /\ nextId \in Nat
  BY DEF IInv, TypeOK, ThreadsTypeOK, CachesTypeOK
<1>2. \A u \in Threads : Payload(u)' = Payload(u)
  BY DEF Payload
<1>3. loaded'[t].id = nextId /\ loaded'[t].tables = nextId
  BY <1>1
<1>4. ASSUME NEW p \in Resources, NEW k, HasTables(p, k)'
      PROVE  HasTables(p, k) \/ k = nextId
  BY <1>1, <1>2, <1>3, <1>4 DEF HasTables
<1>5. ASSUME NEW v \in Versions, typeInfoCache[v] # Nil
      PROVE  typeInfoCache[v].id # nextId
  <2>1. typeInfoCache[v] \in Objects
    BY <1>1, <1>5
  <2> QED
    BY <1>1, <2>1 DEF Objects, Ids
<1>6. \A u \in Threads : pc'[u] \in {"buildMetadata", "publish"} =>
        loaded'[u].id = loaded'[u].tables
  BY <1>1, <1>3 DEF IdentityInv
<1> QED
  BY <1>4, <1>5, <1>6 DEF IdentityInv

LEMMA PublishedIdentity ==
  ASSUME IInv, IdentityInv, NEW t \in Threads, PublishValue(t)
  PROVE  IdentityInv'
<1> USE DEF Goto, statics, caches, objects, locals, PublishValue
<1>1. /\ pc \in [Threads -> Pcs] /\ lazy \in [Resources -> Lazies]
      /\ Payload(t) \in Resources
  BY PayloadFacts DEF IInv, TypeOK, ThreadsTypeOK, CachesTypeOK, KnowsVersionPcs, FactoryPcs
<1>2. \A u \in Threads : Payload(u)' = Payload(u)
  BY DEF Payload
<1>3. lazy'[Payload(t)].state = "value" /\ lazy'[Payload(t)].object = loaded[t]
  BY <1>1, LazyValueFacts
<1>4. ASSUME NEW p \in Resources, NEW k, HasTables(p, k)' PROVE HasTables(p, k)
  <2>1. CASE p = Payload(t) /\ k = loaded[t].tables
    BY <2>1 DEF HasTables
  <2>2. CASE ~ (p = Payload(t) /\ k = loaded[t].tables)
    BY <1>1, <1>2, <1>3, <1>4, <2>2 DEF HasTables
  <2> QED
    BY <2>1, <2>2
<1>5. \A p \in Resources :
        lazy'[p].state = "value" => lazy'[p].object.id = lazy'[p].object.tables
  BY <1>1, <1>3 DEF IdentityInv
<1>6. \A u \in Threads : pc'[u] \in {"buildMetadata", "publish"} =>
        loaded'[u].id = loaded'[u].tables
  BY <1>1 DEF IdentityInv
<1> QED
  BY <1>4, <1>5, <1>6 DEF IdentityInv

(* The object that is cached for a version.                                *)
LEMMA CachedObject ==
  ASSUME IInv, IdentityInv, NEW t \in Threads, CacheVersion(t)
  PROVE  LET v == usedVersion[t]
             o == VersionObject(t)
         IN /\ v \in Versions /\ Payload(t) = PayloadOf[v]
            /\ typeInfoCache' = [typeInfoCache EXCEPT ![v] = o]
            /\ typeInfoCache'[v] = o
            /\ o # Nil /\ o.version = v /\ o.tables = lazy[PayloadOf[v]].object.tables
            /\ lazy[PayloadOf[v]].state = "value"
            /\ \A p \in Resources : HasTables(p, o.id) => p = v
            /\ \A w \in Versions : typeInfoCache[w] # Nil => typeInfoCache[w].id # o.id
<1> DEFINE v == usedVersion[t]
           o == VersionObject(t)
<1>1. /\ pc[t] = "cache" /\ typeInfoCache[v] = Nil
      /\ typeInfoCache' = [typeInfoCache EXCEPT ![v] = o]
  BY DEF CacheVersion, End, Goto
<1>2. v \in Versions /\ Payload(t) = PayloadOf[v] /\ Payload(t) \in Resources
  BY <1>1, PayloadFacts DEF KnowsVersionPcs
<1>3. /\ typeInfoCache \in [Versions -> Objects \union {Nil}]
      /\ lazy[Payload(t)] \in Lazies /\ nextId \in Nat /\ Nil \notin Objects
  BY <1>2, NilIsNoObject DEF IInv, TypeOK, CachesTypeOK
<1>4. /\ lazy[Payload(t)].state = "value" /\ lazy[Payload(t)].object = loaded[t]
      /\ loaded[t] \in Objects
  <2>1. lazy[Payload(t)] = LazyValue(loaded[t])
    BY <1>1 DEF IInv, ThreadInv
  <2> QED
    BY <1>3, <2>1, LazyObject, LazyValueFacts
<1>5. /\ loaded[t].id = loaded[t].tables /\ loaded[t].version = Payload(t)
      /\ HasTables(Payload(t), loaded[t].id) /\ loaded[t].id \in Ids
  <2>1. loaded[t].id = loaded[t].tables
    BY <1>2, <1>4 DEF IdentityInv
  <2>2. loaded[t].version = Payload(t)
    BY <1>2, <1>4 DEF IInv, TablesInv
  <2>3. HasTables(Payload(t), loaded[t].id)
    BY <1>4, <2>1 DEF HasTables
  <2> QED
    BY <1>4, <2>1, <2>2, <2>3 DEF Objects
<1>6. \A w \in Versions : typeInfoCache[w] # Nil => typeInfoCache[w].id \in Ids
  BY <1>3 DEF Objects
<1>7. /\ o # Nil /\ o.version = v /\ o.tables = loaded[t].tables
      /\ \A p \in Resources : HasTables(p, o.id) => p = v
      /\ \A w \in Versions : typeInfoCache[w] # Nil => typeInfoCache[w].id # o.id
  <2>1. CASE Canonical(t)
    <3>1. o = loaded[t] /\ v = Payload(t)
      BY <2>1 DEF VersionObject, Canonical
    <3>2. \A p \in Resources : HasTables(p, o.id) => p = v
      BY <1>2, <1>5, <3>1 DEF IInv, TablesInv
    <3>3. ASSUME NEW w \in Versions, typeInfoCache[w] # Nil, typeInfoCache[w].id = o.id
          PROVE  FALSE
      <4>1. Payload(t) = w
        BY <1>2, <1>5, <3>1, <3>3 DEF IdentityInv
      <4> QED
        BY <1>1, <3>1, <3>3, <4>1
    <3> QED
      BY <1>3, <1>4, <1>5, <3>1, <3>2, <3>3
  <2>2. CASE ~Canonical(t)
    <3>1. o = [id |-> nextId, tables |-> loaded[t].tables, version |-> v]
      BY <2>2 DEF VersionObject
    <3>2. o.id = nextId /\ o.tables = loaded[t].tables /\ o.version = v /\ nextId \notin Ids
      BY <1>3, <3>1 DEF Ids
    <3>3. o # Nil
      <4>1. o \in [id : Int, tables : Int, version : Int]
        <5>1. v \in Int /\ nextId \in Int /\ loaded[t].tables \in Ids
          <6>1. v \in Int
            BY <1>2, VersionsAreInts, Zenon
          <6>2. loaded[t].tables \in Ids
            BY <1>4 DEF Objects
          <6> QED
            BY <1>3, <6>1, <6>2
        <5>2. loaded[t].tables \in Int
          BY <5>1 DEF Ids
        <5> HIDE DEF v
        <5> QED
          BY <3>1, <5>1, <5>2
      <4> QED
        BY <4>1, ConstantsAssumption DEF ConstantsAssumption
    <3>4. ASSUME NEW p \in Resources, HasTables(p, o.id) PROVE FALSE
      BY <3>2, <3>4, HasTablesAllocated DEF IInv, TypeOK
    <3> QED
      BY <1>6, <3>2, <3>3, <3>4
  <2> QED
    BY <2>1, <2>2
<1> HIDE DEF o
<1>8. typeInfoCache'[v] = o
  BY <1>1, <1>2, <1>3
<1> QED
  BY <1>1, <1>2, <1>4, <1>7, <1>8 DEF o

LEMMA CachedIdentity ==
  ASSUME IInv, IdentityInv, NEW t \in Threads, CacheVersion(t)
  PROVE  IdentityInv'
<1> USE DEF Goto, End, statics, caches, objects, locals
<1> DEFINE v == usedVersion[t]
           o == VersionObject(t)
<1>1. /\ v \in Versions /\ typeInfoCache' = [typeInfoCache EXCEPT ![v] = o]
      /\ typeInfoCache'[v] = o /\ \A p \in Resources : HasTables(p, o.id) => p = v
  BY CachedObject
<1>2. /\ pc \in [Threads -> Pcs]
      /\ typeInfoCache \in [Versions -> Objects \union {Nil}]
      /\ \A u \in Threads : Payload(u)' = Payload(u)
  BY DEF IInv, TypeOK, ThreadsTypeOK, CachesTypeOK, CacheVersion, Payload
<1>3. lazy' = lazy /\ loaded' = loaded /\ pc' = [pc EXCEPT ![t] = "idle"]
  BY DEF CacheVersion
<1> HIDE DEF v, o
<1>5. \A w \in Versions \ {v} : typeInfoCache'[w] = typeInfoCache[w]
  BY <1>1, <1>2
<1>6. ASSUME NEW w \in Versions, typeInfoCache'[w] # Nil,
             NEW p \in Resources, HasTables(p, typeInfoCache[w].id)'
      PROVE  p = w
  <2>1. HasTables(p, typeInfoCache'[w].id)
    BY <1>2, <1>3, <1>6 DEF HasTables
  <2> QED
    BY <1>1, <1>5, <1>6, <2>1 DEF IdentityInv
<1>7. /\ \A p \in Resources :
           lazy'[p].state = "value" => lazy'[p].object.id = lazy'[p].object.tables
      /\ \A u \in Threads : pc'[u] \in {"buildMetadata", "publish"} =>
           loaded'[u].id = loaded'[u].tables
  BY <1>2, <1>3 DEF IdentityInv
<1> QED
  BY <1>6, <1>7 DEF IdentityInv

LEMMA IdentityStep ==
  ASSUME IInv, IdentityInv, NEW t \in Threads,
         \/ CallLoadTypeInfos(t) \/ CallGetLatestVersion(t)
         \/ CheckInitialized(t) \/ EnterInitLock(t) \/ MapResources(t)
         \/ AddEntry(t) \/ SetVersions(t) \/ SetLatest(t) \/ SetInitialized(t)
         \/ LoadTypeInfos(t)
  PROVE  IdentityInv'
<1> USE DEF Goto, End, statics, caches, objects, locals
<1>1. /\ pc \in [Threads -> Pcs] /\ lazy \in [Resources -> Lazies]
      /\ loaded \in [Threads -> Objects \union {Nil}]
  BY DEF IInv, TypeOK, ThreadsTypeOK, CachesTypeOK
<1>2. ASSUME UNCHANGED <<payloadMap, usedVersion, lazy, typeInfoCache, loaded>>,
             \E to \in Pcs \ {"buildMetadata", "publish"} : pc' = [pc EXCEPT ![t] = to]
      PROVE  IdentityInv'
  BY <1>1, <1>2, IdentitySame DEF Payload
<1>3. CASE CallLoadTypeInfos(t) \/ CallGetLatestVersion(t)
  BY <1>2, <1>3 DEF CallLoadTypeInfos, CallGetLatestVersion, Call, Pcs
<1>4. CASE CheckInitialized(t) \/ EnterInitLock(t) \/ MapResources(t)
           \/ SetVersions(t) \/ SetLatest(t) \/ SetInitialized(t)
  BY <1>2, <1>4 DEF CheckInitialized, EnterInitLock, MapResources, SetVersions,
     SetLatest, SetInitialized, AfterInitialize, Pcs, InitPcs
<1>5. CASE AddEntry(t)
  <2>1. \A u \in Threads : pc[u] \notin {"buildMetadata", "publish"}
    <3>1. initLock = t /\ t # NoThread
      BY <1>5, ConstantsAssumption
         DEF AddEntry, IInv, LockInv, InitPcs, ConstantsAssumption
    <3> QED
      BY <3>1 DEF IInv, LockInv, ThreadInv, KnowsVersionPcs, FactoryPcs
  <2>2. pc' = [pc EXCEPT ![t] = "entries"] /\ UNCHANGED <<lazy, typeInfoCache>>
    BY <1>5 DEF AddEntry
  <2> QED
    BY <1>1, <2>1, <2>2, IdentitySame
<1>6. CASE \/ ReadLatest(t) \/ ResolveFails(t) \/ LookupHit(t)
           \/ LookupMiss(t) \/ RethrowCached(t) \/ RecheckHit(t)
  BY <1>2, <1>6 DEF ReadLatest, ResolveFails, LookupHit, LookupMiss, RethrowCached,
     RecheckHit, Pcs, KnowsVersionPcs, FactoryPcs
<1>7. CASE Resolve(t)
  <2>1. \A u \in Threads \ {t} : Payload(u)' = Payload(u)
    BY <1>7 DEF Resolve, Payload
  <2> QED
    BY <1>1, <1>7, <2>1, IdentitySame DEF Resolve
<1>8. CASE GetOrAddLazy(t) \/ StartFactory(t) \/ FactoryThrows(t)
  <2>1. \A u \in Threads : Payload(u)' = Payload(u)
    BY <1>8 DEF GetOrAddLazy, StartFactory, FactoryThrows, Payload
  <2>2. ASSUME NEW p \in Resources, lazy'[p].state = "value" PROVE lazy'[p] = lazy[p]
    <3>1. \/ lazy' = lazy
          \/ \E x \in {LazyCreated, LazyFailed, LazyRunning(t)} :
               lazy' = [lazy EXCEPT ![Payload(t)] = x]
      BY <1>8 DEF GetOrAddLazy, StartFactory, FactoryThrows
    <3>2. \A x \in {LazyCreated, LazyFailed, LazyRunning(t)} : x.state # "value"
      BY LazyFacts
    <3> QED
      BY <1>1, <2>2, <3>1, <3>2
  <2>3. /\ UNCHANGED typeInfoCache
        /\ \A u \in Threads : pc'[u] \in {"buildMetadata", "publish"} =>
             pc[u] \in {"buildMetadata", "publish"} /\ loaded'[u] = loaded[u]
    BY <1>1, <1>8 DEF GetOrAddLazy, StartFactory, FactoryThrows
  <2> QED
    BY <2>1, <2>2, <2>3, IdentitySame
<1>9. CASE BuildDecoderMetadata(t)
  BY <1>1, <1>9, IdentitySame DEF BuildDecoderMetadata, Payload
<1>10. CASE ReadValue(t)
  BY <1>1, <1>10, IdentitySame DEF ReadValue, Payload
<1> QED
  BY <1>3, <1>4, <1>5, <1>6, <1>7, <1>8, <1>9, <1>10, LoadedIdentity,
     PublishedIdentity, CachedIdentity DEF LoadTypeInfos

LEMMA RInvInit == Init => RInv
<1> SUFFICES ASSUME Init PROVE RInv
  OBVIOUS
<1>1. IInv
  BY InitIInv
<1>2. CallInv /\ FirstRunInv
  BY DEF Init, CallInv, FirstRunInv, NothingMapped, KnowsVersionPcs, FactoryPcs
<1>3. IdentityInv
  BY LazyFacts DEF Init, IdentityInv
<1> QED
  BY <1>1, <1>2, <1>3 DEF RInv

LEMMA RInvNext ==
  ASSUME ~BadManifest, RInv, [Next]_vars
  PROVE  RInv'
<1>1. IInv'
  BY NextIInv DEF RInv
<1>2. ASSUME NEW t \in Threads,
             CallLoadTypeInfos(t) \/ CallGetLatestVersion(t) \/ Step(t)
      PROVE  CallInv' /\ FirstRunInv' /\ IdentityInv'
  <2>1. \/ CallLoadTypeInfos(t) \/ CallGetLatestVersion(t)
        \/ CheckInitialized(t) \/ EnterInitLock(t) \/ MapResources(t)
        \/ AddEntry(t) \/ SetVersions(t) \/ SetLatest(t) \/ SetInitialized(t)
        \/ LoadTypeInfos(t)
    BY <1>2, NothingRejected DEF Step, Initialize
  <2> QED
    BY <2>1, CallInvStep, FirstRunStep, IdentityStep DEF RInv
<1>3. CASE UNCHANGED vars
  <2>1. /\ UNCHANGED <<initialized, initLock, resourceMap, payloadMap, lazy>>
        /\ UNCHANGED <<typeInfoCache, pc, op, arg, cursor, usedVersion>>
        /\ UNCHANGED <<loaded, outcome>>
    BY <1>3 DEF vars, statics, caches, objects, locals
  <2>2. CallInv'
    BY <2>1 DEF RInv, CallInv
  <2>3. FirstRunInv'
    BY <2>1, FirstRunSame DEF RInv
  <2>4. IdentityInv'
    BY <2>1, IdentitySame DEF RInv, Payload
  <2> QED
    BY <1>1, <2>2, <2>3, <2>4 DEF RInv
<1> QED
  BY <1>1, <1>2, <1>3 DEF Next, RInv

-----------------------------------------------------------------------------
(* The steps of the registry, in terms of the loader.                      *)

Tables == [p \in { PayloadOf[v] : v \in Versions } |-> TablesOf(p)]
Asked  == [t \in Threads |->
             IF op[t] = "latest" THEN Greatest(Versions) ELSE arg[t]]

LEMMA RegistryWaits ==
  ASSUME Tables' = Tables, typeInfoCache' = typeInfoCache, Asked' = Asked,
         outcome' = outcome
  PROVE  UNCHANGED Registry!vars
BY DEF Registry!vars, Tables, Asked

LEMMA RegistryAsks ==
  ASSUME NEW t \in Threads, NEW n \in Requests \union {Greatest(Versions)},
         Asked' = [Asked EXCEPT ![t] = n], outcome' = [outcome EXCEPT ![t] = Idle],
         Tables' = Tables, typeInfoCache' = typeInfoCache
  PROVE  Registry!Next
<1>1. Registry!Ask(t)
  BY DEF Registry!Ask, Registry!Pending, Idle, Tables, Asked
<1> QED
  BY <1>1 DEF Registry!Next

LEMMA RegistryLoads ==
  ASSUME NEW p \in { PayloadOf[v] : v \in Versions }, Tables[p] = Nil, Tables'[p] # Nil,
         \A q \in { PayloadOf[v] : v \in Versions } : Tables[q] # Tables'[p],
         Tables' = [Tables EXCEPT ![p] = Tables'[p]],
         typeInfoCache' = typeInfoCache, Asked' = Asked, outcome' = outcome
  PROVE  Registry!Next
<1>1. Registry!Load(p)
  BY DEF Registry!Load, Registry!Payloads, Tables, Asked
<1> QED
  BY <1>1 DEF Registry!Next, Registry!Payloads

LEMMA RegistryAnswers ==
  ASSUME NEW t \in Threads, NEW v \in Versions, Asked[t] \in Int,
         v = Floor(Asked[t]), v <= Asked[t], outcome[t] = Idle,
         Tables[PayloadOf[v]] \notin {Nil, Failed},
         \/ typeInfoCache[v] # Nil /\ typeInfoCache'[v] = typeInfoCache[v]
         \/ /\ typeInfoCache[v] = Nil
            /\ typeInfoCache'[v] # Nil /\ typeInfoCache'[v].version = v
            /\ typeInfoCache'[v].tables = Tables[PayloadOf[v]]
            /\ \A w \in Versions : typeInfoCache[w] # Nil =>
                 typeInfoCache[w].id # typeInfoCache'[v].id,
         typeInfoCache' = [typeInfoCache EXCEPT ![v] = typeInfoCache'[v]],
         outcome' = [outcome EXCEPT ![t] = Returned(typeInfoCache'[v])],
         Tables' = Tables, Asked' = Asked
  PROVE  Registry!Next
<1>1. Registry!Nearest(Asked[t]) = v /\ Registry!Below(Asked[t]) # {}
  BY DEF Registry!Nearest, Registry!Below, Floor, Greatest
<1>2. Registry!Loaded(PayloadOf[v])
  BY DEF Registry!Loaded, Tables
<1>3. Registry!IsObjectOf(typeInfoCache'[v], v)
  BY DEF Registry!IsObjectOf, Tables
<1>4. Registry!Answer(t)
  BY <1>1, <1>2, <1>3 DEF Registry!Answer, Registry!Pending, Registry!Returned,
     Returned, Idle, Tables, Asked
<1> QED
  BY <1>4 DEF Registry!Next

LEMMA RegistryRefuses ==
  ASSUME NEW t \in Threads, outcome[t] = Idle, Asked[t] \in Int,
         typeInfoCache' = typeInfoCache, Asked' = Asked,
         \/ /\ { v \in Versions : v <= Asked[t] } = {}
            /\ outcome' = [outcome EXCEPT ![t] = Threw("DecodeException")]
            /\ Tables' = Tables
         \/ \E v \in Versions :
              /\ v = Floor(Asked[t]) /\ v <= Asked[t]
              /\ Tables[PayloadOf[v]] \in {Nil, Failed}
              /\ Tables' = [Tables EXCEPT ![PayloadOf[v]] = Failed]
              /\ outcome' = [outcome EXCEPT ![t] = Threw("FactoryException")]
  PROVE  Registry!Next
<1>1. CASE /\ { v \in Versions : v <= Asked[t] } = {}
           /\ outcome' = [outcome EXCEPT ![t] = Threw("DecodeException")]
           /\ Tables' = Tables
  <2>1. Registry!Below(Asked[t]) = {}
    BY <1>1 DEF Registry!Below
  <2>2. Registry!Refuse(t)
    BY <1>1, <2>1 DEF Registry!Refuse, Registry!Pending, Registry!Threw, Threw, Idle,
       Tables, Asked
  <2> QED
    BY <2>2 DEF Registry!Next
<1>2. ASSUME NEW v \in Versions, v = Floor(Asked[t]), v <= Asked[t],
             Tables[PayloadOf[v]] \in {Nil, Failed},
             Tables' = [Tables EXCEPT ![PayloadOf[v]] = Failed],
             outcome' = [outcome EXCEPT ![t] = Threw("FactoryException")]
      PROVE  Registry!Next
  <2>1. Registry!Nearest(Asked[t]) = v /\ Registry!Below(Asked[t]) # {}
    BY <1>2 DEF Registry!Nearest, Registry!Below, Floor, Greatest
  <2>2. ~Registry!Loaded(PayloadOf[v])
    BY <1>2 DEF Registry!Loaded, Tables
  <2>3. Registry!Refuse(t)
    BY <1>2, <2>1, <2>2 DEF Registry!Refuse, Registry!Pending, Registry!Threw, Threw,
       Idle, Tables, Asked
  <2> QED
    BY <2>3 DEF Registry!Next
<1> QED
  BY <1>1, <1>2

-----------------------------------------------------------------------------
(* The steps of the loader.                                                *)

(* The tables the state of a Lazy stands for.                              *)
TablesIn(x) ==
  CASE x.state = "value"  -> x.object.tables
    [] x.state = "failed" -> Failed
    [] OTHER              -> Nil

LEMMA TablesInFacts ==
  /\ TablesIn(NoLazy) = Nil /\ TablesIn(LazyCreated) = Nil
  /\ TablesIn(LazyFailed) = Failed
  /\ \A t \in Threads : TablesIn(LazyRunning(t)) = Nil
  /\ \A o : TablesIn(LazyValue(o)) = o.tables
BY DEF TablesIn, NoLazy, LazyCreated, LazyFailed, LazyRunning, LazyValue

LEMMA TablesAre ==
  ASSUME NEW v \in Versions
  PROVE  Tables[PayloadOf[v]] = TablesIn(lazy[PayloadOf[v]])
BY DEF Tables, TablesOf, TablesIn

LEMMA TablesKept ==
  ASSUME ~BadManifest,
         \A p \in Resources : TablesIn(lazy'[p]) = TablesIn(lazy[p])
  PROVE  Tables' = Tables
<1>1. \A p : TablesOf(p) = TablesIn(lazy[p]) /\ TablesOf(p)' = TablesIn(lazy'[p])
  BY DEF TablesOf, TablesIn
<1>2. \A p \in { PayloadOf[v] : v \in Versions } : TablesOf(p)' = TablesOf(p)
  BY <1>1, GoodEntries
<1> QED
  BY <1>2 DEF Tables

LEMMA TablesSet ==
  ASSUME ~BadManifest, NEW p \in Resources, NEW x, lazy \in [Resources -> Lazies],
         lazy' = [lazy EXCEPT ![p] = x]
  PROVE  Tables' = [Tables EXCEPT ![p] = TablesIn(x)]
<1>1. \A q : TablesOf(q) = TablesIn(lazy[q]) /\ TablesOf(q)' = TablesIn(lazy'[q])
  BY DEF TablesOf, TablesIn
<1>2. \A q \in Resources : lazy'[q] = IF q = p THEN x ELSE lazy[q]
  OBVIOUS
<1>3. \A q \in { PayloadOf[v] : v \in Versions } :
        TablesOf(q)' = IF q = p THEN TablesIn(x) ELSE TablesOf(q)
  BY <1>1, <1>2, GoodEntries
<1> QED
  BY <1>3 DEF Tables

(* Before a call knows its version.                                        *)
LEMMA InitializeSimulated ==
  ASSUME ~BadManifest, RInv, NEW t \in Threads, Initialize(t)
  PROVE  UNCHANGED Registry!vars
<1>1. /\ UNCHANGED <<lazy, typeInfoCache, op, arg, outcome>>
  BY NothingRejected DEF Initialize, CheckInitialized, EnterInitLock, MapResources,
     AddEntry, SetVersions, SetLatest, SetInitialized, caches, locals, objects
<1>2. Tables' = Tables
  BY <1>1, TablesKept
<1>3. Asked' = Asked
  BY <1>1 DEF Asked
<1> QED
  BY <1>1, <1>2, <1>3, RegistryWaits

LEMMA CallSimulated ==
  ASSUME ~BadManifest, RInv, NEW t \in Threads,
         CallLoadTypeInfos(t) \/ CallGetLatestVersion(t)
  PROVE  Registry!Next
<1>1. /\ op \in [Threads -> {"load", "latest"}] /\ arg \in [Threads -> Int]
  BY DEF RInv, IInv, TypeOK, ThreadsTypeOK
<1>2. PICK n, kind : /\ Call(t, kind, n)
                     /\ \/ kind = "load" /\ n \in Requests
                        \/ kind = "latest"
  BY DEF CallLoadTypeInfos, CallGetLatestVersion
<1>3. /\ UNCHANGED <<lazy, typeInfoCache>>
      /\ op' = [op EXCEPT ![t] = kind] /\ arg' = [arg EXCEPT ![t] = n]
      /\ outcome' = [outcome EXCEPT ![t] = Idle]
  BY <1>2 DEF Call, caches
<1> DEFINE asks == IF kind = "latest" THEN Greatest(Versions) ELSE n
<1>4. Asked' = [Asked EXCEPT ![t] = asks]
  BY <1>1, <1>3 DEF Asked
<1>5. asks \in Requests \union {Greatest(Versions)}
  BY <1>2
<1>6. Tables' = Tables
  BY <1>3, TablesKept
<1> HIDE DEF asks
<1> QED
  BY <1>3, <1>4, <1>5, <1>6, RegistryAsks

(* GetLatestVersion has asked for what it reads.                           *)
LEMMA ReadLatestSimulated ==
  ASSUME ~BadManifest, RInv, NEW t \in Threads, ReadLatest(t)
  PROVE  UNCHANGED Registry!vars
<1>1. /\ op \in [Threads -> {"load", "latest"}] /\ arg \in [Threads -> Int]
      /\ op[t] = "latest" /\ latest = Greatest(Versions)
  BY DEF RInv, IInv, TypeOK, ThreadsTypeOK, CallInv, ThreadInv, LoopInv, ReadLatest, Goto
<1>2. /\ UNCHANGED <<lazy, typeInfoCache, outcome>>
      /\ op' = [op EXCEPT ![t] = "load"] /\ arg' = [arg EXCEPT ![t] = latest]
  BY DEF ReadLatest, caches
<1>3. Asked' = Asked
  BY <1>1, <1>2 DEF Asked
<1> QED
  BY <1>2, <1>3, TablesKept, RegistryWaits

(* What a call that knows its version has asked.                           *)
LEMMA CallAsked ==
  ASSUME ~BadManifest, RInv, NEW t \in Threads,
         pc[t] \in {"resolve"} \union KnowsVersionPcs
  PROVE  /\ Asked[t] = arg[t] /\ arg[t] \in Int /\ outcome[t] = Idle
         /\ protocolVersions = Versions
         /\ pc[t] \in KnowsVersionPcs =>
              /\ usedVersion[t] \in Versions /\ usedVersion[t] = Floor(Asked[t])
              /\ usedVersion[t] <= Asked[t]
              /\ Payload(t) = PayloadOf[usedVersion[t]] /\ Payload(t) \in Resources
<1>1. /\ op[t] = "load" /\ outcome[t] = Idle
      /\ pc[t] \in KnowsVersionPcs => usedVersion[t] <= arg[t]
  BY DEF RInv, CallInv, KnowsVersionPcs, FactoryPcs
<1>2. Asked[t] = arg[t] /\ arg[t] \in Int
  BY <1>1 DEF Asked, RInv, IInv, TypeOK, ThreadsTypeOK
<1>3. protocolVersions = Versions
  BY DEF RInv, IInv, ThreadInv, LoopInv
<1>4. pc[t] \in KnowsVersionPcs =>
        /\ usedVersion[t] \in Versions /\ usedVersion[t] = Floor(arg[t])
        /\ Payload(t) = PayloadOf[usedVersion[t]] /\ Payload(t) \in Resources
  BY PayloadFacts DEF RInv, IInv, ThreadInv
<1> QED
  BY <1>1, <1>2, <1>3, <1>4

(* A call is answered from the cache.                                      *)
LEMMA HitSimulated ==
  ASSUME ~BadManifest, RInv, NEW t \in Threads, LookupHit(t) \/ RecheckHit(t)
  PROVE  Registry!Next
<1> DEFINE v == usedVersion[t]
<1>1. /\ pc[t] \in KnowsVersionPcs /\ typeInfoCache[v] # Nil
      /\ UNCHANGED <<lazy, typeInfoCache, op, arg>>
      /\ outcome' = [outcome EXCEPT ![t] = Returned(typeInfoCache[v])]
  BY DEF LookupHit, RecheckHit, End, Goto, KnowsVersionPcs, caches
<1>2. /\ v \in Versions /\ Asked[t] \in Int /\ v = Floor(Asked[t])
      /\ v <= Asked[t] /\ outcome[t] = Idle
  BY <1>1, CallAsked
<1>3. Tables[PayloadOf[v]] \notin {Nil, Failed}
  <2> DEFINE o == lazy[PayloadOf[v]].object
  <2>1. /\ lazy[PayloadOf[v]] \in Lazies /\ lazy[PayloadOf[v]].state = "value"
        /\ o \in Objects /\ nextId \in Nat
    BY <1>1, <1>2, CachedVersion DEF RInv, IInv, TypeOK, CachesTypeOK
  <2>2. Tables[PayloadOf[v]] = o.tables
    BY <1>2, <2>1, TablesAre DEF TablesIn
  <2>3. o.tables \in Int
    BY <2>1 DEF Objects, Ids
  <2> HIDE DEF o, v
  <2> QED
    BY <2>2, <2>3, FailedAssumption, ConstantsAssumption DEF ConstantsAssumption
<1>4. typeInfoCache' = [typeInfoCache EXCEPT ![v] = typeInfoCache'[v]]
  BY <1>1 DEF RInv, IInv, TypeOK, CachesTypeOK
<1>5. Tables' = Tables /\ Asked' = Asked
  BY <1>1, TablesKept DEF Asked
<1> HIDE DEF v
<1> QED
  BY <1>1, <1>2, <1>3, <1>4, <1>5, RegistryAnswers

(* Or from its payload, with a new object.                                 *)
LEMMA CacheSimulated ==
  ASSUME ~BadManifest, RInv, NEW t \in Threads, CacheVersion(t)
  PROVE  Registry!Next
<1> DEFINE v == usedVersion[t]
           o == VersionObject(t)
<1>1. /\ pc[t] \in KnowsVersionPcs /\ typeInfoCache[v] = Nil
      /\ UNCHANGED <<lazy, op, arg>>
      /\ outcome' = [outcome EXCEPT ![t] = Returned(o)]
  BY DEF CacheVersion, End, Goto, KnowsVersionPcs
<1>2. /\ v \in Versions /\ Asked[t] \in Int /\ v = Floor(Asked[t])
      /\ v <= Asked[t] /\ outcome[t] = Idle /\ PayloadOf[v] \in Resources
  BY <1>1, CallAsked
<1>3. /\ typeInfoCache' = [typeInfoCache EXCEPT ![v] = o] /\ typeInfoCache'[v] = o
      /\ o # Nil /\ o.version = v /\ o.tables = lazy[PayloadOf[v]].object.tables
      /\ lazy[PayloadOf[v]].state = "value"
      /\ \A w \in Versions : typeInfoCache[w] # Nil => typeInfoCache[w].id # o.id
  BY CachedObject DEF RInv
<1>4. Tables[PayloadOf[v]] = o.tables /\ o.tables \in Int
  <2> DEFINE b == lazy[PayloadOf[v]].object
  <2>1. b \in Objects /\ nextId \in Nat
    BY <1>2, <1>3, LazyObject DEF RInv, IInv, TypeOK, CachesTypeOK
  <2>2. b.tables \in Int
    BY <2>1 DEF Objects, Ids
  <2>3. TablesIn(lazy[PayloadOf[v]]) = b.tables
    BY <1>3 DEF TablesIn
  <2> HIDE DEF o, v
  <2> QED
    BY <1>2, <1>3, <2>2, <2>3, TablesAre
<1> HIDE DEF v, o
<1>5. Tables[PayloadOf[v]] \notin {Nil, Failed}
  BY <1>4, FailedAssumption, ConstantsAssumption DEF ConstantsAssumption
<1>6. Tables' = Tables /\ Asked' = Asked
  BY <1>1, TablesKept DEF Asked
<1> QED
  BY <1>1, <1>2, <1>3, <1>4, <1>5, <1>6, RegistryAnswers

(* A call that is refused: no version is near, or its payload failed.      *)
LEMMA RefusalSimulated ==
  ASSUME ~BadManifest, RInv, NEW t \in Threads,
         ResolveFails(t) \/ RethrowCached(t) \/ FactoryThrows(t)
  PROVE  Registry!Next
<1>1. CASE ResolveFails(t)
  <2>1. /\ pc[t] = "resolve" /\ AtMost(arg[t]) = {}
        /\ UNCHANGED <<lazy, typeInfoCache, op, arg>>
        /\ outcome' = [outcome EXCEPT ![t] = Threw("DecodeException")]
    BY <1>1 DEF ResolveFails, End, Goto, caches
  <2>2. /\ Asked[t] = arg[t] /\ Asked[t] \in Int /\ outcome[t] = Idle
        /\ protocolVersions = Versions
    BY <2>1, CallAsked
  <2>3. { v \in Versions : v <= Asked[t] } = {}
    BY <2>1, <2>2 DEF AtMost
  <2>4. Tables' = Tables /\ Asked' = Asked
    BY <2>1, TablesKept DEF Asked
  <2> QED
    BY <2>1, <2>2, <2>3, <2>4, RegistryRefuses
<1>2. CASE RethrowCached(t) \/ FactoryThrows(t)
  <2> DEFINE v == usedVersion[t]
  <2>1. /\ pc[t] \in KnowsVersionPcs /\ UNCHANGED <<typeInfoCache, op, arg>>
        /\ outcome' = [outcome EXCEPT ![t] = Threw("FactoryException")]
    BY <1>2 DEF RethrowCached, FactoryThrows, End, Goto, KnowsVersionPcs, FactoryPcs, caches
  <2>2. /\ Asked[t] \in Int /\ outcome[t] = Idle /\ v \in Versions
        /\ v = Floor(Asked[t]) /\ v <= Asked[t]
        /\ Payload(t) = PayloadOf[v] /\ Payload(t) \in Resources
    BY <2>1, CallAsked
  <2>3. lazy \in [Resources -> Lazies]
    BY DEF RInv, IInv, TypeOK, CachesTypeOK
  <2>4. /\ lazy[Payload(t)] = LazyFailed \/ lazy[Payload(t)] = LazyRunning(t)
        /\ lazy' = [lazy EXCEPT ![Payload(t)] = LazyFailed]
    BY <1>2, <2>2, <2>3
       DEF RethrowCached, FactoryThrows, End, Goto, FactoryPcs, RInv, IInv, RunningInv, caches
  <2>5. Tables[PayloadOf[v]] \in {Nil, Failed}
    BY <2>2, <2>4, TablesAre, TablesInFacts
  <2>6. Tables' = [Tables EXCEPT ![PayloadOf[v]] = Failed]
    BY <2>2, <2>3, <2>4, TablesSet, TablesInFacts
  <2>7. Asked' = Asked
    BY <2>1 DEF Asked
  <2> HIDE DEF v
  <2> QED
    BY <2>1, <2>2, <2>5, <2>6, <2>7, RegistryRefuses
<1> QED
  BY <1>1, <1>2

(* The Lazy of a payload has its value.                                    *)
LEMMA PublishSimulated ==
  ASSUME ~BadManifest, RInv, NEW t \in Threads, PublishValue(t)
  PROVE  Registry!Next
<1> DEFINE p == Payload(t)
           k == loaded[t].tables
<1>1. /\ pc[t] = "publish" /\ pc[t] \in KnowsVersionPcs /\ pc[t] \in FactoryPcs
      /\ UNCHANGED <<typeInfoCache, op, arg, outcome>>
      /\ lazy' = [lazy EXCEPT ![p] = LazyValue(loaded[t])]
  BY DEF PublishValue, Goto, KnowsVersionPcs, FactoryPcs, locals
<1>2. usedVersion[t] \in Versions /\ p = PayloadOf[usedVersion[t]] /\ p \in Resources
  BY <1>1, CallAsked
<1>3. /\ lazy \in [Resources -> Lazies] /\ loaded[t] \in Objects /\ nextId \in Nat
      /\ lazy[p] = LazyRunning(t)
  BY <1>1 DEF RInv, IInv, TypeOK, CachesTypeOK, ThreadsTypeOK, FactoryInv, RunningInv
<1>4. k \in Ids /\ k \in Int
  BY <1>3 DEF Objects, Ids
<1>5. Tables[p] = Nil
  BY <1>2, <1>3, TablesAre, TablesInFacts
<1>6. Tables' = [Tables EXCEPT ![p] = k]
  <2>1. TablesIn(LazyValue(loaded[t])) = k
    BY TablesInFacts
  <2>2. Tables' = [Tables EXCEPT ![p] = TablesIn(LazyValue(loaded[t]))]
    BY <1>1, <1>2, <1>3, TablesSet
  <2> QED
    BY <2>1, <2>2
<1>7. ASSUME NEW v \in Versions, Tables[PayloadOf[v]] = k PROVE FALSE
  <2> DEFINE q == PayloadOf[v]
  <2>1. q \in Resources /\ lazy[q] \in Lazies /\ TablesIn(lazy[q]) = k
    BY <1>3, <1>7, GoodEntries, TablesAre
  <2>2. k # Nil /\ k # Failed
    BY <1>4, FailedAssumption, ConstantsAssumption DEF ConstantsAssumption
  <2>3. lazy[q].state = "value" /\ lazy[q].object.tables = k
    BY <2>1, <2>2 DEF TablesIn
  <2>4. HasTables(q, k) /\ HasTables(p, k)
    BY <1>1, <2>3 DEF HasTables
  <2>5. q = p
    BY <1>2, <1>4, <2>1, <2>4 DEF RInv, IInv, TablesInv
  <2> QED
    BY <1>3, <2>3, <2>5, LazyFacts
<1> HIDE DEF p, k
<1>8. p \in { PayloadOf[v] : v \in Versions } /\ Tables'[p] = k /\ k # Nil
  <2>1. p \in { PayloadOf[v] : v \in Versions }
    BY <1>2
  <2>2. DOMAIN Tables = { PayloadOf[v] : v \in Versions }
    BY DEF Tables
  <2> QED
    BY <1>4, <1>6, <2>1, <2>2, ConstantsAssumption DEF ConstantsAssumption, Tables
<1>9. Asked' = Asked
  BY <1>1 DEF Asked
<1>10. \A q \in { PayloadOf[v] : v \in Versions } : Tables[q] # Tables'[p]
  BY <1>7, <1>8
<1> QED
  BY <1>1, <1>5, <1>6, <1>8, <1>9, <1>10, RegistryLoads

(* Everything else is hidden from the callers.                             *)
LEMMA HiddenSimulated ==
  ASSUME ~BadManifest, RInv, NEW t \in Threads,
         \/ Resolve(t) \/ LookupMiss(t) \/ GetOrAddLazy(t) \/ StartFactory(t)
         \/ LoadResourceContent(t) \/ BuildDecoderMetadata(t) \/ ReadValue(t)
  PROVE  UNCHANGED Registry!vars
<1>1. UNCHANGED <<typeInfoCache, op, arg, outcome>>
  BY DEF Resolve, LookupMiss, GetOrAddLazy, StartFactory, LoadResourceContent,
     BuildDecoderMetadata, ReadValue, caches, locals
<1>2. lazy \in [Resources -> Lazies]
  BY DEF RInv, IInv, TypeOK, CachesTypeOK
<1>3. \A p \in Resources : TablesIn(lazy'[p]) = TablesIn(lazy[p])
  <2>1. CASE GetOrAddLazy(t)
    <3>1. \/ lazy' = lazy
          \/ /\ lazy[Payload(t)] = NoLazy
             /\ lazy' = [lazy EXCEPT ![Payload(t)] = LazyCreated]
      BY <2>1 DEF GetOrAddLazy
    <3> QED
      BY <1>2, <3>1, TablesInFacts
  <2>2. CASE StartFactory(t)
    <3>1. /\ lazy[Payload(t)] = LazyCreated
          /\ lazy' = [lazy EXCEPT ![Payload(t)] = LazyRunning(t)]
      BY <2>2 DEF StartFactory
    <3> QED
      BY <1>2, <3>1, TablesInFacts
  <2>3. CASE ~ (GetOrAddLazy(t) \/ StartFactory(t))
    <3>1. lazy' = lazy
      BY <2>3 DEF Resolve, LookupMiss, LoadResourceContent, BuildDecoderMetadata,
         ReadValue, caches
    <3> QED
      BY <3>1
  <2> QED
    BY <2>1, <2>2, <2>3
<1>4. Tables' = Tables
  BY <1>3, TablesKept
<1>5. Asked' = Asked
  BY <1>1 DEF Asked
<1> QED
  BY <1>1, <1>4, <1>5, RegistryWaits

LEMMA RegistryInit ==
  ASSUME ~BadManifest, Init
  PROVE  Registry!Init
<1>1. ASSUME NEW v \in Versions PROVE TablesOf(PayloadOf[v]) = Nil
  <2>1. PayloadOf[v] \in Resources
    BY GoodEntries
  <2>2. lazy[PayloadOf[v]] = NoLazy
    BY <2>1 DEF Init
  <2>3. TablesOf(PayloadOf[v]) = TablesIn(lazy[PayloadOf[v]])
    BY DEF TablesOf, TablesIn
  <2> QED
    BY <2>2, <2>3, TablesInFacts
<1> QED
  BY <1>1 DEF Init, Registry!Init, Registry!Payloads, Registry!Pending, Idle

LEMMA RegistryNext ==
  ASSUME ~BadManifest, RInv, [Next]_vars
  PROVE  [Registry!Next]_(Registry!vars)
<1>1. ASSUME NEW t \in Threads, CallLoadTypeInfos(t) \/ CallGetLatestVersion(t)
      PROVE  Registry!Next
  BY <1>1, CallSimulated
<1>2. ASSUME NEW t \in Threads, Initialize(t) PROVE UNCHANGED Registry!vars
  BY <1>2, InitializeSimulated
<1>3. ASSUME NEW t \in Threads, LoadTypeInfos(t)
      PROVE  Registry!Next \/ UNCHANGED Registry!vars
  BY <1>3, ReadLatestSimulated, HitSimulated, CacheSimulated, RefusalSimulated,
     PublishSimulated, HiddenSimulated DEF LoadTypeInfos
<1>4. CASE UNCHANGED vars
  <2>1. UNCHANGED <<lazy, typeInfoCache, op, arg, outcome>>
    BY <1>4 DEF vars, caches, locals
  <2>2. Tables' = Tables
    BY <2>1, TablesKept
  <2>3. Asked' = Asked
    BY <2>1 DEF Asked
  <2> QED
    BY <2>1, <2>2, <2>3, RegistryWaits
<1> QED
  BY <1>1, <1>2, <1>3, <1>4 DEF Next, Step

(* The loader, given a manifest it accepts, is the registry its callers    *)
(* may take it for: of all its locks, dictionaries, rechecks and Lazy      *)
(* objects nothing shows, in whatever order its threads run.               *)
THEOREM RegistryImplemented ==
  ASSUME ~BadManifest
  PROVE  Spec => RegistrySpec
<1>1. Init => Registry!Init
  BY RegistryInit
<1>2. Init => RInv
  BY RInvInit
<1>3. RInv /\ [Next]_vars => RInv'
  BY RInvNext
<1>4. RInv /\ [Next]_vars => [Registry!Next]_(Registry!vars)
  BY RegistryNext
<1> QED
  BY <1>1, <1>2, <1>3, <1>4, PTL DEF Spec, RegistrySpec, Registry!Spec

=============================================================================
