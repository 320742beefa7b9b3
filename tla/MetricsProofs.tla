--------------------------- MODULE MetricsProofs ----------------------------
(***************************************************************************)
(* Proofs about what is made of metric samples: PromExporter, which        *)
(* exposes those that clients send, and CheckSampling, which aggregates    *)
(* those of the checks.                                                    *)
(***************************************************************************)
EXTENDS CheckSampling, PromExporter, FiniteSetTheorems, WellFoundedInduction,
        TLAPS

-----------------------------------------------------------------------------
(***************************************************************************)
(* PromExporter, for every set of samples: any names, types and label      *)
(* names, repeated ones included, and any number of collectors.            *)
(***************************************************************************)
\* What a cache entry, a slot of the registry and a slot in hand may hold.
LEMMA AtMostOne ==
  /\ Cardinality({}) <= 1
  /\ \A x : Cardinality({x}) <= 1
  BY FS_EmptySet, FS_Singleton

\* The key of a sample tells its name and its label names.
LEMMA KeyParts ==
  ASSUME NEW s \in Samples
  PROVE  /\ GenerateKey(s) \in Keys /\ s.name \in Names
         /\ NameOf(GenerateKey(s)) = s.name
         /\ LabelsOf(GenerateKey(s)) = LabelNames(s)
  BY DEF GenerateKey, Keys, Names, NameOf, LabelsOf

\* Every key is the key of some sample, so that its name is a name.
LEMMA KeyNames ==
  ASSUME NEW k \in Keys
  PROVE  NameOf(k) \in Names
  <1>1. PICK s \in Samples : k = GenerateKey(s)
    BY DEF Keys
  <1> QED BY <1>1, KeyParts

\* A collector has the name of some sample.
LEMMA CollectorParts ==
  ASSUME NEW c \in Collectors
  PROVE  c.name \in Names
  BY DEF Collectors, Names

\* The collector created for a sample, while the bound allows one more.
LEMMA NewCollectorParts ==
  ASSUME NEW s \in Samples, serial \in 0..MaxSerial, serial < MaxSerial
  PROVE  /\ NewCollector(s) \in Collectors
         /\ NewCollector(s).name = s.name
         /\ NewCollector(s).labels = LabelNames(s)
         /\ serial + 1 \in 0..MaxSerial
  BY ExporterAssumption DEF ExporterAssumption, NewCollector, Collectors

\* A sequence with nothing twice is as long as it has elements, so that two of
\* them with the same elements are of the same length.
LEMMA AsLongAsElements ==
  ASSUME NEW p, Len(p) \in Nat, ~OneTwice(p)
  PROVE  Cardinality(Elements(p)) = Len(p)
  <1> DEFINE at == [i \in 1..Len(p) |-> p[i]]
  <1>1. at \in Bijection(1..Len(p), Elements(p))
    <2>1. at \in [1..Len(p) -> Elements(p)]
      BY DEF Elements
    <2>2. \A i, j \in 1..Len(p) : at[i] = at[j] => i = j
      BY DEF OneTwice
    <2>3. \A e \in Elements(p) : \E i \in 1..Len(p) : at[i] = e
      BY DEF Elements
    <2> HIDE DEF at
    <2>4. at \in Injection(1..Len(p), Elements(p))
      BY <2>1, <2>2 DEF Injection, IsInjective
    <2>5. at \in Surjection(1..Len(p), Elements(p))
      BY <2>1, <2>3 DEF Surjection
    <2> QED BY <2>4, <2>5 DEF Bijection
  <1>2. IsFiniteSet(1..Len(p)) /\ Cardinality(1..Len(p)) = Len(p)
    BY FS_Interval
  <1> HIDE DEF at
  <1>3. ExistsBijection(1..Len(p), Elements(p))
    BY <1>1 DEF ExistsBijection
  <1> QED BY <1>2, <1>3, FS_Bijection

\* The label names of a sample are a sequence.
LEMMA LabelsLength ==
  ASSUME NEW s \in Samples
  PROVE  Len(LabelNames(s)) \in Nat
  <1>1. s.tags \in Seq(TagNames)
    BY ExporterAssumption DEF ExporterAssumption
  <1> QED BY <1>1 DEF LabelNames

\* A collector has the labels of some sample.
LEMMA CollectorLabels ==
  ASSUME NEW c \in Collectors
  PROVE  Len(c.labels) \in Nat
  <1>1. PICK s \in Samples : c.labels = LabelNames(s)
    BY DEF Collectors
  <1> QED BY <1>1, LabelsLength

\* Nothing is cached and nothing is registered.
LEMMA ExporterInitIInv == ExporterInit => ExporterIInv
  <1> SUFFICES ASSUME ExporterInit PROVE ExporterIInv
    OBVIOUS
  <1>1. ExporterTypeOK
    BY AtMostOne, ExporterAssumption DEF ExporterAssumption, ExporterInit,
           ExporterTypeOK
  <1>2. ExposedUnlessExpired /\ NoneLeftRegistered
    BY KeyNames DEF ExporterInit, ExposedUnlessExpired, NoneLeftRegistered
  <1>3. WellKeyed /\ LoadedExposed
    BY DEF ExporterInit, WellKeyed, LoadedExposed
  <1> QED BY <1>1, <1>2, <1>3 DEF ExporterIInv, RegistryFollowsCache

\* A miss, and a sample the registry refuses, leave cache and registry alone.
LEMMA LookupIInv ==
  ASSUME ExporterIInv, NEW s \in Samples, Miss(s) \/ LoadFails(s)
  PROVE  ExporterIInv'
  <1> USE DEF ExporterIInv, RegistryFollowsCache
  <1>1. /\ UNCHANGED <<cache, registered, dims, removals, loaded, serial, tainted>>
        /\ exporting' \in {{}, {s}} /\ loaded = {}
    BY DEF Miss, LoadFails, WellKeyed
  <1>2. ExporterTypeOK'
    BY <1>1, AtMostOne DEF ExporterTypeOK
  <1>3. ExposedUnlessExpired' /\ NoneLeftRegistered'
    BY <1>1 DEF ExposedUnlessExpired, NoneLeftRegistered, InUse
  <1>4. WellKeyed' /\ LoadedExposed'
    BY <1>1 DEF WellKeyed, LoadedExposed
  <1> QED BY <1>2, <1>3, <1>4

\* A name without a collector has no cached one either, unless it is tainted.
LEMMA RegisterIInv ==
  ASSUME ExporterIInv, NEW s \in Samples, Register(s)
  PROVE  ExporterIInv'
  <1> USE DEF ExporterIInv, RegistryFollowsCache
  <1>1. s.name \in Names
    BY KeyParts
  <1>2. /\ NewCollector(s) \in Collectors
        /\ NewCollector(s).name = s.name
        /\ NewCollector(s).labels = LabelNames(s)
        /\ serial' \in 0..MaxSerial
    BY NewCollectorParts DEF Register, ExporterTypeOK
  <1>3. /\ exporting = {s} /\ registered[s.name] = {}
        /\ loaded = {} /\ loaded' = {NewCollector(s)}
        /\ registered' = [registered EXCEPT ![s.name] = {NewCollector(s)}]
        /\ dims' = [dims EXCEPT ![s.name] = {LabelSet(s)}]
        /\ UNCHANGED <<cache, removals, exporting, tainted>>
    BY DEF Register
  <1>4. /\ registered' \in [Names -> SUBSET Collectors]
        /\ dims' \in [Names -> SUBSET {LabelSet(r) : r \in Samples}]
    BY <1>1, <1>2, <1>3 DEF ExporterTypeOK
  <1>5. \A n \in Names :
          /\ Cardinality(registered'[n]) <= 1 /\ Cardinality(dims'[n]) <= 1
          /\ \A c \in registered'[n] : c.name = n /\ Elements(c.labels) \in dims'[n]
    <2> TAKE n \in Names
    <2>1. CASE n = s.name
      BY <1>1, <1>2, <1>3, <2>1, AtMostOne DEF ExporterTypeOK, LabelSet
    <2>2. CASE n # s.name
      BY <1>1, <1>3, <2>2 DEF ExporterTypeOK
    <2> QED BY <2>1, <2>2
  <1>6. ExporterTypeOK'
    BY <1>2, <1>3, <1>4, <1>5, AtMostOne DEF ExporterTypeOK
  <1>7. ExposedUnlessExpired'
    <2> SUFFICES ASSUME NEW k \in Keys, NameOf(k) \notin tainted
                 PROVE  cache[k] \subseteq registered'[NameOf(k)]
      BY <1>3 DEF ExposedUnlessExpired
    <2>1. cache[k] \subseteq registered[NameOf(k)] /\ NameOf(k) \in Names
      BY KeyNames DEF ExposedUnlessExpired
    <2>2. CASE NameOf(k) = s.name
      BY <1>3, <2>1, <2>2
    <2>3. CASE NameOf(k) # s.name
      BY <1>3, <2>1, <2>3 DEF ExporterTypeOK
    <2> QED BY <2>2, <2>3
  <1>8. NoneLeftRegistered'
    <2> SUFFICES ASSUME NEW n \in Names, registered'[n] # {}
                 PROVE  InUse(n, cache, loaded, removals)'
      BY DEF NoneLeftRegistered
    <2>1. CASE n = s.name
      BY <1>2, <1>3, <2>1 DEF InUse
    <2>2. CASE n # s.name
      <3>1. registered[n] # {}
        BY <1>1, <1>3, <2>2 DEF ExporterTypeOK
      <3> QED BY <1>3, <3>1 DEF NoneLeftRegistered, InUse
    <2> QED BY <2>1, <2>2
  <1>9. WellKeyed'
    <2>1. SameLabels(NewCollector(s).labels, LabelNames(s))
      BY <1>2 DEF SameLabels
    <2>2. ~OneTwice(NewCollector(s).labels)
      BY <1>2 DEF Register, Refused
    <2>3. \A n \in Names : \A c \in registered'[n] : ~OneTwice(c.labels)
      BY <1>1, <1>3, <2>2 DEF WellKeyed, ExporterTypeOK
    <2> QED BY <1>2, <1>3, <2>1, <2>3 DEF WellKeyed
  <1>10. LoadedExposed'
    BY <1>1, <1>2, <1>3 DEF LoadedExposed, ExporterTypeOK
  <1> QED BY <1>6, <1>7, <1>8, <1>9, <1>10

\* The collector that is there already has the labels the name has had, and
\* those are the sample's: the registry refuses others.
LEMMA ReuseIInv ==
  ASSUME ExporterIInv, NEW s \in Samples, AlreadyRegistered(s)
  PROVE  ExporterIInv'
  <1> USE DEF ExporterIInv, RegistryFollowsCache
  <1>1. s.name \in Names /\ serial + 1 \in 0..MaxSerial
    BY KeyParts, NewCollectorParts
       DEF AlreadyRegistered, AlreadyRegisteredAs, ExporterTypeOK
  <1>2. /\ exporting = {s} /\ ~Refused(s)
        /\ loaded' = registered[s.name] /\ serial' = serial + 1
        /\ UNCHANGED <<cache, registered, dims, removals, exporting, tainted>>
    BY DEF AlreadyRegistered, AlreadyRegisteredAs
  <1>3. ASSUME NEW c \in loaded'
        PROVE  /\ c \in Collectors /\ c.name = s.name
               /\ SameLabels(c.labels, LabelNames(s))
    <2>1. c \in Collectors /\ c.name = s.name
      BY <1>1, <1>2, <1>3 DEF ExporterTypeOK
    <2>2. Elements(c.labels) = Elements(LabelNames(s))
      BY <1>1, <1>2, <1>3 DEF ExporterTypeOK, Refused, LabelSet
    <2>3. ~OneTwice(c.labels) /\ ~OneTwice(LabelNames(s))
      BY <1>1, <1>2, <1>3 DEF WellKeyed, Refused
    <2>4. Len(c.labels) = Len(LabelNames(s))
      BY <2>1, <2>2, <2>3, AsLongAsElements, LabelsLength, CollectorLabels
    <2> QED BY <2>1, <2>2, <2>4 DEF SameLabels
  <1>4. ExporterTypeOK'
    BY <1>1, <1>2, <1>3 DEF ExporterTypeOK
  <1>5. ExposedUnlessExpired' /\ NoneLeftRegistered'
    <2>1. \A n \in Names : n # s.name => \A c \in loaded : c.name # n
      BY <1>2 DEF WellKeyed
    <2>2. registered[s.name] # {}
      BY DEF AlreadyRegistered, AlreadyRegisteredAs
    <2> QED BY <1>1, <1>2, <1>3, <2>1, <2>2
            DEF ExposedUnlessExpired, NoneLeftRegistered, InUse
  <1>6. WellKeyed' /\ LoadedExposed'
    BY <1>2, <1>3 DEF WellKeyed, LoadedExposed
  <1> QED BY <1>4, <1>5, <1>6

\* The collector in hand becomes the entry of the sample's key.
LEMMA PutIInv ==
  ASSUME ExporterIInv, NEW s \in Samples, Put(s)
  PROVE  ExporterIInv'
  <1> USE DEF ExporterIInv, RegistryFollowsCache
  <1> DEFINE key == GenerateKey(s)
  <1>1. /\ key \in Keys /\ s.name \in Names
        /\ NameOf(key) = s.name /\ LabelsOf(key) = LabelNames(s)
    BY KeyParts
  <1> HIDE DEF key
  <1>2. /\ exporting = {s} /\ loaded # {}
        /\ cache' = [cache EXCEPT ![key] = loaded]
        /\ exporting' = {} /\ loaded' = {}
        /\ UNCHANGED <<registered, dims, removals, serial, tainted>>
    BY DEF Put, key
  <1>3. \A c \in loaded : c.name = s.name /\ SameLabels(c.labels, LabelNames(s))
    BY <1>2 DEF WellKeyed
  <1>4. ExporterTypeOK'
    BY <1>1, <1>2, AtMostOne DEF ExporterTypeOK
  <1>5. ExposedUnlessExpired'
    BY <1>1, <1>2, <1>3 DEF ExporterTypeOK, ExposedUnlessExpired, LoadedExposed
  <1>6. NoneLeftRegistered'
    <2> SUFFICES ASSUME NEW n \in Names, registered[n] # {}
                 PROVE  InUse(n, cache, loaded, removals)'
      BY <1>2 DEF NoneLeftRegistered
    <2>1. InUse(n, cache, loaded, removals)
      BY DEF NoneLeftRegistered
    <2> QED BY <1>1, <1>2, <1>3, <2>1 DEF InUse, ExporterTypeOK
  <1>7. WellKeyed'
    BY <1>1, <1>2, <1>3 DEF WellKeyed, ExporterTypeOK
  <1>8. LoadedExposed'
    BY <1>2 DEF LoadedExposed
  <1> QED BY <1>4, <1>5, <1>6, <1>7, <1>8

\* An entry that expires taints its name and is still in use as a removal.
LEMMA ExpireIInv ==
  ASSUME ExporterIInv, NEW k \in Keys, Expire(k)
  PROVE  ExporterIInv'
  <1> USE DEF ExporterIInv, RegistryFollowsCache
  <1>1. /\ cache' = [cache EXCEPT ![k] = {}]
        /\ removals' = [c \in Collectors |-> removals[c] + IF c \in cache[k] THEN 1 ELSE 0]
        /\ tainted' = tainted \cup {NameOf(k)}
        /\ UNCHANGED <<registered, dims, exporting, loaded, serial>>
    BY DEF Expire
  <1>2. \A c \in cache[k] : c.name = NameOf(k)
    BY DEF WellKeyed
  <1>3. ExporterTypeOK'
    BY <1>1, KeyNames, AtMostOne DEF ExporterTypeOK
  <1>4. ExposedUnlessExpired'
    BY <1>1 DEF ExporterTypeOK, ExposedUnlessExpired
  <1>5. NoneLeftRegistered'
    <2> SUFFICES ASSUME NEW n \in Names, registered[n] # {}
                 PROVE  InUse(n, cache, loaded, removals)'
      BY <1>1 DEF NoneLeftRegistered
    <2>1. InUse(n, cache, loaded, removals)
      BY DEF NoneLeftRegistered
    <2> QED BY <1>1, <1>2, <2>1 DEF InUse, ExporterTypeOK
  <1>6. WellKeyed'
    BY <1>1 DEF WellKeyed, ExporterTypeOK
  <1>7. LoadedExposed'
    <2>1. \A c \in Collectors : removals'[c] > 0 => removals[c] > 0 \/ c \in cache[k]
      BY <1>1 DEF ExporterTypeOK
    <2>2. \A c \in Collectors : removals'[c] > 0 => c.name \in tainted'
      BY <1>1, <1>2, <2>1 DEF LoadedExposed
    <2> QED BY <1>1, <2>2 DEF LoadedExposed
  <1> QED BY <1>3, <1>4, <1>5, <1>6, <1>7

\* A name is unregistered while it is tainted, and stops being tainted only
\* when nothing of it is left.
LEMMA RemovalIInv ==
  ASSUME ExporterIInv, NEW r \in Collectors, onRemoval(r)
  PROVE  ExporterIInv'
  <1> USE DEF ExporterIInv, RegistryFollowsCache
  <1>1. /\ removals[r] > 0 /\ removals' = [removals EXCEPT ![r] = removals[r] - 1]
        /\ registered' = [registered EXCEPT ![r.name] = {}]
        /\ tainted' = {n \in tainted : InUse(n, cache, loaded, removals')}
        /\ UNCHANGED <<cache, dims, exporting, loaded, serial>>
    BY DEF onRemoval
  <1>2. r.name \in Names /\ r.name \in tainted
    BY <1>1, CollectorParts DEF LoadedExposed
  <1>3. ExporterTypeOK'
    BY <1>1, <1>2, AtMostOne DEF ExporterTypeOK
  <1>4. ExposedUnlessExpired'
    <2> SUFFICES ASSUME NEW k \in Keys, NameOf(k) \notin tainted'
                 PROVE  cache[k] \subseteq registered'[NameOf(k)]
      BY <1>1 DEF ExposedUnlessExpired
    <2>1. CASE NameOf(k) \in tainted
      BY <1>1, <2>1 DEF InUse
    <2>2. CASE NameOf(k) \notin tainted
      BY <1>1, <1>2, <2>2, KeyNames DEF ExporterTypeOK, ExposedUnlessExpired
    <2> QED BY <2>1, <2>2
  <1>5. NoneLeftRegistered'
    <2> SUFFICES ASSUME NEW n \in Names, registered'[n] # {}
                 PROVE  InUse(n, cache, loaded, removals)'
      BY DEF NoneLeftRegistered
    <2>1. n # r.name /\ registered[n] # {}
      BY <1>1, <1>2 DEF ExporterTypeOK
    <2> QED BY <1>1, <2>1 DEF NoneLeftRegistered, InUse
  <1>6. WellKeyed'
    BY <1>1 DEF WellKeyed
  <1>7. LoadedExposed'
    <2>1. \A c \in loaded : c.name \in tainted => c.name \in tainted'
      BY <1>1 DEF InUse
    <2>2. \A c \in Collectors : removals'[c] > 0 => c.name \in tainted'
      BY <1>1 DEF InUse, LoadedExposed
    <2> QED BY <1>1, <1>2, <2>1, <2>2, CollectorParts DEF LoadedExposed,
               ExporterTypeOK
  <1> QED BY <1>3, <1>4, <1>5, <1>6, <1>7

\* Every step keeps the inductive invariant.
LEMMA ExporterNextIInv == ExporterIInv /\ [ExporterNext]_exporterVars => ExporterIInv'
  <1> SUFFICES ASSUME ExporterIInv, [ExporterNext]_exporterVars PROVE ExporterIInv'
    OBVIOUS
  <1>1. CASE UNCHANGED exporterVars
    BY <1>1 DEF exporterVars, ExporterIInv, RegistryFollowsCache,
           ExporterTypeOK,
           ExposedUnlessExpired, NoneLeftRegistered, InUse, WellKeyed,
           LoadedExposed
  <1>2. CASE \E s \in Samples : Hit(s)
    BY <1>1, <1>2 DEF Hit
  <1> QED BY <1>1, <1>2, LookupIInv, RegisterIInv, ReuseIInv, PutIInv,
             ExpireIInv, RemovalIInv DEF ExporterNext

\* The inductive invariant holds in every reachable state.
LEMMA Invariance == ExporterSpec => []ExporterIInv
  BY ExporterInitIInv, ExporterNextIInv, PTL DEF ExporterSpec

(***************************************************************************)
(* LabelsSafe: no sample is recorded into a collector with other labels,   *)
(* whatever was registered under its name before and whatever expired, and *)
(* none under labels in another order unless the name comes in both.       *)
(***************************************************************************)
THEOREM LabelsSafe == ExporterSpec => []LabelsAgree
  <1>1. ExporterIInv => LabelsAgree
    <2> SUFFICES ASSUME ExporterIInv, NEW s \in Samples,
                        NEW c \in cache[GenerateKey(s)]
                 PROVE  /\ SameLabels(c.labels, LabelNames(s))
                        /\ OneOrder(s) => c.labels = LabelNames(s)
      BY DEF LabelsAgree
    <2>1. c.name = s.name /\ SameLabels(c.labels, LabelNames(s))
      BY KeyParts DEF ExporterIInv, WellKeyed
    <2>2. c \in Collectors
      BY KeyParts DEF ExporterIInv, RegistryFollowsCache, ExporterTypeOK
    <2>3. PICK q \in Samples : q.name = c.name /\ LabelNames(q) = c.labels
      BY <2>2 DEF Collectors
    <2>4. OneOrder(s) => c.labels = LabelNames(s)
      BY <2>1, <2>3 DEF OneOrder
    <2> QED BY <2>1, <2>4
  <1> QED BY <1>1, Invariance, PTL

(***************************************************************************)
(* RegistryAgrees: the registry and the cache go together, although the    *)
(* removal listener unregisters by name and late.                          *)
(***************************************************************************)
THEOREM RegistryAgrees == ExporterSpec => []RegistryFollowsCache
  <1>1. ExporterIInv => RegistryFollowsCache
    BY DEF ExporterIInv
  <1> QED BY <1>1, Invariance, PTL

-----------------------------------------------------------------------------
(***************************************************************************)
(* CheckSampling, for every set of checks and of raw values, every expiry  *)
(* and granularity, every capacity of the channels and any number of       *)
(* samples, buckets, failed runs and seconds.                              *)
(***************************************************************************)
USE CheckSamplingAssumption DEF CheckSamplingAssumption

-----------------------------------------------------------------------------
(***************************************************************************)
(* Sums of sketches.                                                       *)
(***************************************************************************)

\* A set of natural numbers that is not empty has a least element.
LEMMA LeastNumber ==
  ASSUME NEW T \in SUBSET Nat, T # {}
  PROVE  \E n \in T : \A m \in T : ~(m < n)
  <1> DEFINE less == OpToRel(<, Nat)
  <1>1. IsWellFoundedOn(less, Nat)
    BY NatLessThanWellFounded, Zenon
  <1>2. PICK n \in T : \A m \in T : ~(<<m, n>> \in less)
    <2> HIDE DEF less
    <2> QED BY <1>1, WFMin
  <1>3. ASSUME NEW m \in T, m < n PROVE <<m, n>> \in less
    BY <1>3, Zenon DEF OpToRel
  <1> QED BY <1>2, <1>3

\* Induction: a set of natural numbers that contains 0 and, up to a bound,
\* with a number its successor, contains all numbers up to the bound.
LEMMA InductionUpTo ==
  ASSUME NEW bound \in Nat, NEW T, 0 \in T,
         \A n \in 0..bound : n \in T /\ n # bound => n + 1 \in T
  PROVE  0..bound \subseteq T
  <1> DEFINE missing == {n \in 0..bound : n \notin T}
  <1> SUFFICES ASSUME missing # {} PROVE FALSE
    OBVIOUS
  <1>1. missing \in SUBSET Nat
    OBVIOUS
  <1>2. PICK n \in missing : \A m \in missing : ~(m < n)
    <2> HIDE DEF missing
    <2> QED BY <1>1, LeastNumber
  <1>3. PICK m : m = n - 1
    OBVIOUS
  <1>4. m \in 0..bound /\ m # bound /\ m < n /\ n = m + 1
    BY <1>2, <1>3
  <1>5. m \in T
    BY <1>2, <1>4
  <1> QED BY <1>2, <1>4, <1>5

\* The sums up to each second, as a function that satisfies the equation of
\* valuesBefore.
SumStep(f, g, u) == IF u = 0 THEN 0 ELSE g[u - 1] + f[u - 1]

Sums(f, g, n) == g = [u \in 0..n |-> SumStep(f, g, u)]

\* The equation at a second.
LEMMA SumsAt ==
  ASSUME NEW f, NEW g, NEW n \in Nat, Sums(f, g, n)
  PROVE  /\ g[0] = 0
         /\ \A u \in 1..n : g[u] = g[u - 1] + f[u - 1]
  <1>1. \A u \in 0..n : g[u] = SumStep(f, g, u)
    BY DEF Sums
  <1>2. g[0] = 0
    BY <1>1 DEF SumStep
  <1>3. ASSUME NEW u \in 1..n PROVE g[u] = g[u - 1] + f[u - 1]
    <2>1. u \in 0..n /\ u # 0
      OBVIOUS
    <2> QED BY <1>1, <2>1 DEF SumStep
  <1> QED BY <1>2, <1>3

\* There is such a function.
LEMMA SumsExist ==
  ASSUME NEW n \in Nat, NEW f, \A u \in 0..n : u # n => f[u] \in Nat
  PROVE  \E g \in [0..n -> Nat] : Sums(f, g, n)
  <1> DEFINE done == {m \in 0..n : \E g \in [0..m -> Nat] : Sums(f, g, m)}
  <1>1. 0 \in done
    <2>1. [u \in 0..0 |-> 0] \in [0..0 -> Nat]
      OBVIOUS
    <2>2. Sums(f, [u \in 0..0 |-> 0], 0)
      BY DEF Sums, SumStep
    <2> QED BY <2>1, <2>2
  <1>2. ASSUME NEW m \in 0..n, m \in done, m # n PROVE m + 1 \in done
    <2>1. PICK g \in [0..m -> Nat] : Sums(f, g, m)
      BY <1>2
    <2>2. PICK k : k = m + 1
      OBVIOUS
    <2>3. k \in 1..n /\ k # 0 /\ k - 1 = m /\ f[m] \in Nat /\ g[m] \in Nat
      BY <1>2, <2>2
    <2> DEFINE h == [u \in 0..k |-> IF u = k THEN g[m] + f[m] ELSE g[u]]
    <2>4. h \in [0..k -> Nat]
      BY <2>2, <2>3
    <2>5. ASSUME NEW u \in 0..k PROVE h[u] = SumStep(f, h, u)
      <3>1. CASE u = k
        BY <3>1, <2>3 DEF SumStep
      <3>2. CASE u # k
        <4>1. u \in 0..m
          BY <3>2, <2>2, <2>3
        <4>2. g[u] = SumStep(f, g, u)
          BY <4>1, <2>1 DEF Sums
        <4>3. u # 0 => h[u - 1] = g[u - 1]
          BY <4>1, <2>2
        <4> QED BY <4>1, <4>2, <4>3, <3>2 DEF SumStep
      <3> QED BY <3>1, <3>2
    <2>6. Sums(f, h, k)
      BY <2>4, <2>5 DEF Sums
    <2> HIDE DEF h
    <2>7. k \in done
      BY <2>3, <2>4, <2>6
    <2> QED BY <2>2, <2>7
  <1>3. 0..n \subseteq done
    <2> HIDE DEF done
    <2> QED BY <1>1, <1>2, InductionUpTo
  <1>4. n \in done
    BY <1>3
  <1> QED BY <1>4

\* Two functions that satisfy the equation, the one up to a later second,
\* agree.
LEMMA SumsAgree ==
  ASSUME NEW n \in Nat, NEW m \in Nat, n <= m, NEW f, NEW g, NEW h,
         Sums(f, g, n), Sums(f, h, m)
  PROVE  g[n] = h[n]
  <1> DEFINE same == {u \in 0..n : g[u] = h[u]}
  <1>1. /\ g[0] = 0 /\ h[0] = 0
        /\ \A u \in 1..n : g[u] = g[u - 1] + f[u - 1]
        /\ \A u \in 1..m : h[u] = h[u - 1] + f[u - 1]
    BY SumsAt
  <1>2. 0 \in same
    BY <1>1
  <1>3. ASSUME NEW u \in 0..n, u \in same, u # n PROVE u + 1 \in same
    <2>1. PICK v : v = u + 1
      OBVIOUS
    <2>2. v \in 1..n /\ v \in 1..m /\ v - 1 = u
      BY <2>1, <1>3
    <2>3. g[v] = h[v]
      BY <1>1, <1>3, <2>2
    <2> QED BY <2>1, <2>2, <2>3
  <1>4. 0..n \subseteq same
    <2> HIDE DEF same
    <2> QED BY <1>2, <1>3, InductionUpTo
  <1> QED BY <1>4

\* What valuesBefore is.
LEMMA ValuesAre ==
  ASSUME NEW n \in Nat, NEW f, NEW g, NEW m \in Nat, n <= m, Sums(f, g, m)
  PROVE  valuesBefore(f, n) = g[n]
  <1> DEFINE k == [u \in 0..n |-> g[u]]
  <1> DEFINE h == CHOOSE j : Sums(f, j, n)
  <1>1. Sums(f, k, n)
    <2>1. \A u \in 0..n : g[u] = SumStep(f, g, u)
      BY DEF Sums
    <2>2. \A u \in 0..n : k[u] = SumStep(f, k, u)
      BY <2>1 DEF SumStep
    <2> QED BY <2>2 DEF Sums
  <1> HIDE DEF k
  <1>2. Sums(f, h, n)
    BY <1>1
  <1>3. valuesBefore(f, n) = h[n]
    BY DEF valuesBefore, Sums, SumStep
  <1> HIDE DEF h
  <1>4. h[n] = g[n]
    BY <1>2, SumsAgree
  <1> QED BY <1>3, <1>4

\* All sums of a sampler's sketches at once.
LEMMA SumsOf ==
  ASSUME NEW f \in [Times -> Nat]
  PROVE  \E g \in [0..(MaxTime + 1) -> Nat] :
           /\ Sums(f, g, MaxTime + 1)
           /\ g[0] = 0
           /\ \A u \in Times : g[u + 1] = g[u] + f[u]
           /\ \A n \in 0..(MaxTime + 1) : valuesBefore(f, n) = g[n]
  <1>1. PICK n \in Nat : n = MaxTime + 1
    OBVIOUS
  <1>2. \A u \in 0..n : u # n => u \in Times
    BY <1>1 DEF Times
  <1>3. \A u \in 0..n : u # n => f[u] \in Nat
    BY <1>2
  <1>4. PICK g \in [0..n -> Nat] : Sums(f, g, n)
    BY <1>3, SumsExist
  <1>5. g[0] = 0 /\ \A u \in 1..n : g[u] = g[u - 1] + f[u - 1]
    BY <1>4, SumsAt
  <1>6. ASSUME NEW u \in Times PROVE g[u + 1] = g[u] + f[u]
    <2>1. PICK v : v = u + 1
      OBVIOUS
    <2>2. v \in 1..n /\ v - 1 = u
      BY <1>1, <2>1 DEF Times
    <2> QED BY <1>5, <2>1, <2>2
  <1>7. ASSUME NEW m \in 0..n PROVE valuesBefore(f, m) = g[m]
    BY <1>4, ValuesAre
  <1> QED BY <1>1, <1>4, <1>5, <1>6, <1>7

\* No values, no sum.
LEMMA NoValues == valuesBefore([t \in Times |-> 0], MaxTime + 1) = 0
  <1> DEFINE f == [t \in Times |-> 0]
  <1>1. f \in [Times -> Nat] /\ \A u \in Times : f[u] = 0
    OBVIOUS
  <1> HIDE DEF f
  <1>2. PICK g \in [0..(MaxTime + 1) -> Nat] :
           /\ g[0] = 0
           /\ \A u \in Times : g[u + 1] = g[u] + f[u]
           /\ \A n \in 0..(MaxTime + 1) : valuesBefore(f, n) = g[n]
    BY <1>1, SumsOf
  <1>3. PICK bound \in Nat : bound = MaxTime + 1
    OBVIOUS
  <1> DEFINE zero == {u \in 0..bound : g[u] = 0}
  <1>4. 0 \in zero
    BY <1>2
  <1>5. ASSUME NEW u \in 0..bound, u \in zero, u # bound PROVE u + 1 \in zero
    <2>1. u \in Times /\ u + 1 \in 0..bound
      BY <1>3, <1>5 DEF Times
    <2> QED BY <1>1, <1>2, <1>5, <2>1
  <1>6. 0..bound \subseteq zero
    <2> HIDE DEF zero
    <2> QED BY <1>4, <1>5, InductionUpTo
  <1>7. bound \in zero /\ bound \in 0..(MaxTime + 1)
    BY <1>3, <1>6
  <1>8. valuesBefore(f, bound) = 0
    BY <1>2, <1>7
  <1> QED BY <1>3, <1>8 DEF f

\* Values inserted for one second add to the sum of all.
LEMMA InsertedValues ==
  ASSUME NEW f \in [Times -> Nat], NEW t \in Times, NEW d \in Nat
  PROVE  valuesBefore([f EXCEPT ![t] = f[t] + d], MaxTime + 1)
           = valuesBefore(f, MaxTime + 1) + d
  <1> DEFINE e == [f EXCEPT ![t] = f[t] + d]
  <1>1. e \in [Times -> Nat] /\ \A u \in Times : e[u] = IF u = t THEN f[u] + d ELSE f[u]
    OBVIOUS
  <1> HIDE DEF e
  <1>2. PICK g \in [0..(MaxTime + 1) -> Nat] :
           /\ g[0] = 0
           /\ \A u \in Times : g[u + 1] = g[u] + f[u]
           /\ \A n \in 0..(MaxTime + 1) : valuesBefore(f, n) = g[n]
    BY SumsOf
  <1>3. PICK h \in [0..(MaxTime + 1) -> Nat] :
           /\ h[0] = 0
           /\ \A u \in Times : h[u + 1] = h[u] + e[u]
           /\ \A n \in 0..(MaxTime + 1) : valuesBefore(e, n) = h[n]
    BY <1>1, SumsOf
  <1>4. PICK bound \in Nat : bound = MaxTime + 1
    OBVIOUS
  <1> DEFINE good == {u \in 0..bound : h[u] = IF u > t THEN g[u] + d ELSE g[u]}
  <1>5. 0 \in good
    BY <1>2, <1>3 DEF Times
  <1>6. ASSUME NEW u \in 0..bound, u \in good, u # bound PROVE u + 1 \in good
    <2>1. u \in Times /\ u + 1 \in 0..bound
      BY <1>4, <1>6 DEF Times
    <2>2. PICK v : v = u + 1
      OBVIOUS
    <2>3. h[v] = h[u] + e[u] /\ g[v] = g[u] + f[u] /\ g[u] \in Nat /\ f[u] \in Nat /\ t \in Nat
      BY <1>2, <1>3, <1>4, <2>1, <2>2 DEF Times
    <2>4. h[v] = IF v > t THEN g[v] + d ELSE g[v]
      <3>1. CASE u < t
        BY <3>1, <1>1, <1>6, <2>1, <2>2, <2>3
      <3>2. CASE u = t
        BY <3>2, <1>1, <1>6, <2>1, <2>2, <2>3
      <3>3. CASE u > t
        BY <3>3, <1>1, <1>6, <2>1, <2>2, <2>3
      <3> QED BY <3>1, <3>2, <3>3, <2>1, <2>3 DEF Times
    <2> QED BY <2>1, <2>2, <2>4
  <1>7. 0..bound \subseteq good
    <2> HIDE DEF good
    <2> QED BY <1>5, <1>6, InductionUpTo
  <1>8. bound \in good /\ bound \in 0..(MaxTime + 1) /\ bound > t
    BY <1>4, <1>7 DEF Times
  <1>9. valuesBefore(e, bound) = valuesBefore(f, bound) + d
    BY <1>2, <1>3, <1>8
  <1> QED BY <1>4, <1>9 DEF e

\* A flush takes the values of the seconds before one and leaves the others.
LEMMA FlushedValues ==
  ASSUME NEW f \in [Times -> Nat], NEW t \in Times
  PROVE  /\ valuesBefore(f, t) \in Nat
         /\ valuesBefore(f, t) + valuesBefore([u \in Times |-> IF u < t THEN 0 ELSE f[u]], MaxTime + 1)
              = valuesBefore(f, MaxTime + 1)
  <1> DEFINE e == [u \in Times |-> IF u < t THEN 0 ELSE f[u]]
  <1>1. e \in [Times -> Nat] /\ \A u \in Times : e[u] = IF u < t THEN 0 ELSE f[u]
    OBVIOUS
  <1> HIDE DEF e
  <1>2. PICK g \in [0..(MaxTime + 1) -> Nat] :
           /\ g[0] = 0
           /\ \A u \in Times : g[u + 1] = g[u] + f[u]
           /\ \A n \in 0..(MaxTime + 1) : valuesBefore(f, n) = g[n]
    BY SumsOf
  <1>3. PICK h \in [0..(MaxTime + 1) -> Nat] :
           /\ h[0] = 0
           /\ \A u \in Times : h[u + 1] = h[u] + e[u]
           /\ \A n \in 0..(MaxTime + 1) : valuesBefore(e, n) = h[n]
    BY <1>1, SumsOf
  <1>4. PICK bound \in Nat : bound = MaxTime + 1
    OBVIOUS
  <1>5. t \in 0..bound /\ t \in 0..(MaxTime + 1) /\ t \in Nat /\ t <= bound
    BY <1>4 DEF Times
  <1> DEFINE good == {u \in 0..bound : h[u] + (IF u <= t THEN g[u] ELSE g[t]) = g[u]}
  <1>6. 0 \in good
    BY <1>2, <1>3, <1>5
  <1>7. ASSUME NEW u \in 0..bound, u \in good, u # bound PROVE u + 1 \in good
    <2>1. u \in Times /\ u + 1 \in 0..bound
      BY <1>4, <1>7 DEF Times
    <2>2. PICK v : v = u + 1
      OBVIOUS
    <2>3. /\ h[v] = h[u] + e[u] /\ g[v] = g[u] + f[u]
          /\ g[u] \in Nat /\ h[u] \in Nat /\ f[u] \in Nat /\ g[t] \in Nat
      BY <1>2, <1>3, <1>4, <1>5, <2>1, <2>2
    <2>4. h[v] + (IF v <= t THEN g[v] ELSE g[t]) = g[v]
      <3>1. CASE u < t
        BY <3>1, <1>1, <1>5, <1>7, <2>1, <2>2, <2>3
      <3>2. CASE u = t
        BY <3>2, <1>1, <1>5, <1>7, <2>1, <2>2, <2>3
      <3>3. CASE u > t
        BY <3>3, <1>1, <1>5, <1>7, <2>1, <2>2, <2>3
      <3> QED BY <3>1, <3>2, <3>3, <1>5
    <2> QED BY <2>1, <2>2, <2>4
  <1>8. 0..bound \subseteq good
    <2> HIDE DEF good
    <2> QED BY <1>6, <1>7, InductionUpTo
  <1>9. bound \in good /\ bound \in 0..(MaxTime + 1) /\ t < bound
    BY <1>4, <1>8 DEF Times
  <1>10. h[bound] + g[t] = g[bound] /\ g[t] \in Nat /\ h[bound] \in Nat
    BY <1>5, <1>9
  <1>11. valuesBefore(f, t) = g[t] /\ valuesBefore(e, bound) = h[bound] /\ valuesBefore(f, bound) = g[bound]
    BY <1>2, <1>3, <1>5, <1>9
  <1>12. g[t] + h[bound] = g[bound]
    BY <1>10
  <1> QED BY <1>4, <1>10, <1>11, <1>12 DEF e

\* The sum of all is a number.
LEMMA ValuesType ==
  ASSUME NEW f \in [Times -> Nat]
  PROVE  valuesBefore(f, MaxTime + 1) \in Nat
  <1>1. PICK g \in [0..(MaxTime + 1) -> Nat] : \A n \in 0..(MaxTime + 1) : valuesBefore(f, n) = g[n]
    BY SumsOf
  <1>2. MaxTime + 1 \in 0..(MaxTime + 1)
    OBVIOUS
  <1> QED BY <1>1, <1>2

-----------------------------------------------------------------------------
(***************************************************************************)
(* A monotonic count.                                                      *)
(***************************************************************************)

\* A rise is a number, also when the counter was reset in between.
LEMMA RiseType ==
  ASSUME NEW from \in Nat, NEW to \in Nat
  PROVE  Rise(from, to) \in Nat
  BY DEF Rise

\* Raw values, and the zero a counter starts with, are numbers.
LEMMA RawOrZero == \A x \in RawValues \cup {0} : x \in Nat
  OBVIOUS

\* The fields of a monotonic count.
LEMMA MonotonicFields ==
  ASSUME NEW mc \in MonotonicCount
  PROVE  /\ mc.previousSample \in RawValues \cup {0} /\ mc.currentSample \in RawValues \cup {0}
         /\ mc.sampledSinceLastFlush \in BOOLEAN /\ mc.hasPreviousSample \in BOOLEAN
         /\ mc.value \in Nat
  BY Zenon DEF MonotonicCount

\* A monotonic count of its fields.
LEMMA MonotonicMake ==
  ASSUME NEW p \in RawValues \cup {0}, NEW c \in RawValues \cup {0}, NEW b \in BOOLEAN,
         NEW h \in BOOLEAN, NEW n \in Nat
  PROVE  [previousSample |-> p, currentSample |-> c, sampledSinceLastFlush |-> b,
          hasPreviousSample |-> h, value |-> n] \in MonotonicCount
  BY Zenon DEF MonotonicCount

\* A sample becomes the current one and adds its rise over the last one, of
\* this commit or of an earlier one; the very first adds nothing.
LEMMA AddMonotonicSound ==
  ASSUME NEW mc \in MonotonicCount, NEW v \in RawValues
  PROVE  /\ addMonotonic(mc, v) \in MonotonicCount
         /\ addMonotonic(mc, v).sampledSinceLastFlush
         /\ addMonotonic(mc, v).currentSample = v
         /\ addMonotonic(mc, v).value =
              mc.value + (IF mc.sampledSinceLastFlush THEN Rise(mc.currentSample, v)
                          ELSE IF mc.hasPreviousSample THEN Rise(mc.previousSample, v)
                          ELSE 0)
         /\ addMonotonic(mc, v).hasPreviousSample
              <=> mc.sampledSinceLastFlush \/ mc.hasPreviousSample
  <1> DEFINE previous == IF mc.sampledSinceLastFlush THEN mc.currentSample ELSE mc.previousSample
             hasPrevious == mc.sampledSinceLastFlush \/ mc.hasPreviousSample
             total == IF hasPrevious THEN mc.value + Rise(previous, v) ELSE mc.value
             next == [previousSample |-> previous, currentSample |-> v,
                      sampledSinceLastFlush |-> TRUE, hasPreviousSample |-> hasPrevious,
                      value |-> total]
  <1>1. addMonotonic(mc, v) = next
    BY DEF addMonotonic
  <1>2. previous \in RawValues \cup {0} /\ v \in RawValues \cup {0} /\ mc.value \in Nat
    BY MonotonicFields
  <1>3. hasPrevious \in BOOLEAN
    BY Zenon
  <1>4. previous \in Nat /\ v \in Nat
    <2> HIDE DEF previous
    <2> QED BY <1>2, RawOrZero
  <1>5. Rise(previous, v) \in Nat
    <2> HIDE DEF previous
    <2> QED BY <1>4, RiseType
  <1>6. total \in Nat
    BY <1>2, <1>5
  <1>7. next \in MonotonicCount
    <2> HIDE DEF previous, hasPrevious, total
    <2> QED BY <1>2, <1>3, <1>6, Zenon, MonotonicMake
  <1>8. /\ next.sampledSinceLastFlush /\ next.currentSample = v /\ next.value = total
        /\ next.hasPreviousSample = hasPrevious
    BY Zenon
  <1>9. total = mc.value + (IF mc.sampledSinceLastFlush THEN Rise(mc.currentSample, v)
                            ELSE IF mc.hasPreviousSample THEN Rise(mc.previousSample, v)
                            ELSE 0)
    BY <1>2
  <1> HIDE DEF next, total
  <1> QED BY <1>1, <1>7, <1>8, <1>9

\* A flush keeps the last sample in mind and resets the value, unless there
\* is nothing to flush.
LEMMA FlushMonotonicSound ==
  ASSUME NEW mc \in MonotonicCount
  PROVE  /\ flushMonotonic(mc) \in MonotonicCount
         /\ hasSerie(mc) => /\ flushMonotonic(mc).value = 0
                            /\ flushMonotonic(mc).previousSample = mc.currentSample
                            /\ ~flushMonotonic(mc).sampledSinceLastFlush
                            /\ flushMonotonic(mc).hasPreviousSample
         /\ ~hasSerie(mc) => flushMonotonic(mc) = mc
  <1>1. CASE hasSerie(mc)
    <2> DEFINE next == [previousSample |-> mc.currentSample, currentSample |-> 0,
                        sampledSinceLastFlush |-> FALSE, hasPreviousSample |-> mc.hasPreviousSample,
                        value |-> 0]
    <2>1. flushMonotonic(mc) = next
      BY <1>1 DEF flushMonotonic
    <2>2. next \in MonotonicCount
      <3>1. 0 \in Nat
        OBVIOUS
      <3> QED BY <3>1, Zenon, MonotonicFields, MonotonicMake
    <2>3. /\ next.value = 0 /\ next.previousSample = mc.currentSample
          /\ ~next.sampledSinceLastFlush /\ next.hasPreviousSample
      BY <1>1, Zenon DEF hasSerie
    <2> HIDE DEF next
    <2> QED BY <1>1, <2>1, <2>2, <2>3
  <1>2. CASE ~hasSerie(mc)
    BY <1>2 DEF flushMonotonic
  <1> QED BY <1>1, <1>2

-----------------------------------------------------------------------------
(***************************************************************************)
(* A sampler, with what is due of it.                                      *)
(***************************************************************************)

\* What the invariants say of one sampler's counts and monotonic counts.
SeriesSound(d, s) ==
  /\ d.count = s.committed.count + s.count
  /\ d.mono = s.committed.mono + s.mono.value
  /\ s.count > 0 => "count" \in DOMAIN s.lastSeenByKey
  /\ s.mono.value > 0 => hasSerie(s.mono) /\ "mono" \in DOMAIN s.lastSeenByKey
  /\ Remembers(d, s.mono)

\* What they say of its buckets.
BucketSound(d, s) ==
  /\ isPlain(d) => /\ d.bucket = s.committed.bucket + valuesBefore(s.sketchMap, MaxTime + 1)
                   /\ d.lastBucket = IF s.lastBucketValue = None THEN 0 ELSE s.lastBucketValue
  /\ \A t \in Times : s.sketchMap[t] > 0 =>
       "bucket" \in DOMAIN s.lastSeenByKey /\ t <= s.lastSeenByKey["bucket"]

\* The fields of a sampler.
LEMMA SamplerFields ==
  ASSUME NEW s \in Sampler
  PROVE  /\ s.count \in Nat /\ s.mono \in MonotonicCount /\ s.mono.value \in Nat
         /\ s.lastSeenByKey \in ContextTimes
         /\ s.sketchMap \in [Times -> Nat]
         /\ s.lastBucketValue \in RawValues \cup {None}
         /\ s.lastSeenBucket \in Times \cup {None}
         /\ s.committed \in Totals
         /\ s.committed.count \in Nat /\ s.committed.mono \in Nat /\ s.committed.bucket \in Nat
  <1>1. /\ s.count \in Nat /\ s.mono \in MonotonicCount
        /\ s.lastSeenByKey \in ContextTimes /\ s.sketchMap \in [Times -> Nat]
        /\ s.lastBucketValue \in RawValues \cup {None}
        /\ s.lastSeenBucket \in Times \cup {None} /\ s.committed \in Totals
    BY DEF Sampler
  <1>2. s.mono.value \in Nat
    BY <1>1, MonotonicFields
  <1>3. s.committed.count \in Nat /\ s.committed.mono \in Nat /\ s.committed.bucket \in Nat
    BY <1>1 DEF Totals
  <1> QED BY <1>1, <1>2, <1>3

\* The times at which contexts were seen.
LEMMA ContextTimesAre ==
  ASSUME NEW m
  PROVE  m \in ContextTimes <=> DOMAIN m \subseteq Contexts /\ m \in [DOMAIN m -> Times]
  BY DEF ContextTimes

\* A context that is seen has an entry, and the others keep theirs.
LEMMA WithContext ==
  ASSUME NEW m \in ContextTimes, NEW k \in Contexts, NEW ts \in Times,
         NEW n, n = With(m, k, ts)
  PROVE  /\ n \in ContextTimes
         /\ DOMAIN n = DOMAIN m \cup {k}
         /\ n[k] = ts
         /\ \A j \in DOMAIN m : j # k => n[j] = m[j]
  BY ContextTimesAre DEF With

\* A new sampler has nothing, and nothing is due of it.
LEMMA NewSampler ==
  /\ newCheckSampler \in Sampler
  /\ NothingDue \in Due
  /\ SeriesSound(NothingDue, newCheckSampler)
  /\ BucketSound(NothingDue, newCheckSampler)
  /\ "bucket" \notin DOMAIN newCheckSampler.lastSeenByKey
  <1> DEFINE mc == [previousSample |-> 0, currentSample |-> 0,
                    sampledSinceLastFlush |-> FALSE, hasPreviousSample |-> FALSE, value |-> 0]
  <1>1. 0 \in Nat /\ 0 \in RawValues \cup {0}
    OBVIOUS
  <1>2. mc \in MonotonicCount
    BY <1>1, Zenon, MonotonicMake
  <1>3. mc.value = 0 /\ ~mc.sampledSinceLastFlush /\ ~mc.hasPreviousSample
    BY Zenon
  <1>4. NoEntries \in ContextTimes /\ DOMAIN NoEntries = {}
    BY ContextTimesAre DEF NoEntries
  <1>5. Nothing \in Totals
    BY DEF Nothing, Totals
  <1>6. newCheckSampler = [count |-> 0, mono |-> mc, lastSeenByKey |-> NoEntries,
                           sketchMap |-> [t \in Times |-> 0], lastBucketValue |-> None,
                           lastSeenBucket |-> None, committed |-> Nothing]
    BY Zenon DEF newCheckSampler
  <1> HIDE DEF mc
  <1>7. newCheckSampler \in Sampler
    BY <1>2, <1>4, <1>5, <1>6 DEF Sampler
  <1>8. NothingDue \in Due
    BY DEF NothingDue, Due
  <1>9. Remembers(NothingDue, newCheckSampler.mono)
    BY <1>3, <1>6 DEF Remembers, NothingDue
  <1>10. SeriesSound(NothingDue, newCheckSampler)
    BY <1>3, <1>6, <1>9 DEF SeriesSound, NothingDue, Nothing
  <1>11. BucketSound(NothingDue, newCheckSampler)
    BY <1>6, NoValues DEF BucketSound, NothingDue, Nothing
  <1> QED BY <1>4, <1>6, <1>7, <1>8, <1>10, <1>11

\* trackContext changes only when the context was seen.
LEMMA TrackContext ==
  ASSUME NEW s \in Sampler, NEW k \in Contexts, NEW ts \in Times
  PROVE  LET t == trackContext(s, k, ts) IN
           /\ t \in Sampler
           /\ t.count = s.count /\ t.mono = s.mono /\ t.sketchMap = s.sketchMap
           /\ t.lastBucketValue = s.lastBucketValue /\ t.committed = s.committed
           /\ DOMAIN t.lastSeenByKey = DOMAIN s.lastSeenByKey \cup {k}
           /\ t.lastSeenByKey[k] = ts
           /\ \A j \in DOMAIN s.lastSeenByKey : j # k => t.lastSeenByKey[j] = s.lastSeenByKey[j]
  <1>1. PICK old : old = s.lastSeenByKey
    OBVIOUS
  <1>2. PICK m : m = With(old, k, ts)
    OBVIOUS
  <1>3. old \in ContextTimes
    BY <1>1 DEF Sampler
  <1>4. /\ m \in ContextTimes /\ DOMAIN m = DOMAIN old \cup {k} /\ m[k] = ts
        /\ \A j \in DOMAIN old : j # k => m[j] = old[j]
    BY <1>2, <1>3, WithContext
  <1>5. trackContext(s, k, ts) = [s EXCEPT !.lastSeenByKey = m]
    BY <1>1, <1>2 DEF trackContext
  <1> QED BY <1>1, <1>4, <1>5 DEF Sampler

\* A sample is counted once in the sampler and once in what is due.
LEMMA AddSampleSound ==
  ASSUME NEW s \in Sampler, NEW d \in Due, SeriesSound(d, s), BucketSound(d, s),
         NEW m \in Sample
  PROVE  /\ addSample(s, m) \in Sampler
         /\ DueSample(d, m) \in Due
         /\ SeriesSound(DueSample(d, m), addSample(s, m))
         /\ BucketSound(DueSample(d, m), addSample(s, m))
         /\ "bucket" \in DOMAIN addSample(s, m).lastSeenByKey =>
              /\ "bucket" \in DOMAIN s.lastSeenByKey
              /\ addSample(s, m).lastSeenByKey["bucket"] = s.lastSeenByKey["bucket"]
  <1>1. PICK t : t = trackContext(s, m.kind, m.ts)
    OBVIOUS
  <1>2. /\ m.kind \in {"count", "mono"} /\ m.kind \in Contexts /\ m.kind # "bucket"
        /\ m.ts \in Times /\ m.value \in Nat
        /\ m.kind = "mono" => m.value \in RawValues
    <2>1. CASE m \in [id : Checks, kind : {"count"}, value : {1}, ts : Times]
      BY <2>1 DEF Contexts
    <2>2. CASE m \in [id : Checks, kind : {"mono"}, value : RawValues, ts : Times]
      BY <2>2 DEF Contexts
    <2> QED BY <2>1, <2>2 DEF Sample
  <1>3. /\ t \in Sampler
        /\ t.count = s.count /\ t.mono = s.mono /\ t.sketchMap = s.sketchMap
        /\ t.lastBucketValue = s.lastBucketValue /\ t.committed = s.committed
        /\ DOMAIN t.lastSeenByKey = DOMAIN s.lastSeenByKey \cup {m.kind}
        /\ \A j \in DOMAIN s.lastSeenByKey : j # m.kind => t.lastSeenByKey[j] = s.lastSeenByKey[j]
    BY <1>1, <1>2, TrackContext
  <1>4. /\ s.count \in Nat /\ s.mono \in MonotonicCount /\ s.mono.value \in Nat
        /\ s.committed.count \in Nat /\ s.committed.mono \in Nat
    BY SamplerFields
  <1>5. CASE m.kind = "count"
    <2>1. addSample(s, m) = [t EXCEPT !.count = t.count + m.value]
      BY <1>1, <1>5 DEF addSample
    <2>2. DueSample(d, m) = [d EXCEPT !.count = d.count + m.value]
      BY <1>5 DEF DueSample
    <2>3. addSample(s, m) \in Sampler
      BY <1>2, <1>3, <1>4, <2>1 DEF Sampler
    <2>4. DueSample(d, m) \in Due
      BY <1>2, <2>2 DEF Due
    <2>5. /\ addSample(s, m).count = s.count + m.value
          /\ addSample(s, m).mono = s.mono /\ addSample(s, m).sketchMap = s.sketchMap
          /\ addSample(s, m).lastBucketValue = s.lastBucketValue
          /\ addSample(s, m).committed = s.committed
          /\ addSample(s, m).lastSeenByKey = t.lastSeenByKey
      BY <1>3, <2>1 DEF Sampler
    <2>6. /\ DueSample(d, m).count = d.count + m.value /\ DueSample(d, m).mono = d.mono
          /\ DueSample(d, m).lastMono = d.lastMono /\ DueSample(d, m).bucket = d.bucket
          /\ DueSample(d, m).lastBucket = d.lastBucket
      BY <2>2 DEF Due
    <2>7. Remembers(DueSample(d, m), addSample(s, m).mono)
      BY <2>5, <2>6 DEF SeriesSound, Remembers
    <2>8. SeriesSound(DueSample(d, m), addSample(s, m))
      BY <1>2, <1>3, <1>4, <1>5, <2>5, <2>6, <2>7 DEF SeriesSound
    <2>9. BucketSound(DueSample(d, m), addSample(s, m))
      BY <1>2, <1>3, <2>5, <2>6 DEF BucketSound, isPlain
    <2> QED BY <1>2, <1>3, <2>3, <2>4, <2>5, <2>8, <2>9
  <1>6. CASE m.kind = "mono"
    <2>1. PICK mc : mc = addMonotonic(s.mono, m.value)
      OBVIOUS
    <2>2. PICK rise : rise = IF s.mono.sampledSinceLastFlush THEN Rise(s.mono.currentSample, m.value)
                             ELSE IF s.mono.hasPreviousSample THEN Rise(s.mono.previousSample, m.value)
                             ELSE 0
      OBVIOUS
    <2>3. /\ mc \in MonotonicCount /\ mc.sampledSinceLastFlush /\ mc.currentSample = m.value
          /\ mc.value = s.mono.value + rise
          /\ mc.hasPreviousSample <=> s.mono.sampledSinceLastFlush \/ s.mono.hasPreviousSample
      BY <1>2, <1>4, <1>6, <2>1, <2>2, AddMonotonicSound
    <2>4. addSample(s, m) = [t EXCEPT !.mono = mc]
      BY <1>1, <1>3, <1>6, <2>1 DEF addSample
    <2>5. addSample(s, m) \in Sampler
      BY <1>3, <2>3, <2>4 DEF Sampler
    <2>6. /\ addSample(s, m).mono = mc
          /\ addSample(s, m).count = s.count /\ addSample(s, m).sketchMap = s.sketchMap
          /\ addSample(s, m).lastBucketValue = s.lastBucketValue
          /\ addSample(s, m).committed = s.committed
          /\ addSample(s, m).lastSeenByKey = t.lastSeenByKey
      BY <1>3, <2>4 DEF Sampler
    <2>7. PICK n : n = IF d.lastMono = None THEN 0 ELSE d.mono + Rise(d.lastMono, m.value)
      OBVIOUS
    <2>8. DueSample(d, m) = [d EXCEPT !.mono = n, !.lastMono = m.value]
      BY <1>6, <2>7 DEF DueSample
    <2>9. d.mono \in Nat /\ d.lastMono \in RawValues \cup {None}
      BY DEF Due
    <2>10. n \in Nat
      <3>1. CASE d.lastMono = None
        BY <3>1, <2>7
      <3>2. CASE d.lastMono # None
        <4>1. Rise(d.lastMono, m.value) \in Nat
          BY <3>2, <1>2, <2>9, RiseType
        <4> QED BY <3>2, <4>1, <2>7, <2>9
      <3> QED BY <3>1, <3>2
    <2>11. DueSample(d, m) \in Due
      BY <1>2, <1>6, <2>8, <2>10 DEF Due
    <2>12. /\ DueSample(d, m).mono = n /\ DueSample(d, m).lastMono = m.value
           /\ DueSample(d, m).count = d.count /\ DueSample(d, m).bucket = d.bucket
           /\ DueSample(d, m).lastBucket = d.lastBucket
      BY <2>8 DEF Due
    <2>13. m.value # None
      BY <1>2
    <2>14. d.mono = s.committed.mono + s.mono.value /\ Remembers(d, s.mono)
      BY DEF SeriesSound
    <2>15. n = s.committed.mono + mc.value
      <3>1. CASE d.lastMono = None
        <4>1. n = 0 /\ rise = 0 /\ d.mono = 0
          BY <3>1, <2>2, <2>7, <2>14 DEF Remembers
        <4> QED BY <4>1, <1>4, <2>3, <2>14
      <3>2. CASE d.lastMono # None
        <4>1. n = d.mono + Rise(d.lastMono, m.value)
          BY <3>2, <2>7
        <4>2. rise = Rise(d.lastMono, m.value)
          BY <3>2, <2>2, <2>14 DEF Remembers
        <4>3. rise \in Nat
          BY <3>2, <4>2, <1>2, <2>9, RiseType
        <4> QED BY <4>1, <4>2, <4>3, <1>4, <2>3, <2>14
      <3> QED BY <3>1, <3>2
    <2>16. Remembers(DueSample(d, m), addSample(s, m).mono)
      BY <2>3, <2>6, <2>12, <2>13 DEF Remembers
    <2>17. mc.value > 0 => hasSerie(mc)
      <3>1. CASE s.mono.sampledSinceLastFlush \/ s.mono.hasPreviousSample
        BY <3>1, <2>3 DEF hasSerie
      <3>2. CASE ~(s.mono.sampledSinceLastFlush \/ s.mono.hasPreviousSample)
        <4>1. ~(s.mono.value > 0)
          BY <3>2 DEF SeriesSound, hasSerie
        <4> QED BY <3>2, <4>1, <1>4, <2>2, <2>3
      <3> QED BY <3>1, <3>2
    <2>18. SeriesSound(DueSample(d, m), addSample(s, m))
      BY <1>3, <1>4, <1>6, <2>6, <2>12, <2>15, <2>16, <2>17 DEF SeriesSound
    <2>19. BucketSound(DueSample(d, m), addSample(s, m))
      BY <1>2, <1>3, <2>6, <2>12 DEF BucketSound, isPlain
    <2> QED BY <1>2, <1>3, <2>5, <2>6, <2>11, <2>18, <2>19
  <1> QED BY <1>2, <1>5, <1>6

\* What is interpolated: at most Granularity values are inserted as they are.
LEMMA InterpolatedType ==
  ASSUME NEW v \in Nat
  PROVE  /\ interpolated(v) \in Nat
         /\ v <= Granularity => interpolated(v) = v
  <1>1. Granularity \in Nat /\ Granularity > 0
    OBVIOUS
  <1>2. v \div Granularity \in Nat
    BY <1>1
  <1>3. Granularity * (v \div Granularity) \in Nat
    <2>1. PICK n \in Nat : n = v \div Granularity
      BY <1>2
    <2> QED BY <1>1, <2>1
  <1> QED BY <1>1, <1>3 DEF interpolated

\* A record with two fields set.
LEMMA TwoFieldsSet ==
  ASSUME NEW N, NEW M, NEW L, NEW z \in N, NEW l \in L,
         NEW d \in [count : N, mono : N, bucket : N, lastMono : M, lastBucket : L]
  PROVE  [d EXCEPT !.bucket = z, !.lastBucket = l]
           \in [count : N, mono : N, bucket : N, lastMono : M, lastBucket : L]
  OBVIOUS

\* What is due of a bucket that is no longer plain.
LEMMA NoLongerPlainType ==
  ASSUME NEW d \in Due
  PROVE  /\ NoLongerPlain(d) \in Due
         /\ ~isPlain(NoLongerPlain(d))
         /\ NoLongerPlain(d).count = d.count /\ NoLongerPlain(d).mono = d.mono
         /\ NoLongerPlain(d).lastMono = d.lastMono
  <1>1. PICK M : M = RawValues \cup {None}
    OBVIOUS
  <1>2. PICK L : L = RawValues \cup {0, None}
    OBVIOUS
  <1>3. Due = [count : Nat, mono : Nat, bucket : Nat, lastMono : M, lastBucket : L]
    BY <1>1, <1>2 DEF Due
  <1>4. 0 \in Nat /\ None \in L
    BY <1>2
  <1>5. [d EXCEPT !.bucket = 0, !.lastBucket = None] \in Due
    BY <1>3, <1>4, TwoFieldsSet
  <1>6. /\ NoLongerPlain(d).count = d.count /\ NoLongerPlain(d).mono = d.mono
        /\ NoLongerPlain(d).lastMono = d.lastMono /\ NoLongerPlain(d).lastBucket = None
    BY DEF NoLongerPlain, Due
  <1> QED BY <1>5, <1>6 DEF NoLongerPlain, isPlain

\* A zero is ignored on both sides; any other bucket adds its rise, which is
\* exact as long as the bucket is plain, under its second.
LEMMA AddBucketSound ==
  ASSUME NEW s \in Sampler, NEW d \in Due, SeriesSound(d, s), BucketSound(d, s),
         NEW b \in Bucket, now \in Times,
         "bucket" \in DOMAIN s.lastSeenByKey => s.lastSeenByKey["bucket"] <= b.ts
  PROVE  /\ addBucket(s, b) \in Sampler
         /\ DueBucket(d, b.value) \in Due
         /\ SeriesSound(DueBucket(d, b.value), addBucket(s, b))
         /\ BucketSound(DueBucket(d, b.value), addBucket(s, b))
         /\ "bucket" \in DOMAIN addBucket(s, b).lastSeenByKey =>
              addBucket(s, b).lastSeenByKey["bucket"] <= b.ts
  <1>1. b.value \in RawValues /\ b.value \in Nat /\ b.ts \in Times /\ b.ts \in Nat /\ b.value # None
    <2>1. b.value \in RawValues /\ b.ts \in Times
      BY DEF Bucket
    <2>2. b.value \in Nat
      BY <2>1
    <2>3. b.ts \in Nat
      BY <2>1 DEF Times
    <2>4. b.value # None
      BY <2>2
    <2> QED BY <2>1, <2>2, <2>3, <2>4
  <1>2. CASE b.value = 0
    <2>1. addBucket(s, b) = s /\ DueBucket(d, b.value) = d
      BY <1>2 DEF addBucket, DueBucket
    <2> QED BY <2>1
  <1>3. CASE b.value # 0
    <2>1. PICK t : t = trackContext(s, "bucket", b.ts)
      OBVIOUS
    <2>2. /\ t \in Sampler
          /\ t.count = s.count /\ t.mono = s.mono /\ t.sketchMap = s.sketchMap
          /\ t.lastBucketValue = s.lastBucketValue /\ t.committed = s.committed
          /\ DOMAIN t.lastSeenByKey = DOMAIN s.lastSeenByKey \cup {"bucket"}
          /\ t.lastSeenByKey["bucket"] = b.ts
      <3>1. "bucket" \in Contexts
        BY DEF Contexts
      <3> QED BY <1>1, <2>1, <3>1, TrackContext
    <2>3. PICK delta : delta = IF s.lastBucketValue = None THEN b.value ELSE Rise(s.lastBucketValue, b.value)
      OBVIOUS
    <2>4. s.lastBucketValue \in RawValues \cup {None} /\ s.sketchMap \in [Times -> Nat]
      BY SamplerFields
    <2>5. delta \in Nat
      <3>1. s.lastBucketValue # None => Rise(s.lastBucketValue, b.value) \in Nat
        BY <1>1, <2>4, RiseType
      <3> QED BY <1>1, <2>3, <3>1
    <2>6. PICK n \in Nat : n = interpolated(delta)
      BY <2>5, InterpolatedType
    <2>7. PICK map : map = [s.sketchMap EXCEPT ![b.ts] = s.sketchMap[b.ts] + n]
      OBVIOUS
    <2>8. map \in [Times -> Nat] /\ \A u \in Times : u # b.ts => map[u] = s.sketchMap[u]
      BY <1>1, <2>4, <2>7
    <2>9. addBucket(s, b) = [t EXCEPT !.lastBucketValue = b.value, !.lastSeenBucket = now, !.sketchMap = map]
      BY <1>3, <2>1, <2>2, <2>3, <2>6, <2>7 DEF addBucket, Sampler
    <2>10. addBucket(s, b) \in Sampler
      BY <1>1, <2>2, <2>8, <2>9 DEF Sampler
    <2>11. PICK r : r = addBucket(s, b)
      OBVIOUS
    <2>12. /\ r.count = s.count /\ r.mono = s.mono /\ r.committed = s.committed
           /\ r.sketchMap = map /\ r.lastBucketValue = b.value
           /\ r.lastSeenByKey = t.lastSeenByKey
      BY <2>2, <2>9, <2>11 DEF Sampler
    <2>13. PICK e : e = DueBucket(d, b.value)
      OBVIOUS
    <2>14. d.bucket \in Nat /\ d.lastBucket \in RawValues \cup {0, None}
      BY DEF Due
    <2> DEFINE Kept == e \in Due /\ e.count = d.count /\ e.mono = d.mono /\ e.lastMono = d.lastMono
               Exact == /\ e.bucket = r.committed.bucket + valuesBefore(r.sketchMap, MaxTime + 1)
                        /\ e.lastBucket = IF r.lastBucketValue = None THEN 0 ELSE r.lastBucketValue
    <2>15. ASSUME isPlain(d), b.value \in d.lastBucket..(d.lastBucket + Granularity)
           PROVE  Kept /\ Exact
      <3>1. e = [d EXCEPT !.bucket = d.bucket + b.value - d.lastBucket, !.lastBucket = b.value]
        BY <1>3, <2>13, <2>15 DEF DueBucket
      <3>2. d.lastBucket \in Nat
        <4>1. d.lastBucket # None
          BY <2>15 DEF isPlain
        <4>2. CASE d.lastBucket = 0
          BY <4>2
        <4>3. CASE d.lastBucket \in RawValues
          BY <4>3
        <4> QED BY <2>14, <4>1, <4>2, <4>3
      <3>3. d.bucket + b.value - d.lastBucket \in Nat
        BY <3>2, <1>1, <2>14, <2>15
      <3>4. e \in Due
        BY <3>1, <3>3, <1>1 DEF Due
      <3>5. /\ e.bucket = d.bucket + b.value - d.lastBucket /\ e.lastBucket = b.value
            /\ e.count = d.count /\ e.mono = d.mono /\ e.lastMono = d.lastMono
        BY <3>1 DEF Due
      <3>6. d.lastBucket = IF s.lastBucketValue = None THEN 0 ELSE s.lastBucketValue
        BY <2>15 DEF BucketSound
      <3>7. delta = b.value - d.lastBucket /\ delta <= Granularity
        BY <3>2, <3>6, <1>1, <2>3, <2>4, <2>15 DEF Rise
      <3>8. n = delta
        BY <3>7, <2>5, <2>6, InterpolatedType
      <3>9. valuesBefore(map, MaxTime + 1) = valuesBefore(s.sketchMap, MaxTime + 1) + n
        BY <1>1, <2>4, <2>7, InsertedValues
      <3>10. valuesBefore(s.sketchMap, MaxTime + 1) \in Nat /\ s.committed.bucket \in Nat
        BY <2>4, ValuesType, SamplerFields
      <3>11. d.bucket = s.committed.bucket + valuesBefore(s.sketchMap, MaxTime + 1)
        BY <2>15 DEF BucketSound
      <3>12. e.bucket = r.committed.bucket + valuesBefore(r.sketchMap, MaxTime + 1)
        BY <1>1, <2>12, <3>2, <3>5, <3>7, <3>8, <3>9, <3>10, <3>11
      <3>13. e.lastBucket = IF r.lastBucketValue = None THEN 0 ELSE r.lastBucketValue
        BY <1>1, <2>12, <3>5
      <3> QED BY <3>4, <3>5, <3>12, <3>13
    <2>16. ASSUME ~(isPlain(d) /\ b.value \in d.lastBucket..(d.lastBucket + Granularity))
           PROVE  Kept /\ ~isPlain(e)
      <3>1. (e = d /\ ~isPlain(d)) \/ e = NoLongerPlain(d)
        BY <1>3, <2>13, <2>16 DEF DueBucket
      <3>2. e \in Due
        BY <3>1, NoLongerPlainType
      <3>3. ~isPlain(e) /\ e.count = d.count /\ e.mono = d.mono /\ e.lastMono = d.lastMono
        BY <3>1, NoLongerPlainType
      <3> QED BY <3>2, <3>3
    <2>17. Kept /\ (isPlain(e) => Exact)
      BY <2>15, <2>16
    <2>18. Remembers(e, r.mono)
      BY <2>12, <2>17 DEF SeriesSound, Remembers
    <2>19. SeriesSound(e, r)
      BY <2>2, <2>12, <2>17, <2>18 DEF SeriesSound
    <2>21. ASSUME NEW u \in Times, r.sketchMap[u] > 0
           PROVE  "bucket" \in DOMAIN r.lastSeenByKey /\ u <= r.lastSeenByKey["bucket"]
      <3>1. "bucket" \in DOMAIN r.lastSeenByKey /\ r.lastSeenByKey["bucket"] = b.ts
        BY <2>2, <2>12
      <3>2. CASE u = b.ts
        BY <3>1, <3>2, <1>1
      <3>3. CASE u # b.ts
        <4>1. s.sketchMap[u] > 0
          BY <3>3, <2>8, <2>12, <2>21
        <4>2. "bucket" \in DOMAIN s.lastSeenByKey /\ u <= s.lastSeenByKey["bucket"]
          BY <4>1 DEF BucketSound
        <4>3. s.lastSeenByKey["bucket"] \in Nat /\ u \in Nat
          BY <4>2, SamplerFields, ContextTimesAre DEF Times
        <4> QED BY <3>1, <4>2, <4>3, <1>1
      <3> QED BY <3>2, <3>3
    <2>22. BucketSound(e, r)
      BY <2>17, <2>21 DEF BucketSound
    <2>23. "bucket" \in DOMAIN r.lastSeenByKey => r.lastSeenByKey["bucket"] <= b.ts
      BY <1>1, <2>2, <2>12
    <2> QED BY <2>10, <2>11, <2>13, <2>17, <2>19, <2>22, <2>23
  <1> QED BY <1>2, <1>3

\* commitSeries takes every count and every rise, as their contexts are
\* tracked, and keeps the last sample of the counter in mind.
LEMMA CommitSeriesSound ==
  ASSUME NEW s \in Sampler, NEW d \in Due, SeriesSound(d, s), NEW r, r = commitSeries(s)
  PROVE  /\ r \in Sampler
         /\ r.count = 0 /\ r.mono.value = 0
         /\ d.count = r.committed.count /\ d.mono = r.committed.mono
         /\ Remembers(d, r.mono)
         /\ r.committed.bucket = s.committed.bucket
         /\ r.sketchMap = s.sketchMap /\ r.lastSeenByKey = s.lastSeenByKey
         /\ r.lastBucketValue = s.lastBucketValue
  <1>1. /\ s.count \in Nat /\ s.mono \in MonotonicCount /\ s.mono.value \in Nat
        /\ s.committed \in Totals
        /\ s.committed.count \in Nat /\ s.committed.mono \in Nat
    BY SamplerFields
  <1>2. PICK mc : mc = flushMonotonic(s.mono)
    OBVIOUS
  <1>3. PICK a : a = IF "count" \in DOMAIN s.lastSeenByKey THEN s.count ELSE 0
    OBVIOUS
  <1>4. PICK b : b = IF hasSerie(s.mono)
                     THEN IF "mono" \in DOMAIN s.lastSeenByKey THEN s.mono.value ELSE 0
                     ELSE 0
    OBVIOUS
  <1>5. a = s.count
    BY <1>1, <1>3 DEF SeriesSound
  <1>6. b = s.mono.value
    BY <1>1, <1>4 DEF SeriesSound
  <1>7. PICK x : x = s.committed.count + a
    OBVIOUS
  <1>8. PICK y : y = s.committed.mono + b
    OBVIOUS
  <1>9. x \in Nat /\ y \in Nat
    BY <1>1, <1>5, <1>6, <1>7, <1>8
  <1>10. PICK cm : cm = [s.committed EXCEPT !.count = x, !.mono = y]
    OBVIOUS
  <1>11. cm \in Totals /\ cm.count = x /\ cm.mono = y /\ cm.bucket = s.committed.bucket
    BY <1>1, <1>9, <1>10 DEF Totals
  <1>12. r = [s EXCEPT !.count = 0, !.mono = mc, !.committed = cm]
    <2>1. r = [s EXCEPT !.count = 0, !.mono = flushMonotonic(s.mono),
                 !.committed =
                   [s.committed EXCEPT
                      !.count = s.committed.count
                                + (IF "count" \in DOMAIN s.lastSeenByKey THEN s.count ELSE 0),
                      !.mono = s.committed.mono
                               + (IF hasSerie(s.mono)
                                  THEN IF "mono" \in DOMAIN s.lastSeenByKey THEN s.mono.value ELSE 0
                                  ELSE 0)]]
      BY Zenon DEF commitSeries
    <2> QED BY <1>2, <1>3, <1>4, <1>7, <1>8, <1>10, <2>1, Zenon
  <1>13. mc \in MonotonicCount /\ mc.value = 0
    <2>1. mc \in MonotonicCount /\ (hasSerie(s.mono) => mc.value = 0) /\ (~hasSerie(s.mono) => mc = s.mono)
      BY <1>1, <1>2, FlushMonotonicSound
    <2>2. ~hasSerie(s.mono) => s.mono.value = 0
      BY <1>1 DEF SeriesSound
    <2> QED BY <2>1, <2>2
  <1>14. r \in Sampler
    <2>1. PICK z \in Nat : z = 0
      OBVIOUS
    <2>2. r = [s EXCEPT !.count = z, !.mono = mc, !.committed = cm]
      BY <1>12, <2>1
    <2> QED BY <1>11, <1>13, <2>2 DEF Sampler
  <1>15. /\ r.count = 0 /\ r.mono = mc /\ r.committed = cm
         /\ r.sketchMap = s.sketchMap /\ r.lastSeenByKey = s.lastSeenByKey
         /\ r.lastBucketValue = s.lastBucketValue
    BY <1>12 DEF Sampler
  <1>16. d.count = x /\ d.mono = y
    BY <1>5, <1>6, <1>7, <1>8 DEF SeriesSound
  <1>17. Remembers(d, mc)
    <2>1. Remembers(d, s.mono)
      BY DEF SeriesSound
    <2>2. CASE hasSerie(s.mono)
      <3>1. /\ mc.previousSample = s.mono.currentSample
            /\ ~mc.sampledSinceLastFlush /\ mc.hasPreviousSample
        BY <1>1, <1>2, <2>2, FlushMonotonicSound
      <3> QED BY <2>1, <2>2, <3>1 DEF Remembers, hasSerie
    <2>3. CASE ~hasSerie(s.mono)
      <3>1. mc = s.mono
        BY <1>1, <1>2, <2>3, FlushMonotonicSound
      <3> QED BY <2>1, <3>1
    <2> QED BY <2>2, <2>3
  <1> QED BY <1>11, <1>13, <1>14, <1>15, <1>16, <1>17

\* flushBefore takes the sketches of the seconds that have passed.
LEMMA FlushBeforeSound ==
  ASSUME NEW s \in Sampler, NEW t \in Times, NEW r, r = flushBefore(s, t)
  PROVE  /\ r \in Sampler
         /\ r.count = s.count /\ r.mono = s.mono
         /\ r.committed.count = s.committed.count /\ r.committed.mono = s.committed.mono
         /\ r.committed.bucket + valuesBefore(r.sketchMap, MaxTime + 1)
              = s.committed.bucket + valuesBefore(s.sketchMap, MaxTime + 1)
         /\ \A u \in Times : r.sketchMap[u] > 0 => u >= t /\ s.sketchMap[u] > 0
         /\ r.lastSeenByKey = s.lastSeenByKey /\ r.lastBucketValue = s.lastBucketValue
  <1>1. s.committed \in Totals /\ s.committed.bucket \in Nat /\ s.sketchMap \in [Times -> Nat]
    BY SamplerFields
  <1>2. PICK map : map = [u \in Times |-> IF u < t THEN 0 ELSE s.sketchMap[u]]
    OBVIOUS
  <1>3. PICK n : n = valuesBefore(s.sketchMap, t)
    OBVIOUS
  <1>4. PICK all : all = valuesBefore(s.sketchMap, MaxTime + 1)
    OBVIOUS
  <1>5. PICK rest : rest = valuesBefore(map, MaxTime + 1)
    OBVIOUS
  <1>6. n \in Nat /\ n + rest = all
    BY <1>1, <1>2, <1>3, <1>4, <1>5, FlushedValues
  <1>7. map \in [Times -> Nat] /\ \A u \in Times : map[u] > 0 => u >= t /\ s.sketchMap[u] > 0
    BY <1>1, <1>2 DEF Times
  <1>8. rest \in Nat
    BY <1>5, <1>7, ValuesType
  <1>9. PICK x : x = s.committed.bucket + n
    OBVIOUS
  <1>10. PICK cm : cm = [s.committed EXCEPT !.bucket = x]
    OBVIOUS
  <1>11. /\ cm \in Totals /\ cm.count = s.committed.count /\ cm.mono = s.committed.mono
         /\ cm.bucket = x
    BY <1>1, <1>6, <1>9, <1>10 DEF Totals
  <1>12. r = [s EXCEPT !.sketchMap = map, !.committed = cm]
    <2>1. r = [s EXCEPT !.sketchMap = [u \in Times |-> IF u < t THEN 0 ELSE s.sketchMap[u]],
                        !.committed = [s.committed EXCEPT
                                         !.bucket = s.committed.bucket + valuesBefore(s.sketchMap, t)]]
      BY Zenon DEF flushBefore
    <2> QED BY <1>2, <1>3, <1>9, <1>10, <2>1, Zenon
  <1>13. r \in Sampler
    BY <1>7, <1>11, <1>12 DEF Sampler
  <1>14. /\ r.count = s.count /\ r.mono = s.mono /\ r.committed = cm /\ r.sketchMap = map
         /\ r.lastSeenByKey = s.lastSeenByKey /\ r.lastBucketValue = s.lastBucketValue
    BY <1>12 DEF Sampler
  <1>15. x + rest = s.committed.bucket + all
    BY <1>1, <1>6, <1>8, <1>9
  <1> QED BY <1>4, <1>5, <1>7, <1>11, <1>13, <1>14, <1>15

\* expireContexts keeps the contexts that were seen since, with their times.
LEMMA ExpireContextsSound ==
  ASSUME NEW s \in Sampler, NEW t \in Int, NEW r, r = expireContexts(s, t)
  PROVE  /\ r \in Sampler
         /\ r.count = s.count /\ r.mono = s.mono /\ r.committed = s.committed
         /\ r.sketchMap = s.sketchMap /\ r.lastBucketValue = s.lastBucketValue
         /\ \A k \in DOMAIN r.lastSeenByKey :
              k \in DOMAIN s.lastSeenByKey /\ r.lastSeenByKey[k] = s.lastSeenByKey[k]
         /\ \A k \in DOMAIN s.lastSeenByKey :
              s.lastSeenByKey[k] >= t => k \in DOMAIN r.lastSeenByKey
  <1>1. PICK old : old = s.lastSeenByKey
    OBVIOUS
  <1>2. old \in ContextTimes
    BY <1>1, SamplerFields
  <1>3. DOMAIN old \subseteq Contexts /\ old \in [DOMAIN old -> Times]
    BY <1>2, ContextTimesAre
  <1>4. PICK K : K = {k \in DOMAIN old : old[k] >= t}
    OBVIOUS
  <1>5. PICK m : m = [k \in K |-> old[k]]
    OBVIOUS
  <1>6. /\ DOMAIN m = K /\ DOMAIN m \subseteq Contexts /\ m \in [DOMAIN m -> Times]
        /\ \A k \in K : m[k] = old[k]
    BY <1>3, <1>4, <1>5
  <1>7. m \in ContextTimes
    BY <1>6, ContextTimesAre
  <1>8. r = [s EXCEPT !.lastSeenByKey = m]
    BY <1>1, <1>4, <1>5 DEF expireContexts, Restrict
  <1>9. r \in Sampler
    BY <1>7, <1>8 DEF Sampler
  <1>10. /\ r.count = s.count /\ r.mono = s.mono /\ r.committed = s.committed
         /\ r.sketchMap = s.sketchMap /\ r.lastBucketValue = s.lastBucketValue
         /\ r.lastSeenByKey = m
    BY <1>8 DEF Sampler
  <1> QED BY <1>1, <1>4, <1>6, <1>9, <1>10

\* A commit changes nothing of what is due: it moves what is pending to what
\* is committed, and the sketches it leaves keep their context.
LEMMA CommitSound ==
  ASSUME NEW s \in Sampler, NEW d \in Due, SeriesSound(d, s), BucketSound(d, s),
         now \in Times, NEW r, r = commit(s)
  PROVE  /\ r \in Sampler
         /\ SeriesSound(d, r)
         /\ BucketSound(d, r)
         /\ "bucket" \in DOMAIN r.lastSeenByKey =>
              /\ "bucket" \in DOMAIN s.lastSeenByKey
              /\ r.lastSeenByKey["bucket"] = s.lastSeenByKey["bucket"]
  <1>1. PICK p : p = commitSeries(s)
    OBVIOUS
  <1>2. PICK q : q = flushBefore(p, now)
    OBVIOUS
  <1>3. PICK t : t = now - ContextExpiry
    OBVIOUS
  <1>4. t \in Int /\ now \in Nat /\ t <= now
    BY <1>3 DEF Times
  <1>5. r = expireContexts(q, t)
    BY <1>1, <1>2, <1>3 DEF commit
  <1>6. /\ p \in Sampler
        /\ p.count = 0 /\ p.mono.value = 0
        /\ d.count = p.committed.count /\ d.mono = p.committed.mono
        /\ Remembers(d, p.mono)
        /\ p.committed.bucket = s.committed.bucket
        /\ p.sketchMap = s.sketchMap /\ p.lastSeenByKey = s.lastSeenByKey
        /\ p.lastBucketValue = s.lastBucketValue
    BY <1>1, CommitSeriesSound
  <1>7. /\ q \in Sampler
        /\ q.count = p.count /\ q.mono = p.mono
        /\ q.committed.count = p.committed.count /\ q.committed.mono = p.committed.mono
        /\ q.committed.bucket + valuesBefore(q.sketchMap, MaxTime + 1)
             = p.committed.bucket + valuesBefore(p.sketchMap, MaxTime + 1)
        /\ \A u \in Times : q.sketchMap[u] > 0 => u >= now /\ p.sketchMap[u] > 0
        /\ q.lastSeenByKey = p.lastSeenByKey /\ q.lastBucketValue = p.lastBucketValue
    BY <1>2, <1>6, FlushBeforeSound
  <1>8. /\ r \in Sampler
        /\ r.count = q.count /\ r.mono = q.mono /\ r.committed = q.committed
        /\ r.sketchMap = q.sketchMap /\ r.lastBucketValue = q.lastBucketValue
        /\ \A k \in DOMAIN r.lastSeenByKey :
             k \in DOMAIN q.lastSeenByKey /\ r.lastSeenByKey[k] = q.lastSeenByKey[k]
        /\ \A k \in DOMAIN q.lastSeenByKey :
             q.lastSeenByKey[k] >= t => k \in DOMAIN r.lastSeenByKey
    BY <1>4, <1>5, <1>7, ExpireContextsSound
  <1>9. r.count = 0 /\ r.mono.value = 0 /\ Remembers(d, r.mono)
    BY <1>6, <1>7, <1>8
  <1>10. d.count = r.committed.count + r.count /\ d.mono = r.committed.mono + r.mono.value
    <2>1. d.count \in Nat /\ d.mono \in Nat
      BY DEF Due
    <2>2. d.count = r.committed.count /\ d.mono = r.committed.mono
      BY <1>6, <1>7, <1>8
    <2> QED BY <1>9, <2>1, <2>2
  <1>11. SeriesSound(d, r)
    BY <1>9, <1>10 DEF SeriesSound
  <1>12. ASSUME NEW u \in Times, r.sketchMap[u] > 0
         PROVE  "bucket" \in DOMAIN r.lastSeenByKey /\ u <= r.lastSeenByKey["bucket"]
    <2>1. u >= now /\ s.sketchMap[u] > 0
      BY <1>6, <1>7, <1>8, <1>12
    <2>2. "bucket" \in DOMAIN s.lastSeenByKey /\ u <= s.lastSeenByKey["bucket"]
      BY <2>1 DEF BucketSound
    <2>3. PICK seen : seen = s.lastSeenByKey["bucket"]
      OBVIOUS
    <2>4. seen \in Nat /\ u \in Nat
      BY <2>2, <2>3, SamplerFields, ContextTimesAre DEF Times
    <2>5. seen >= t
      BY <1>4, <2>1, <2>2, <2>3, <2>4
    <2>6. "bucket" \in DOMAIN r.lastSeenByKey
      BY <1>6, <1>7, <1>8, <2>2, <2>3, <2>5
    <2> QED BY <1>6, <1>7, <1>8, <2>2, <2>6
  <1>13. isPlain(d) => /\ d.bucket = r.committed.bucket + valuesBefore(r.sketchMap, MaxTime + 1)
                       /\ d.lastBucket = IF r.lastBucketValue = None THEN 0 ELSE r.lastBucketValue
    BY <1>6, <1>7, <1>8 DEF BucketSound
  <1>14. BucketSound(d, r)
    BY <1>12, <1>13 DEF BucketSound
  <1> QED BY <1>6, <1>7, <1>8, <1>11, <1>14

\* A flush takes what is committed from the sampler and from what is due; a
\* bucket that is forgotten is no longer plain.
LEMMA FlushSamplerSound ==
  ASSUME NEW s \in Sampler, NEW d \in Due, SeriesSound(d, s), BucketSound(d, s),
         now \in Times, NEW r, r = flushSampler(s), NEW e, e = DueAfter(d, s)
  PROVE  /\ r \in Sampler
         /\ e \in Due
         /\ SeriesSound(e, r)
         /\ BucketSound(e, r)
         /\ r.lastSeenByKey = s.lastSeenByKey
  <1>1. PICK x : x = IF forgets(s) THEN None ELSE s.lastSeenBucket
    OBVIOUS
  <1>2. PICK y : y = IF forgets(s) THEN None ELSE s.lastBucketValue
    OBVIOUS
  <1>3. x \in Times \cup {None} /\ y \in RawValues \cup {None}
    BY <1>1, <1>2, SamplerFields
  <1>4. Nothing \in Totals /\ Nothing.count = 0 /\ Nothing.mono = 0 /\ Nothing.bucket = 0
    BY DEF Nothing, Totals
  <1>5. r = [s EXCEPT !.committed = Nothing, !.lastSeenBucket = x, !.lastBucketValue = y]
    BY <1>1, <1>2 DEF flushSampler
  <1>6. r \in Sampler
    BY <1>3, <1>4, <1>5 DEF Sampler
  <1>7. /\ r.count = s.count /\ r.mono = s.mono /\ r.committed = Nothing
        /\ r.sketchMap = s.sketchMap /\ r.lastSeenByKey = s.lastSeenByKey
        /\ r.lastBucketValue = y
    BY <1>5 DEF Sampler
  <1>8. /\ s.count \in Nat /\ s.mono.value \in Nat
        /\ s.committed.count \in Nat /\ s.committed.mono \in Nat /\ s.committed.bucket \in Nat
    BY SamplerFields
  <1>9. PICK rest : rest = valuesBefore(s.sketchMap, MaxTime + 1)
    OBVIOUS
  <1>10. rest \in Nat
    BY <1>9, SamplerFields, ValuesType
  <1>11. PICK a : a = d.count - s.committed.count
    OBVIOUS
  <1>12. PICK b : b = d.mono - s.committed.mono
    OBVIOUS
  <1>13. PICK c : c = IF isPlain(d) THEN d.bucket - s.committed.bucket ELSE 0
    OBVIOUS
  <1>14. a = s.count /\ b = s.mono.value
    BY <1>8, <1>11, <1>12 DEF SeriesSound
  <1>15. c \in Nat /\ (isPlain(d) => c = rest)
    BY <1>8, <1>9, <1>10, <1>13 DEF BucketSound
  <1>16. PICK left : left = [d EXCEPT !.count = a, !.mono = b, !.bucket = c]
    OBVIOUS
  <1>17. left \in Due
    BY <1>8, <1>14, <1>15, <1>16 DEF Due
  <1>18. /\ left.count = a /\ left.mono = b /\ left.bucket = c
         /\ left.lastMono = d.lastMono /\ left.lastBucket = d.lastBucket
    BY <1>16 DEF Due
  <1>19. e = IF forgets(s) THEN NoLongerPlain(left) ELSE left
    BY <1>11, <1>12, <1>13, <1>16 DEF DueAfter
  <1>20. /\ e \in Due /\ e.count = a /\ e.mono = b /\ e.lastMono = d.lastMono
         /\ forgets(s) => ~isPlain(e)
         /\ ~forgets(s) => e = left
    BY <1>17, <1>18, <1>19, NoLongerPlainType
  <1>21. Remembers(e, r.mono)
    <2>1. Remembers(d, s.mono)
      BY DEF SeriesSound
    <2>2. d.lastMono = None => b = 0
      BY <2>1, <1>8, <1>12 DEF Remembers, SeriesSound
    <2> QED BY <1>7, <1>20, <2>1, <2>2 DEF Remembers
  <1>22. SeriesSound(e, r)
    <2>1. e.count = r.committed.count + r.count /\ e.mono = r.committed.mono + r.mono.value
      BY <1>4, <1>7, <1>8, <1>14, <1>20
    <2> QED BY <1>7, <1>21, <2>1 DEF SeriesSound
  <1>23. isPlain(e) => /\ e.bucket = r.committed.bucket + valuesBefore(r.sketchMap, MaxTime + 1)
                       /\ e.lastBucket = IF r.lastBucketValue = None THEN 0 ELSE r.lastBucketValue
    <2> SUFFICES ASSUME isPlain(e)
                 PROVE  /\ e.bucket = r.committed.bucket + valuesBefore(r.sketchMap, MaxTime + 1)
                        /\ e.lastBucket = IF r.lastBucketValue = None THEN 0 ELSE r.lastBucketValue
      OBVIOUS
    <2>1. ~forgets(s) /\ e = left
      BY <1>20
    <2>2. isPlain(d)
      BY <1>18, <2>1 DEF isPlain
    <2>3. e.bucket = rest /\ e.lastBucket = d.lastBucket
      BY <1>15, <1>18, <2>1, <2>2
    <2>4. y = s.lastBucketValue
      BY <1>2, <2>1
    <2>5. d.lastBucket = IF s.lastBucketValue = None THEN 0 ELSE s.lastBucketValue
      BY <2>2 DEF BucketSound
    <2>6. e.bucket = r.committed.bucket + valuesBefore(r.sketchMap, MaxTime + 1)
      BY <1>4, <1>7, <1>9, <1>10, <2>3
    <2> QED BY <1>7, <2>3, <2>4, <2>5, <2>6
  <1>24. BucketSound(e, r)
    BY <1>7, <1>23 DEF BucketSound
  <1> QED BY <1>6, <1>7, <1>20, <1>22, <1>24

-----------------------------------------------------------------------------
(***************************************************************************)
(* All samplers.                                                           *)
(***************************************************************************)

\* The invariants of the samplers, one sampler at a time.
SamplersSound ==
  \A c \in DOMAIN checkSamplers :
    SeriesSound(due[c], checkSamplers[c]) /\ BucketSound(due[c], checkSamplers[c])

\* No bucket on its way is of the future, or older than one before it.
ChannelInOrder ==
  /\ \A i \in 1..Len(bucketIn) : bucketIn[i].ts <= now
  /\ \A i, j \in 1..Len(bucketIn) : i <= j => bucketIn[i].ts <= bucketIn[j].ts

\* Nor is it older than one its sampler has seen.
SeenBy(s, ts) == "bucket" \in DOMAIN s.lastSeenByKey => s.lastSeenByKey["bucket"] <= ts

SeenInOrder ==
  \A c \in DOMAIN checkSamplers :
    /\ SeenBy(checkSamplers[c], now)
    /\ \A i \in 1..Len(bucketIn) : SeenBy(checkSamplers[c], bucketIn[i].ts)

\* The parts are the inductive invariant.
LEMMA InvariantParts ==
  IInv <=> /\ CheckTypeOK /\ SamplerTypeOK /\ UnregisteredClean
           /\ SamplersSound /\ ChannelInOrder /\ SeenInOrder
  <1>1. ASSUME IInv
        PROVE  /\ CheckTypeOK /\ SamplerTypeOK /\ UnregisteredClean
               /\ SamplersSound /\ ChannelInOrder /\ SeenInOrder
    <2>1. CheckTypeOK /\ SamplerTypeOK /\ UnregisteredClean
      BY <1>1 DEF IInv, SeriesExact, TypeOK
    <2>2. ASSUME NEW c \in DOMAIN checkSamplers
          PROVE  SeriesSound(due[c], checkSamplers[c])
      BY <1>1 DEF IInv, SeriesExact, CountsConserved, IncreaseExact,
             SeriesTracked, LastValueKept, SeriesSound
    <2>3. ASSUME NEW c \in DOMAIN checkSamplers
          PROVE  BucketSound(due[c], checkSamplers[c])
      BY <1>1 DEF IInv, BucketsOnce, LastBucketKept, BucketsInOrder, BucketSound
    <2>4. ChannelInOrder
      BY <1>1 DEF IInv, BucketsInOrder, ChannelInOrder
    <2>5. SeenInOrder
      BY <1>1 DEF IInv, BucketsInOrder, SeenInOrder, SeenBy
    <2> QED BY <2>1, <2>2, <2>3, <2>4, <2>5 DEF SamplersSound
  <1>2. ASSUME CheckTypeOK, SamplerTypeOK, UnregisteredClean,
               SamplersSound, ChannelInOrder, SeenInOrder
        PROVE  IInv
    <2>1. CountsConserved /\ IncreaseExact /\ SeriesTracked /\ LastValueKept
      BY <1>2 DEF SamplersSound, SeriesSound, CountsConserved, IncreaseExact,
             SeriesTracked, LastValueKept
    <2>2. BucketsOnce /\ LastBucketKept
      BY <1>2 DEF SamplersSound, BucketSound, BucketsOnce, LastBucketKept
    <2>3. BucketsInOrder
      BY <1>2 DEF SamplersSound, BucketSound, ChannelInOrder, SeenInOrder,
             SeenBy, BucketsInOrder
    <2> QED BY <1>2, <2>1, <2>2, <2>3 DEF IInv, SeriesExact, TypeOK
  <1> QED BY <1>1, <1>2

\* The sampler and the dues of one check.
LEMMA OneSampler ==
  ASSUME SamplerTypeOK, SamplersSound, NEW c \in DOMAIN checkSamplers
  PROVE  /\ c \in Checks
         /\ checkSamplers[c] \in Sampler /\ due[c] \in Due
         /\ SeriesSound(due[c], checkSamplers[c]) /\ BucketSound(due[c], checkSamplers[c])
  BY DEF SamplerTypeOK, SamplersSound

\* A step that handles one sampler.
LEMMA OneHandled ==
  ASSUME SamplerTypeOK, UnregisteredClean, SamplersSound,
         NEW c \in DOMAIN checkSamplers, NEW r \in Sampler, NEW e \in Due,
         SeriesSound(e, r), BucketSound(e, r),
         checkSamplers' = [checkSamplers EXCEPT ![c] = r],
         due' = [due EXCEPT ![c] = e]
  PROVE  /\ DOMAIN checkSamplers' = DOMAIN checkSamplers
         /\ SamplerTypeOK' /\ UnregisteredClean' /\ SamplersSound'
  <1>1. /\ DOMAIN checkSamplers \subseteq Checks /\ c \in Checks
        /\ checkSamplers \in [DOMAIN checkSamplers -> Sampler] /\ due \in [Checks -> Due]
    BY DEF SamplerTypeOK
  <1>2. DOMAIN checkSamplers' = DOMAIN checkSamplers
    BY <1>1
  <1>3. checkSamplers'[c] = r /\ due'[c] = e
    BY <1>1
  <1>4. \A k \in DOMAIN checkSamplers : k # c => checkSamplers'[k] = checkSamplers[k]
    BY <1>1
  <1>5. \A k \in Checks : k # c => due'[k] = due[k]
    BY <1>1
  <1>6. SamplerTypeOK'
    BY <1>1, <1>2 DEF SamplerTypeOK
  <1>7. UnregisteredClean'
    BY <1>1, <1>2, <1>5 DEF UnregisteredClean
  <1>8. ASSUME NEW k \in DOMAIN checkSamplers'
        PROVE  SeriesSound(due'[k], checkSamplers'[k]) /\ BucketSound(due'[k], checkSamplers'[k])
    <2>1. CASE k = c
      BY <2>1, <1>3
    <2>2. CASE k # c
      <3>1. k \in DOMAIN checkSamplers /\ k \in Checks
        BY <1>1, <1>2
      <3>2. checkSamplers'[k] = checkSamplers[k] /\ due'[k] = due[k]
        BY <2>2, <3>1, <1>4, <1>5
      <3>3. SeriesSound(due[k], checkSamplers[k]) /\ BucketSound(due[k], checkSamplers[k])
        BY <3>1, OneSampler
      <3> QED BY <3>2, <3>3
    <2> QED BY <2>1, <2>2
  <1>9. SamplersSound'
    BY <1>8 DEF SamplersSound
  <1> QED BY <1>2, <1>6, <1>7, <1>9

\* A step that leaves the samplers alone.
LEMMA SamplersKept ==
  ASSUME SamplerTypeOK, UnregisteredClean, SamplersSound, UNCHANGED <<checkSamplers, due>>
  PROVE  SamplerTypeOK' /\ UnregisteredClean' /\ SamplersSound'
  BY DEF SamplerTypeOK, UnregisteredClean, SamplersSound

\* A step that leaves the order alone.
LEMMA OrderKept ==
  ASSUME ChannelInOrder, SeenInOrder, UNCHANGED <<now, bucketIn>>,
         \A c \in DOMAIN checkSamplers' :
           \/ "bucket" \notin DOMAIN checkSamplers'[c].lastSeenByKey
           \/ /\ c \in DOMAIN checkSamplers
              /\ "bucket" \in DOMAIN checkSamplers[c].lastSeenByKey
              /\ checkSamplers'[c].lastSeenByKey["bucket"] = checkSamplers[c].lastSeenByKey["bucket"]
  PROVE  ChannelInOrder' /\ SeenInOrder'
  <1>1. ChannelInOrder'
    BY DEF ChannelInOrder
  <1>2. SeenInOrder'
    BY DEF SeenInOrder, SeenBy
  <1> QED BY <1>1, <1>2

-----------------------------------------------------------------------------
(***************************************************************************)
(* The steps.                                                              *)
(***************************************************************************)

\* A sampler that is registered is new, and nothing is due of it.
LEMMA GetSenderSound ==
  ASSUME IInv, NEW c \in Checks, GetSender(c)
  PROVE  /\ SamplerTypeOK' /\ UnregisteredClean' /\ SamplersSound'
         /\ ChannelInOrder' /\ SeenInOrder'
  <1>1. /\ SamplerTypeOK /\ UnregisteredClean /\ SamplersSound /\ ChannelInOrder /\ SeenInOrder
    BY InvariantParts
  <1>2. CASE c \in DOMAIN checkSamplers
    <2>1. UNCHANGED <<checkSamplers, due, now, bucketIn>>
      BY <1>2 DEF GetSender
    <2>2. SamplerTypeOK' /\ UnregisteredClean' /\ SamplersSound'
      BY <1>1, <2>1, SamplersKept
    <2>3. ChannelInOrder' /\ SeenInOrder'
      BY <1>1, <2>1 DEF ChannelInOrder, SeenInOrder
    <2> QED BY <2>2, <2>3
  <1>3. CASE c \notin DOMAIN checkSamplers
    <2>1. /\ checkSamplers' = With(checkSamplers, c, newCheckSampler)
          /\ due' = due /\ now' = now /\ bucketIn' = bucketIn
      BY <1>3 DEF GetSender
    <2>2. /\ DOMAIN checkSamplers \subseteq Checks
          /\ checkSamplers \in [DOMAIN checkSamplers -> Sampler] /\ due \in [Checks -> Due]
      BY <1>1 DEF SamplerTypeOK
    <2>3. PICK r : r = newCheckSampler
      OBVIOUS
    <2>4. /\ r \in Sampler /\ SeriesSound(NothingDue, r) /\ BucketSound(NothingDue, r)
          /\ "bucket" \notin DOMAIN r.lastSeenByKey
      BY <2>3, NewSampler
    <2>5. /\ DOMAIN checkSamplers' = DOMAIN checkSamplers \cup {c}
          /\ checkSamplers'[c] = r
          /\ \A k \in DOMAIN checkSamplers : checkSamplers'[k] = checkSamplers[k]
          /\ checkSamplers' \in [DOMAIN checkSamplers' -> Sampler]
      BY <1>3, <2>1, <2>2, <2>3, <2>4 DEF With
    <2>6. SamplerTypeOK'
      BY <2>1, <2>2, <2>5 DEF SamplerTypeOK
    <2>7. UnregisteredClean'
      BY <1>1, <2>1, <2>5 DEF UnregisteredClean
    <2>8. ASSUME NEW k \in DOMAIN checkSamplers'
          PROVE  SeriesSound(due'[k], checkSamplers'[k]) /\ BucketSound(due'[k], checkSamplers'[k])
      <3>1. CASE k = c
        <4>1. due'[c] = NothingDue
          BY <1>1, <1>3, <2>1 DEF UnregisteredClean
        <4> QED BY <3>1, <4>1, <2>4, <2>5
      <3>2. CASE k # c
        <4>1. k \in DOMAIN checkSamplers
          BY <3>2, <2>5
        <4>2. SeriesSound(due[k], checkSamplers[k]) /\ BucketSound(due[k], checkSamplers[k])
          BY <1>1, <4>1, OneSampler
        <4>3. checkSamplers'[k] = checkSamplers[k] /\ due'[k] = due[k]
          BY <4>1, <2>1, <2>5
        <4> QED BY <4>2, <4>3
      <3> QED BY <3>1, <3>2
    <2>9. SamplersSound'
      BY <2>8 DEF SamplersSound
    <2>10. ASSUME NEW k \in DOMAIN checkSamplers'
           PROVE  \/ "bucket" \notin DOMAIN checkSamplers'[k].lastSeenByKey
                  \/ /\ k \in DOMAIN checkSamplers
                     /\ "bucket" \in DOMAIN checkSamplers[k].lastSeenByKey
                     /\ checkSamplers'[k].lastSeenByKey["bucket"] = checkSamplers[k].lastSeenByKey["bucket"]
      BY <2>4, <2>5
    <2>11. ChannelInOrder' /\ SeenInOrder'
      BY <1>1, <2>1, <2>10, OrderKept
    <2> QED BY <2>6, <2>7, <2>9, <2>11
  <1> QED BY <1>2, <1>3

\* A sender that is destroyed takes what is due along.
LEMMA DestroySenderSound ==
  ASSUME IInv, NEW c \in Checks, DestroySender(c)
  PROVE  /\ SamplerTypeOK' /\ UnregisteredClean' /\ SamplersSound'
         /\ ChannelInOrder' /\ SeenInOrder'
  <1>1. /\ SamplerTypeOK /\ UnregisteredClean /\ SamplersSound /\ ChannelInOrder /\ SeenInOrder
    BY InvariantParts
  <1>2. PICK D : D = DOMAIN checkSamplers \ {c}
    OBVIOUS
  <1>3. /\ checkSamplers' = [k \in D |-> checkSamplers[k]]
        /\ due' = [due EXCEPT ![c] = NothingDue] /\ now' = now /\ bucketIn' = bucketIn
    BY <1>2 DEF DestroySender, Restrict
  <1>4. /\ DOMAIN checkSamplers \subseteq Checks
        /\ checkSamplers \in [DOMAIN checkSamplers -> Sampler] /\ due \in [Checks -> Due]
    BY <1>1 DEF SamplerTypeOK
  <1>5. /\ DOMAIN checkSamplers' = D /\ D \subseteq DOMAIN checkSamplers /\ c \notin D
        /\ \A k \in D : checkSamplers'[k] = checkSamplers[k]
        /\ checkSamplers' \in [D -> Sampler]
    BY <1>2, <1>3, <1>4
  <1>6. NothingDue \in Due
    BY NewSampler
  <1>7. /\ due' \in [Checks -> Due] /\ due'[c] = NothingDue
        /\ \A k \in Checks : k # c => due'[k] = due[k]
    BY <1>3, <1>4, <1>6
  <1>8. SamplerTypeOK'
    BY <1>4, <1>5, <1>7 DEF SamplerTypeOK
  <1>9. UnregisteredClean'
    BY <1>1, <1>2, <1>5, <1>7 DEF UnregisteredClean
  <1>10. SamplersSound'
    <2>1. ASSUME NEW k \in D
          PROVE  SeriesSound(due'[k], checkSamplers'[k]) /\ BucketSound(due'[k], checkSamplers'[k])
      <3>1. k \in DOMAIN checkSamplers /\ k \in Checks /\ k # c
        BY <1>4, <1>5
      <3>2. SeriesSound(due[k], checkSamplers[k]) /\ BucketSound(due[k], checkSamplers[k])
        BY <1>1, <3>1, OneSampler
      <3> QED BY <1>5, <1>7, <3>1, <3>2
    <2> QED BY <1>5, <2>1 DEF SamplersSound
  <1>11. ChannelInOrder' /\ SeenInOrder'
    <2>1. ASSUME NEW k \in DOMAIN checkSamplers'
          PROVE  \/ "bucket" \notin DOMAIN checkSamplers'[k].lastSeenByKey
                 \/ /\ k \in DOMAIN checkSamplers
                    /\ "bucket" \in DOMAIN checkSamplers[k].lastSeenByKey
                    /\ checkSamplers'[k].lastSeenByKey["bucket"] = checkSamplers[k].lastSeenByKey["bucket"]
      BY <1>5
    <2> QED BY <1>1, <1>3, <2>1, OrderKept
  <1> QED BY <1>8, <1>9, <1>10, <1>11

\* A sample or a commit that is handled.
LEMMA SampleSound ==
  ASSUME IInv, handleSenderSample
  PROVE  /\ SamplerTypeOK' /\ UnregisteredClean' /\ SamplersSound'
         /\ ChannelInOrder' /\ SeenInOrder'
  <1>1. /\ SamplerTypeOK /\ UnregisteredClean /\ SamplersSound /\ ChannelInOrder /\ SeenInOrder
        /\ CheckTypeOK
    BY InvariantParts
  <1>2. PICK m : m = Head(checkMetricIn)
    OBVIOUS
  <1>3. m \in Sample \cup CommitMessage
    BY <1>1, <1>2 DEF CheckTypeOK, handleSenderSample
  <1>4. now' = now /\ bucketIn' = bucketIn /\ now \in Times
    BY <1>1 DEF handleSenderSample, CheckTypeOK
  <1>5. CASE m.id \notin DOMAIN checkSamplers
    <2>1. UNCHANGED <<checkSamplers, due>>
      BY <1>2, <1>5 DEF handleSenderSample
    <2>2. SamplerTypeOK' /\ UnregisteredClean' /\ SamplersSound'
      BY <1>1, <2>1, SamplersKept
    <2>3. ChannelInOrder' /\ SeenInOrder'
      BY <1>1, <1>4, <2>1 DEF ChannelInOrder, SeenInOrder
    <2> QED BY <2>2, <2>3
  <1>6. CASE m.id \in DOMAIN checkSamplers
    <2>1. PICK c \in DOMAIN checkSamplers : c = m.id
      BY <1>6
    <2>2. PICK s \in Sampler : s = checkSamplers[c]
      BY <1>1, OneSampler
    <2>3. PICK d \in Due : d = due[c]
      BY <1>1, OneSampler
    <2>4. SeriesSound(d, s) /\ BucketSound(d, s)
      BY <1>1, <2>2, <2>3, OneSampler
    <2>5. \E r \in Sampler : \E e \in Due :
            /\ checkSamplers' = [checkSamplers EXCEPT ![c] = r]
            /\ due' = [due EXCEPT ![c] = e]
            /\ SeriesSound(e, r) /\ BucketSound(e, r)
            /\ "bucket" \in DOMAIN r.lastSeenByKey =>
                 /\ "bucket" \in DOMAIN s.lastSeenByKey
                 /\ r.lastSeenByKey["bucket"] = s.lastSeenByKey["bucket"]
      <3>1. CASE m.kind = "commit"
        <4>1. PICK r : r = commit(s)
          OBVIOUS
        <4>2. /\ r \in Sampler /\ SeriesSound(d, r) /\ BucketSound(d, r)
              /\ "bucket" \in DOMAIN r.lastSeenByKey =>
                   /\ "bucket" \in DOMAIN s.lastSeenByKey
                   /\ r.lastSeenByKey["bucket"] = s.lastSeenByKey["bucket"]
          BY <1>4, <2>4, <4>1, CommitSound
        <4>3. checkSamplers' = [checkSamplers EXCEPT ![c] = r] /\ due' = due
          BY <1>2, <1>6, <2>1, <2>2, <3>1, <4>1 DEF handleSenderSample
        <4>4. due' = [due EXCEPT ![c] = d]
          BY <1>1, <2>1, <2>3, <4>3 DEF SamplerTypeOK
        <4> QED BY <4>2, <4>3, <4>4
      <3>2. CASE m.kind # "commit"
        <4>1. m \in Sample
          BY <1>3, <3>2 DEF CommitMessage
        <4>2. PICK r : r = addSample(s, m)
          OBVIOUS
        <4>3. PICK e : e = DueSample(d, m)
          OBVIOUS
        <4>4. /\ r \in Sampler /\ e \in Due /\ SeriesSound(e, r) /\ BucketSound(e, r)
              /\ "bucket" \in DOMAIN r.lastSeenByKey =>
                   /\ "bucket" \in DOMAIN s.lastSeenByKey
                   /\ r.lastSeenByKey["bucket"] = s.lastSeenByKey["bucket"]
          BY <2>4, <4>1, <4>2, <4>3, AddSampleSound
        <4>5. checkSamplers' = [checkSamplers EXCEPT ![c] = r] /\ due' = [due EXCEPT ![c] = e]
          BY <1>2, <1>6, <2>1, <2>2, <2>3, <3>2, <4>2,
                 <4>3 DEF handleSenderSample
        <4> QED BY <4>4, <4>5
      <3> QED BY <3>1, <3>2
    <2>6. PICK r \in Sampler, e \in Due :
            /\ checkSamplers' = [checkSamplers EXCEPT ![c] = r]
            /\ due' = [due EXCEPT ![c] = e]
            /\ SeriesSound(e, r) /\ BucketSound(e, r)
            /\ "bucket" \in DOMAIN r.lastSeenByKey =>
                 /\ "bucket" \in DOMAIN s.lastSeenByKey
                 /\ r.lastSeenByKey["bucket"] = s.lastSeenByKey["bucket"]
      BY <2>5
    <2>7. /\ DOMAIN checkSamplers' = DOMAIN checkSamplers
          /\ SamplerTypeOK' /\ UnregisteredClean' /\ SamplersSound'
      BY <1>1, <2>6, OneHandled
    <2>8. ASSUME NEW k \in DOMAIN checkSamplers'
          PROVE  \/ "bucket" \notin DOMAIN checkSamplers'[k].lastSeenByKey
                 \/ /\ k \in DOMAIN checkSamplers
                    /\ "bucket" \in DOMAIN checkSamplers[k].lastSeenByKey
                    /\ checkSamplers'[k].lastSeenByKey["bucket"] = checkSamplers[k].lastSeenByKey["bucket"]
      <3>1. CASE k = c
        <4>1. checkSamplers'[k] = r
          BY <2>6, <3>1
        <4> QED BY <2>2, <2>6, <3>1, <4>1
      <3>2. CASE k # c
        <4>1. k \in DOMAIN checkSamplers /\ checkSamplers'[k] = checkSamplers[k]
          BY <2>6, <2>7, <3>2
        <4> QED BY <4>1
      <3> QED BY <3>1, <3>2
    <2>9. ChannelInOrder' /\ SeenInOrder'
      BY <1>1, <1>4, <2>8, OrderKept
    <2> QED BY <2>7, <2>9
  <1> QED BY <1>5, <1>6

\* The buckets behind the first one.
LEMMA TailOfBuckets ==
  ASSUME CheckTypeOK, bucketIn # <<>>, bucketIn' = Tail(bucketIn)
  PROVE  /\ Len(bucketIn) \in Nat \ {0}
         /\ Head(bucketIn) = bucketIn[1]
         /\ Len(bucketIn') = Len(bucketIn) - 1
         /\ \A i \in 1..Len(bucketIn') : i + 1 \in 1..Len(bucketIn) /\ bucketIn'[i] = bucketIn[i + 1]
         /\ \A i \in 1..Len(bucketIn) : bucketIn[i] \in Bucket
  <1>1. bucketIn \in Seq(Bucket)
    BY DEF CheckTypeOK
  <1> QED BY <1>1

\* A bucket that is handled is the oldest on its way.
LEMMA BucketHandledSound ==
  ASSUME IInv, handleSenderBucket
  PROVE  /\ SamplerTypeOK' /\ UnregisteredClean' /\ SamplersSound'
         /\ ChannelInOrder' /\ SeenInOrder'
  <1>1. /\ SamplerTypeOK /\ UnregisteredClean /\ SamplersSound /\ ChannelInOrder /\ SeenInOrder
        /\ CheckTypeOK
    BY InvariantParts
  <1>2. PICK b : b = Head(bucketIn)
    OBVIOUS
  <1>3. now' = now /\ bucketIn' = Tail(bucketIn) /\ now \in Times /\ bucketIn # <<>>
    BY <1>1 DEF handleSenderBucket, CheckTypeOK
  <1>4. /\ Len(bucketIn) \in Nat \ {0}
        /\ b = bucketIn[1] /\ b \in Bucket
        /\ Len(bucketIn') = Len(bucketIn) - 1
        /\ \A i \in 1..Len(bucketIn') : i + 1 \in 1..Len(bucketIn) /\ bucketIn'[i] = bucketIn[i + 1]
    BY <1>1, <1>2, <1>3, TailOfBuckets
  <1>5. ChannelInOrder'
    <2>1. ASSUME NEW i \in 1..Len(bucketIn') PROVE bucketIn'[i].ts <= now'
      <3>1. PICK h \in 1..Len(bucketIn) : h = i + 1
        BY <1>4
      <3> QED BY <1>1, <1>3, <1>4, <3>1 DEF ChannelInOrder
    <2>2. ASSUME NEW i \in 1..Len(bucketIn'), NEW j \in 1..Len(bucketIn'), i <= j
          PROVE  bucketIn'[i].ts <= bucketIn'[j].ts
      <3>1. PICK h \in 1..Len(bucketIn) : h = i + 1
        BY <1>4
      <3>2. PICK k \in 1..Len(bucketIn) : k = j + 1
        BY <1>4
      <3>3. h <= k /\ bucketIn'[i] = bucketIn[h] /\ bucketIn'[j] = bucketIn[k]
        BY <1>4, <2>2, <3>1, <3>2
      <3> QED BY <1>1, <3>3 DEF ChannelInOrder
    <2> QED BY <2>1, <2>2 DEF ChannelInOrder
  <1>6. ASSUME NEW k \in DOMAIN checkSamplers
        PROVE  /\ SeenBy(checkSamplers[k], now') /\ SeenBy(checkSamplers[k], b.ts)
               /\ \A i \in 1..Len(bucketIn') : SeenBy(checkSamplers[k], bucketIn'[i].ts)
    <2>1. 1 \in 1..Len(bucketIn)
      BY <1>4
    <2>2. SeenBy(checkSamplers[k], now') /\ SeenBy(checkSamplers[k], b.ts)
      BY <1>1, <1>3, <1>4, <2>1 DEF SeenInOrder
    <2>3. ASSUME NEW i \in 1..Len(bucketIn') PROVE SeenBy(checkSamplers[k], bucketIn'[i].ts)
      <3>1. PICK h \in 1..Len(bucketIn) : h = i + 1
        BY <1>4
      <3> QED BY <1>1, <1>4, <3>1 DEF SeenInOrder
    <2> QED BY <2>2, <2>3
  <1>7. CASE b.id \notin DOMAIN checkSamplers
    <2>1. UNCHANGED <<checkSamplers, due>>
      BY <1>2, <1>7 DEF handleSenderBucket
    <2>2. SamplerTypeOK' /\ UnregisteredClean' /\ SamplersSound'
      BY <1>1, <2>1, SamplersKept
    <2>3. SeenInOrder'
      BY <1>6, <2>1 DEF SeenInOrder
    <2> QED BY <1>5, <2>2, <2>3
  <1>8. CASE b.id \in DOMAIN checkSamplers
    <2>1. PICK c \in DOMAIN checkSamplers : c = b.id
      BY <1>8
    <2>2. PICK s \in Sampler : s = checkSamplers[c]
      BY <1>1, OneSampler
    <2>3. PICK d \in Due : d = due[c]
      BY <1>1, OneSampler
    <2>4. SeriesSound(d, s) /\ BucketSound(d, s)
      BY <1>1, <2>2, <2>3, OneSampler
    <2>5. "bucket" \in DOMAIN s.lastSeenByKey => s.lastSeenByKey["bucket"] <= b.ts
      BY <1>6, <2>2 DEF SeenBy
    <2>6. PICK r : r = addBucket(s, b)
      OBVIOUS
    <2>7. PICK e : e = DueBucket(d, b.value)
      OBVIOUS
    <2>8. /\ r \in Sampler /\ e \in Due /\ SeriesSound(e, r) /\ BucketSound(e, r)
          /\ SeenBy(r, b.ts)
      BY <1>3, <1>4, <2>4, <2>5, <2>6, <2>7, AddBucketSound DEF SeenBy
    <2>9. checkSamplers' = [checkSamplers EXCEPT ![c] = r] /\ due' = [due EXCEPT ![c] = e]
      BY <1>2, <1>8, <2>1, <2>2, <2>3, <2>6, <2>7 DEF handleSenderBucket
    <2>10. /\ DOMAIN checkSamplers' = DOMAIN checkSamplers
           /\ SamplerTypeOK' /\ UnregisteredClean' /\ SamplersSound'
      BY <1>1, <2>8, <2>9, OneHandled
    <2>11. b.ts \in Nat /\ now \in Nat /\ b.ts <= now
      BY <1>1, <1>3, <1>4 DEF ChannelInOrder, Bucket, Times
    <2>12. ASSUME NEW i \in 1..Len(bucketIn') PROVE b.ts <= bucketIn'[i].ts /\ bucketIn'[i].ts \in Nat
      <3>1. PICK h \in 1..Len(bucketIn) : h = i + 1
        BY <1>4
      <3>2. 1 \in 1..Len(bucketIn) /\ 1 <= h /\ bucketIn'[i] = bucketIn[h]
        BY <1>4, <3>1
      <3>3. bucketIn[h] \in Bucket
        BY <1>1, <1>3, TailOfBuckets
      <3>4. bucketIn[h].ts \in Nat
        BY <3>3 DEF Bucket, Times
      <3> QED BY <1>1, <1>4, <3>2, <3>4 DEF ChannelInOrder
    <2>13. /\ SeenBy(r, now')
           /\ \A i \in 1..Len(bucketIn') : SeenBy(r, bucketIn'[i].ts)
      <3>1. "bucket" \in DOMAIN r.lastSeenByKey => r.lastSeenByKey["bucket"] \in Nat
        BY <2>8, SamplerFields, ContextTimesAre DEF Times
      <3>2. SeenBy(r, now')
        BY <1>3, <2>8, <2>11, <3>1 DEF SeenBy
      <3>3. ASSUME NEW i \in 1..Len(bucketIn') PROVE SeenBy(r, bucketIn'[i].ts)
        BY <2>8, <2>11, <2>12, <3>1 DEF SeenBy
      <3> QED BY <3>2, <3>3
    <2>14. ASSUME NEW k \in DOMAIN checkSamplers'
           PROVE  /\ SeenBy(checkSamplers'[k], now')
                  /\ \A i \in 1..Len(bucketIn') : SeenBy(checkSamplers'[k], bucketIn'[i].ts)
      <3>1. CASE k = c
        <4>1. checkSamplers'[k] = r
          BY <2>9, <3>1
        <4> QED BY <2>13, <4>1
      <3>2. CASE k # c
        <4>1. k \in DOMAIN checkSamplers /\ checkSamplers'[k] = checkSamplers[k]
          BY <2>9, <2>10, <3>2
        <4> QED BY <1>6, <4>1
      <3> QED BY <3>1, <3>2
    <2>15. SeenInOrder'
      BY <2>14 DEF SeenInOrder
    <2> QED BY <1>5, <2>10, <2>15
  <1> QED BY <1>7, <1>8

\* A flush of all samplers.
LEMMA FlushSound ==
  ASSUME IInv, flush
  PROVE  /\ SamplerTypeOK' /\ UnregisteredClean' /\ SamplersSound'
         /\ ChannelInOrder' /\ SeenInOrder'
  <1>1. /\ SamplerTypeOK /\ UnregisteredClean /\ SamplersSound /\ ChannelInOrder /\ SeenInOrder
        /\ CheckTypeOK
    BY InvariantParts
  <1>2. PICK D : D = DOMAIN checkSamplers
    OBVIOUS
  <1>3. D \subseteq Checks /\ due \in [Checks -> Due] /\ now \in Times
    BY <1>1, <1>2 DEF SamplerTypeOK, CheckTypeOK
  <1>4. /\ checkSamplers' = [c \in D |-> flushSampler(checkSamplers[c])]
        /\ due' = [c \in Checks |-> IF c \in D THEN DueAfter(due[c], checkSamplers[c]) ELSE due[c]]
        /\ now' = now /\ bucketIn' = bucketIn
    BY <1>2 DEF flush
  <1>5. /\ DOMAIN checkSamplers' = D /\ DOMAIN due' = Checks
        /\ \A c \in D : checkSamplers'[c] = flushSampler(checkSamplers[c])
        /\ \A c \in D : due'[c] = DueAfter(due[c], checkSamplers[c])
        /\ \A c \in Checks \ D : due'[c] = due[c]
    BY <1>3, <1>4
  <1>6. ASSUME NEW c \in D
        PROVE  /\ checkSamplers'[c] \in Sampler /\ due'[c] \in Due
               /\ SeriesSound(due'[c], checkSamplers'[c]) /\ BucketSound(due'[c], checkSamplers'[c])
               /\ checkSamplers'[c].lastSeenByKey = checkSamplers[c].lastSeenByKey
    <2>1. PICK s \in Sampler : s = checkSamplers[c]
      BY <1>1, <1>2, OneSampler
    <2>2. PICK d \in Due : d = due[c]
      BY <1>1, <1>2, OneSampler
    <2>3. SeriesSound(d, s) /\ BucketSound(d, s)
      BY <1>1, <1>2, <2>1, <2>2, OneSampler
    <2>4. PICK r : r = flushSampler(s)
      OBVIOUS
    <2>5. PICK e : e = DueAfter(d, s)
      OBVIOUS
    <2>6. /\ r \in Sampler /\ e \in Due /\ SeriesSound(e, r) /\ BucketSound(e, r)
          /\ r.lastSeenByKey = s.lastSeenByKey
      BY <1>3, <2>3, <2>4, <2>5, FlushSamplerSound
    <2>7. checkSamplers'[c] = r /\ due'[c] = e
      BY <1>5, <2>1, <2>2, <2>4, <2>5
    <2> QED BY <2>1, <2>6, <2>7
  <1>7. SamplerTypeOK'
    <2>1. checkSamplers' \in [D -> Sampler]
      BY <1>4, <1>5, <1>6
    <2>2. \A c \in Checks : due'[c] \in Due
      BY <1>3, <1>5, <1>6
    <2>3. due' \in [Checks -> Due]
      BY <1>4, <2>2
    <2> QED BY <1>3, <1>5, <2>1, <2>3 DEF SamplerTypeOK
  <1>8. UnregisteredClean'
    BY <1>1, <1>2, <1>5 DEF UnregisteredClean
  <1>9. SamplersSound'
    BY <1>5, <1>6 DEF SamplersSound
  <1>10. ASSUME NEW k \in DOMAIN checkSamplers'
         PROVE  \/ "bucket" \notin DOMAIN checkSamplers'[k].lastSeenByKey
                \/ /\ k \in DOMAIN checkSamplers
                   /\ "bucket" \in DOMAIN checkSamplers[k].lastSeenByKey
                   /\ checkSamplers'[k].lastSeenByKey["bucket"] = checkSamplers[k].lastSeenByKey["bucket"]
    BY <1>2, <1>5, <1>6
  <1>11. ChannelInOrder' /\ SeenInOrder'
    BY <1>1, <1>4, <1>10, OrderKept
  <1> QED BY <1>7, <1>8, <1>9, <1>11

\* A bucket that is sent is of the present second: none before it is newer.
LEMMA HistogramBucketSound ==
  ASSUME IInv, NEW c \in Checks, HistogramBucket(c)
  PROVE  CheckTypeOK' /\ ChannelInOrder' /\ SeenInOrder'
  <1>1. CheckTypeOK /\ SamplerTypeOK /\ ChannelInOrder /\ SeenInOrder
    BY InvariantParts
  <1>2. PICK v \in RawValues : bucketIn' = Append(bucketIn, [id |-> c, value |-> v, ts |-> now])
    BY DEF HistogramBucket
  <1>3. PICK b : b = [id |-> c, value |-> v, ts |-> now]
    OBVIOUS
  <1>4. now \in Times /\ now \in Nat /\ bucketIn \in Seq(Bucket) /\ now' = now
    BY <1>1 DEF CheckTypeOK, Times, HistogramBucket
  <1>5. b \in Bucket /\ b.ts = now
    BY <1>3, <1>4 DEF Bucket
  <1>6. /\ bucketIn' = Append(bucketIn, b) /\ bucketIn' \in Seq(Bucket)
        /\ Len(bucketIn) \in Nat /\ Len(bucketIn') = Len(bucketIn) + 1
        /\ bucketIn'[Len(bucketIn')] = b
        /\ \A i \in 1..Len(bucketIn) : bucketIn'[i] = bucketIn[i] /\ bucketIn[i] \in Bucket
    BY <1>2, <1>3, <1>4, <1>5
  <1>7. CheckTypeOK'
    <2>1. Len(bucketIn') <= ChanSize
      BY <1>6 DEF HistogramBucket
    <2>2. sends' \in 0..MaxSends
      BY <1>1 DEF HistogramBucket, CheckTypeOK
    <2>3. /\ now' \in Times /\ running' \subseteq Checks /\ faults' \in 0..MaxFaults
          /\ checkMetricIn' \in Seq(Sample \cup CommitMessage) /\ Len(checkMetricIn') <= ChanSize
      BY <1>1 DEF HistogramBucket, CheckTypeOK
    <2> QED BY <1>6, <2>1, <2>2, <2>3 DEF CheckTypeOK
  <1>8. ASSUME NEW i \in 1..Len(bucketIn')
        PROVE  i \in 1..Len(bucketIn) \/ (i = Len(bucketIn') /\ bucketIn'[i].ts = now)
    BY <1>5, <1>6
  <1>9. ASSUME NEW i \in 1..Len(bucketIn') PROVE bucketIn'[i].ts <= now
    <2>1. CASE i \in 1..Len(bucketIn)
      BY <1>1, <1>6, <2>1 DEF ChannelInOrder
    <2>2. CASE bucketIn'[i].ts = now
      BY <1>4, <2>2
    <2> QED BY <1>8, <2>1, <2>2
  <1>10. ASSUME NEW i \in 1..Len(bucketIn'), NEW j \in 1..Len(bucketIn'), i <= j
         PROVE  bucketIn'[i].ts <= bucketIn'[j].ts
    <2>1. CASE j \in 1..Len(bucketIn)
      <3>1. i \in 1..Len(bucketIn)
        BY <1>6, <1>10, <2>1
      <3> QED BY <1>1, <1>6, <1>10, <2>1, <3>1 DEF ChannelInOrder
    <2>2. CASE bucketIn'[j].ts = now
      BY <1>9, <2>2
    <2> QED BY <1>8, <2>1, <2>2
  <1>11. ChannelInOrder'
    BY <1>4, <1>9, <1>10 DEF ChannelInOrder
  <1>12. checkSamplers' = checkSamplers
    BY DEF HistogramBucket
  <1>13. ASSUME NEW k \in DOMAIN checkSamplers, NEW i \in 1..Len(bucketIn')
         PROVE  SeenBy(checkSamplers[k], bucketIn'[i].ts)
    <2>1. CASE i \in 1..Len(bucketIn)
      BY <1>1, <1>6, <2>1 DEF SeenInOrder
    <2>2. CASE bucketIn'[i].ts = now
      BY <1>1, <2>2 DEF SeenInOrder
    <2> QED BY <1>8, <2>1, <2>2
  <1>14. SeenInOrder'
    BY <1>1, <1>4, <1>12, <1>13 DEF SeenInOrder
  <1> QED BY <1>7, <1>11, <1>14

\* A second that passes.
LEMMA TickSound ==
  ASSUME IInv, Tick
  PROVE  CheckTypeOK' /\ ChannelInOrder' /\ SeenInOrder'
  <1>1. CheckTypeOK /\ SamplerTypeOK /\ ChannelInOrder /\ SeenInOrder
    BY InvariantParts
  <1>2. /\ now \in Nat /\ now' = now + 1 /\ now' \in Times
        /\ bucketIn' = bucketIn /\ checkSamplers' = checkSamplers
    BY <1>1 DEF Tick, CheckTypeOK, Times
  <1>3. CheckTypeOK'
    BY <1>1, <1>2 DEF Tick, CheckTypeOK, checkVars
  <1>4. ASSUME NEW i \in 1..Len(bucketIn) PROVE bucketIn[i].ts <= now'
    <2>1. bucketIn[i] \in Bucket
      BY <1>1 DEF CheckTypeOK
    <2>2. bucketIn[i].ts \in Nat
      BY <2>1 DEF Bucket, Times
    <2> QED BY <1>1, <1>2, <2>2 DEF ChannelInOrder
  <1>5. ChannelInOrder'
    BY <1>1, <1>2, <1>4 DEF ChannelInOrder
  <1>6. ASSUME NEW k \in DOMAIN checkSamplers PROVE SeenBy(checkSamplers[k], now')
    <2>1. checkSamplers[k] \in Sampler
      BY <1>1 DEF SamplerTypeOK
    <2>2. "bucket" \in DOMAIN checkSamplers[k].lastSeenByKey =>
            checkSamplers[k].lastSeenByKey["bucket"] \in Nat
      BY <2>1, SamplerFields, ContextTimesAre DEF Times
    <2> QED BY <1>1, <1>2, <2>2 DEF SeenInOrder, SeenBy
  <1>7. SeenInOrder'
    BY <1>1, <1>2, <1>6 DEF SeenInOrder
  <1> QED BY <1>3, <1>5, <1>7

\* The checks and the channel of samples keep their types in the steps that
\* send no bucket and leave the clock alone.
LEMMA ChecksSound ==
  ASSUME IInv, Next, now' = now,
         \/ UNCHANGED bucketIn
         \/ bucketIn # <<>> /\ bucketIn' = Tail(bucketIn)
  PROVE  CheckTypeOK'
  <1>1. CheckTypeOK
    BY InvariantParts
  <1>2. now' \in Times
    BY <1>1 DEF CheckTypeOK
  <1>3. bucketIn' \in Seq(Bucket) /\ Len(bucketIn') <= ChanSize
    <2>1. CASE UNCHANGED bucketIn
      BY <1>1, <2>1 DEF CheckTypeOK
    <2>2. CASE bucketIn # <<>> /\ bucketIn' = Tail(bucketIn)
      BY <1>1, <2>2 DEF CheckTypeOK
    <2> QED BY <2>1, <2>2
  <1>4. PICK M : M = Sample \cup CommitMessage
    OBVIOUS
  <1>5. /\ running \subseteq Checks /\ sends \in 0..MaxSends /\ faults \in 0..MaxFaults
        /\ checkMetricIn \in Seq(M) /\ Len(checkMetricIn) <= ChanSize
    BY <1>1, <1>4 DEF CheckTypeOK
  <1> DEFINE Goal == /\ running' \subseteq Checks /\ sends' \in 0..MaxSends /\ faults' \in 0..MaxFaults
                     /\ checkMetricIn' \in Seq(M) /\ Len(checkMetricIn') <= ChanSize
  <1>6. ASSUME NEW c \in Checks, GetSender(c) PROVE Goal
    BY <1>5, <1>6 DEF GetSender
  <1>7. ASSUME NEW c \in Checks, sendMetricSample(c) PROVE Goal
    <2>1. PICK m \in [id : {c}, kind : {"count"}, value : {1}, ts : {now}]
                     \cup [id : {c}, kind : {"mono"}, value : RawValues, ts : {now}] :
            checkMetricIn' = Append(checkMetricIn, m)
      BY <1>7 DEF sendMetricSample
    <2>2. m \in M
      <3>1. now \in Times
        BY <1>1 DEF CheckTypeOK
      <3>2. CASE m \in [id : {c}, kind : {"count"}, value : {1}, ts : {now}]
        BY <3>1, <3>2, <1>4 DEF Sample
      <3>3. CASE m \in [id : {c}, kind : {"mono"}, value : RawValues, ts : {now}]
        BY <3>1, <3>3, <1>4 DEF Sample
      <3> QED BY <2>1, <3>2, <3>3
    <2>3. /\ running' = running /\ faults' = faults /\ sends' = sends + 1 /\ sends < MaxSends
          /\ Len(checkMetricIn) < ChanSize
      BY <1>7 DEF sendMetricSample
    <2> QED BY <1>5, <2>1, <2>2, <2>3
  <1>8. ASSUME NEW c \in Checks, HistogramBucket(c) PROVE Goal
    BY <1>5, <1>8 DEF HistogramBucket
  <1>9. ASSUME NEW c \in Checks, Commit(c) PROVE Goal
    <2>1. PICK m : m = [id |-> c, kind |-> "commit"]
      OBVIOUS
    <2>2. m \in M
      BY <1>4, <2>1 DEF CommitMessage
    <2>3. /\ running' \subseteq running /\ faults' = faults /\ sends' = sends
          /\ Len(checkMetricIn) < ChanSize /\ checkMetricIn' = Append(checkMetricIn, m)
      BY <1>9, <2>1 DEF Commit
    <2> QED BY <1>5, <2>2, <2>3
  <1>10. ASSUME NEW c \in Checks, FailRun(c) PROVE Goal
    BY <1>5, <1>10 DEF FailRun
  <1>11. ASSUME NEW c \in Checks, DestroySender(c) PROVE Goal
    BY <1>5, <1>11 DEF DestroySender
  <1>12. ASSUME handleSenderSample PROVE Goal
    <2>1. checkMetricIn # <<>> /\ checkMetricIn' = Tail(checkMetricIn) /\ UNCHANGED checkVars
      BY <1>12 DEF handleSenderSample
    <2> QED BY <1>5, <2>1 DEF checkVars
  <1>13. ASSUME handleSenderBucket PROVE Goal
    BY <1>5, <1>13 DEF handleSenderBucket, checkVars
  <1>14. ASSUME flush PROVE Goal
    BY <1>5, <1>14 DEF flush, checkVars
  <1>15. ASSUME Tick PROVE Goal
    BY <1>5, <1>15 DEF Tick, checkVars
  <1>16. Goal
    BY <1>6, <1>7, <1>8, <1>9, <1>10, <1>11, <1>12, <1>13, <1>14, <1>15 DEF Next
  <1> QED BY <1>2, <1>3, <1>4, <1>16 DEF CheckTypeOK

\* The inductive invariant holds at the start.
LEMMA InitIInv == Init => IInv
  <1> SUFFICES ASSUME Init PROVE IInv
    OBVIOUS
  <1>1. DOMAIN checkSamplers = {} /\ checkSamplers = [k \in {} |-> 0]
    BY DEF Init, NoEntries
  <1>2. CheckTypeOK
    BY DEF Init, CheckTypeOK, Times
  <1>3. SamplerTypeOK /\ UnregisteredClean
    <2>1. NothingDue \in Due
      BY NewSampler
    <2>2. due = [c \in Checks |-> NothingDue]
      BY DEF Init
    <2> QED BY <1>1, <2>1, <2>2 DEF SamplerTypeOK, UnregisteredClean
  <1>4. SamplersSound /\ SeenInOrder
    BY <1>1 DEF SamplersSound, SeenInOrder
  <1>5. ChannelInOrder
    BY DEF Init, ChannelInOrder
  <1> QED BY <1>2, <1>3, <1>4, <1>5, InvariantParts

\* Every step preserves it.
LEMMA NextIInv == IInv /\ [Next]_vars => IInv'
  <1> SUFFICES ASSUME IInv, [Next]_vars PROVE IInv'
    OBVIOUS
  <1> DEFINE Goal == /\ CheckTypeOK' /\ SamplerTypeOK' /\ UnregisteredClean'
                     /\ SamplersSound' /\ ChannelInOrder' /\ SeenInOrder'
  <1>1. /\ CheckTypeOK /\ SamplerTypeOK /\ UnregisteredClean
        /\ SamplersSound /\ ChannelInOrder /\ SeenInOrder
    BY InvariantParts
  <1>2. ASSUME UNCHANGED <<now, bucketIn, checkSamplers, due>>, Next PROVE Goal
    <2>1. CheckTypeOK'
      BY <1>2, ChecksSound
    <2>2. SamplerTypeOK' /\ UnregisteredClean' /\ SamplersSound'
      BY <1>1, <1>2, SamplersKept
    <2>3. ChannelInOrder' /\ SeenInOrder'
      BY <1>1, <1>2 DEF ChannelInOrder, SeenInOrder
    <2> QED BY <2>1, <2>2, <2>3
  <1>3. ASSUME NEW c \in Checks, GetSender(c) PROVE Goal
    <2>1. Next
      BY <1>3 DEF Next
    <2>2. CheckTypeOK'
      BY <1>3, <2>1, ChecksSound DEF GetSender
    <2> QED BY <1>3, <2>2, GetSenderSound
  <1>4. ASSUME NEW c \in Checks, sendMetricSample(c) PROVE Goal
    <2>1. Next
      BY <1>4 DEF Next
    <2> QED BY <1>2, <1>4, <2>1 DEF sendMetricSample
  <1>5. ASSUME NEW c \in Checks, HistogramBucket(c) PROVE Goal
    <2>1. UNCHANGED <<checkSamplers, due>>
      BY <1>5 DEF HistogramBucket
    <2> QED BY <1>1, <1>5, <2>1, HistogramBucketSound, SamplersKept
  <1>6. ASSUME NEW c \in Checks, Commit(c) PROVE Goal
    <2>1. Next
      BY <1>6 DEF Next
    <2> QED BY <1>2, <1>6, <2>1 DEF Commit
  <1>7. ASSUME NEW c \in Checks, FailRun(c) PROVE Goal
    <2>1. Next
      BY <1>7 DEF Next
    <2> QED BY <1>2, <1>7, <2>1 DEF FailRun
  <1>8. ASSUME NEW c \in Checks, DestroySender(c) PROVE Goal
    <2>1. Next
      BY <1>8 DEF Next
    <2>2. CheckTypeOK'
      BY <1>8, <2>1, ChecksSound DEF DestroySender
    <2> QED BY <1>8, <2>2, DestroySenderSound
  <1>9. ASSUME handleSenderSample PROVE Goal
    <2>1. Next
      BY <1>9 DEF Next
    <2>2. CheckTypeOK'
      BY <1>9, <2>1, ChecksSound DEF handleSenderSample
    <2> QED BY <1>9, <2>2, SampleSound
  <1>10. ASSUME handleSenderBucket PROVE Goal
    <2>1. Next
      BY <1>10 DEF Next
    <2>2. CheckTypeOK'
      BY <1>10, <2>1, ChecksSound DEF handleSenderBucket
    <2> QED BY <1>10, <2>2, BucketHandledSound
  <1>11. ASSUME flush PROVE Goal
    <2>1. Next
      BY <1>11 DEF Next
    <2>2. CheckTypeOK'
      BY <1>11, <2>1, ChecksSound DEF flush
    <2> QED BY <1>11, <2>2, FlushSound
  <1>12. ASSUME Tick PROVE Goal
    <2>1. UNCHANGED <<checkSamplers, due>>
      BY <1>12 DEF Tick
    <2> QED BY <1>1, <1>12, <2>1, TickSound, SamplersKept
  <1>13. ASSUME UNCHANGED vars PROVE Goal
    <2>1. UNCHANGED <<now, running, sends, faults, checkMetricIn, bucketIn, checkSamplers, due>>
      BY <1>13 DEF vars
    <2>2. CheckTypeOK'
      BY <1>1, <2>1 DEF CheckTypeOK
    <2>3. SamplerTypeOK' /\ UnregisteredClean' /\ SamplersSound'
      BY <1>1, <2>1, SamplersKept
    <2>4. ChannelInOrder' /\ SeenInOrder'
      BY <1>1, <2>1 DEF ChannelInOrder, SeenInOrder
    <2> QED BY <2>2, <2>3, <2>4
  <1>14. Goal
    BY <1>3, <1>4, <1>5, <1>6, <1>7, <1>8, <1>9, <1>10, <1>11, <1>12,
           <1>13 DEF Next
  <1>15. IInv'
    <2>1. CountsConserved' /\ IncreaseExact' /\ SeriesTracked' /\ LastValueKept'
      BY <1>14 DEF SamplersSound, SeriesSound, CountsConserved, IncreaseExact,
             SeriesTracked, LastValueKept
    <2>2. BucketsOnce' /\ LastBucketKept'
      BY <1>14 DEF SamplersSound, BucketSound, BucketsOnce, LastBucketKept
    <2>3. BucketsInOrder'
      BY <1>14 DEF SamplersSound, BucketSound, ChannelInOrder, SeenInOrder,
             SeenBy, BucketsInOrder
    <2> QED BY <1>14, <2>1, <2>2, <2>3 DEF IInv, SeriesExact, TypeOK
  <1> QED BY <1>15

\* The inductive invariant holds throughout.
THEOREM SamplersSoundForever == Spec => []IInv
  BY InitIInv, NextIInv, PTL DEF Spec

\* Whatever the order of samples, commits, flushes and failed runs, every
\* count and every rise of a monotonic counter that a sampler was given is
\* in it once, pending or committed, until the flush that takes it.
THEOREM SeriesAreExact == Spec => []SeriesExact
  <1>1. IInv => SeriesExact
    BY DEF IInv
  <1> QED BY <1>1, SamplersSoundForever, PTL

\* Every rise of a plain bucket is inserted once, and a sketch that waits
\* for a commit always has the context that the commit reads.
THEOREM SketchesAreExact == Spec => []SketchesExact
  <1>1. IInv => SketchesExact
    BY DEF IInv, BucketsInOrder, SketchesExact, SketchesNamed
  <1> QED BY <1>1, SamplersSoundForever, PTL
=============================================================================
