---------------------------- MODULE PromExporter ----------------------------
(***************************************************************************)
(* The Prometheus exporter: a cache of collectors in front of the global   *)
(* registry.  The aggregator's goroutine exports one sample after another; *)
(* the cache drops entries that were not used for an hour and calls the    *)
(* removal listener from a goroutine of its own.                           *)
(*                                                                         *)
(* The registry (client_golang) and the cache (goburrow) are external: the *)
(* registry finds a collector by its name, also to unregister it, and      *)
(* never lets a name change its label names, which it compares without     *)
(* their order.  A sample is its type, its name and the names of its tags  *)
(* in the order of the raw tags: NewPromSample sorts before it normalises, *)
(* so the order of the same names may differ.  Values are left out.        *)
(***************************************************************************)
EXTENDS Naturals, FiniteSets, Sequences

CONSTANTS
  Samples,      \* the samples that may arrive
  TagNames,     \* the names tags may have
  MaxSerial     \* bound: collectors created

ASSUME ExporterAssumption ==
  /\ \A s \in Samples :
       DOMAIN s = {"type", "name", "tags"} /\ s.tags \in Seq(TagNames)
  /\ MaxSerial \in Nat

getMetricSymbol(type) ==
  CASE type \in {"count", "counter", "monotonicCount", "set", "serviceCheck"} -> "c"
    [] type \in {"histogram", "historate", "distribution"} -> "h"
    [] OTHER -> "g"

\* The label names: the tags, and apiname for a method with a path.
LabelNames(s) ==
  LET given == {s.tags[i] : i \in 1..Len(s.tags)} IN
  IF {"method", "path"} \subseteq given /\ s.type # "serviceCheck"
  THEN Append(s.tags, "apiname") ELSE s.tags

\* Mutant: the label names are no part of the key.
KeyWithoutLabels(s) == <<getMetricSymbol(s.type), s.name>>

GenerateKey(s) == <<getMetricSymbol(s.type), s.name, LabelNames(s)>>

Keys  == {GenerateKey(s) : s \in Samples}
Names == {s.name : s \in Samples}

\* What a Desc hashes of the label names: the names, sorted.
Elements(p) == {p[i] : i \in 1..Len(p)}

LabelSet(s) == Elements(LabelNames(s))

NameOf(k)   == k[2]
LabelsOf(k) == k[3]

Collectors ==
  {[symbol |-> getMetricSymbol(s.type), name |-> s.name,
    labels |-> LabelNames(s), serial |-> i] : s \in Samples, i \in 1..MaxSerial}

VARIABLES
  cache,        \* what the cache has for each key, as a set
  registered,   \* what the registry has for each name, as a set
  dims,         \* the set of label names of each name ever registered, as a set
  removals,     \* calls of the removal listener to come, for each collector
  exporting,    \* the sample in export, as a set
  loaded,       \* the collector loadMetric returned for it, as a set
  serial,       \* collectors created
  tainted       \* ghost: names that had an entry expire and are in use since

exporterVars == <<cache, registered, dims, removals, exporting, loaded, serial, tainted>>

ExporterTypeOK ==
  /\ cache \in [Keys -> SUBSET Collectors]
  /\ registered \in [Names -> SUBSET Collectors]
  /\ dims \in [Names -> SUBSET {LabelSet(s) : s \in Samples}]
  /\ \A k \in Keys : Cardinality(cache[k]) <= 1
  /\ \A n \in Names :
       /\ Cardinality(registered[n]) <= 1 /\ Cardinality(dims[n]) <= 1
       /\ \A c \in registered[n] : c.name = n /\ Elements(c.labels) \in dims[n]
  /\ removals \in [Collectors -> Nat]
  /\ exporting \subseteq Samples /\ Cardinality(exporting) <= 1
  /\ loaded \subseteq Collectors /\ Cardinality(loaded) <= 1
  /\ serial \in 0..MaxSerial
  /\ tainted \subseteq Names

ExporterInit ==
  /\ cache = [k \in Keys |-> {}]
  /\ registered = [n \in Names |-> {}] /\ dims = [n \in Names |-> {}]
  /\ removals = [c \in Collectors |-> 0] /\ exporting = {} /\ loaded = {} /\ serial = 0
  /\ tainted = {}

\* A name is out of use when nothing of it is cached, loaded or removed.
InUse(n, cached, coming, leaving) ==
  \/ \E k \in Keys : NameOf(k) = n /\ cached[k] # {}
  \/ \E c \in coming : c.name = n
  \/ \E c \in Collectors : c.name = n /\ leaving[c] > 0

-----------------------------------------------------------------------------
\* export: a hit is recorded into the cached collector and nothing changes.
Hit(s) ==
  /\ exporting = {} /\ cache[GenerateKey(s)] # {}
  /\ UNCHANGED exporterVars

Miss(s) ==
  /\ exporting = {} /\ cache[GenerateKey(s)] = {}
  /\ exporting' = {s}
  /\ UNCHANGED <<cache, registered, dims, removals, loaded, serial, tainted>>

OneTwice(p) == \E i, j \in 1..Len(p) : i # j /\ p[i] = p[j]

\* loadMetric: the registry refuses a sample whose label names, in whatever
\* order, are not those the name has had, or have one twice.
Refused(s) == dims[s.name] \ {LabelSet(s)} # {} \/ OneTwice(LabelNames(s))

LoadFails(s) ==
  /\ exporting = {s} /\ loaded = {}
  /\ Refused(s)
  /\ exporting' = {}
  /\ UNCHANGED <<cache, registered, dims, removals, loaded, serial, tainted>>

NewCollector(s) ==
  [symbol |-> getMetricSymbol(s.type), name |-> s.name,
   labels |-> LabelNames(s), serial |-> serial + 1]

Register(s) ==
  /\ exporting = {s} /\ loaded = {} /\ serial < MaxSerial
  /\ ~Refused(s) /\ registered[s.name] = {}
  /\ loaded' = {NewCollector(s)} /\ serial' = serial + 1
  /\ registered' = [registered EXCEPT ![s.name] = loaded']
  /\ dims' = [dims EXCEPT ![s.name] = {LabelSet(s)}]
  /\ UNCHANGED <<cache, removals, exporting, tainted>>

AlreadyRegisteredAs(s, collector) ==
  /\ exporting = {s} /\ loaded = {} /\ serial < MaxSerial
  /\ ~Refused(s) /\ registered[s.name] # {}
  /\ loaded' = collector /\ serial' = serial + 1
  /\ UNCHANGED <<cache, registered, dims, removals, exporting, tainted>>

\* Mutant: the collector that could not be registered is used.
AlreadyRegisteredIgnored(s) == AlreadyRegisteredAs(s, {NewCollector(s)})

\* The existing collector is used, of whatever type it is.
AlreadyRegistered(s) == AlreadyRegisteredAs(s, registered[s.name])

Put(s) ==
  /\ exporting = {s} /\ loaded # {}
  /\ cache' = [cache EXCEPT ![GenerateKey(s)] = loaded]
  /\ exporting' = {} /\ loaded' = {}
  /\ UNCHANGED <<registered, dims, removals, serial, tainted>>

\* The cache: an entry expires after an hour without access.
Expire(k) ==
  /\ cache[k] # {}
  /\ cache' = [cache EXCEPT ![k] = {}]
  /\ removals' = [c \in Collectors |-> removals[c] + IF c \in cache[k] THEN 1 ELSE 0]
  /\ tainted' = tainted \cup {NameOf(k)}
  /\ UNCHANGED <<registered, dims, exporting, loaded, serial>>

\* onRemoval, once for each entry that expired: Unregister takes away
\* whatever has the name.
onRemoval(c) ==
  /\ removals[c] > 0
  /\ removals' = [removals EXCEPT ![c] = @ - 1]
  /\ registered' = [registered EXCEPT ![c.name] = {}]
  /\ tainted' = {n \in tainted : InUse(n, cache, loaded, removals')}
  /\ UNCHANGED <<cache, dims, exporting, loaded, serial>>

ExporterNext ==
  \/ \E s \in Samples :
       \/ Hit(s) \/ Miss(s) \/ LoadFails(s)
       \/ Register(s) \/ AlreadyRegistered(s) \/ Put(s)
  \/ \E k \in Keys : Expire(k)
  \/ \E c \in Collectors : onRemoval(c)

ExporterSpec == ExporterInit /\ [][ExporterNext]_exporterVars

-----------------------------------------------------------------------------
(***************************************************************************)
(* Properties.                                                             *)
(***************************************************************************)

SameLabels(p, q) == Len(p) = Len(q) /\ Elements(p) = Elements(q)

OneOrder(s) ==
  \A q \in Samples : q.name = s.name /\ SameLabels(LabelNames(q), LabelNames(s))
                      => LabelNames(q) = LabelNames(s)

\* A collector is used with as many label values as it has labels, and has
\* the labels of the sample, whatever was registered before by whom:
\* WithLabelValues would panic otherwise.  The values are in the order of the
\* collector's labels, each under its own, unless clients send the name with
\* the same labels in different orders.
LabelsAgree ==
  \A s \in Samples : \A c \in cache[GenerateKey(s)] :
    /\ SameLabels(c.labels, LabelNames(s))
    /\ OneOrder(s) => c.labels = LabelNames(s)

\* The samples of a name are exposed as long as none of its entries has
\* expired, and again from when all of them have: the collector they are
\* recorded into is the registered one.
ExposedUnlessExpired ==
  \A k \in Keys :
    NameOf(k) \notin tainted => cache[k] \subseteq registered[NameOf(k)]

\* Nothing stays in the registry that the cache no longer knows of.
NoneLeftRegistered ==
  \A n \in Names :
    registered[n] # {} => InUse(n, cache, loaded, removals)

\* The registry and the cache go together, through expiries and late calls
\* of the removal listener.
RegistryFollowsCache == ExporterTypeOK /\ ExposedUnlessExpired /\ NoneLeftRegistered

-----------------------------------------------------------------------------
(***************************************************************************)
(* The inductive invariant of MetricsProofs.                               *)
(***************************************************************************)

\* A collector is cached and handed over under its own name and labels, and
\* none that the registry took has a label twice.
WellKeyed ==
  /\ \A k \in Keys : \A c \in cache[k] :
       c.name = NameOf(k) /\ SameLabels(c.labels, LabelsOf(k))
  /\ loaded # {} => exporting # {}
  /\ \A s \in exporting : \A c \in loaded :
       c.name = s.name /\ SameLabels(c.labels, LabelNames(s))
  /\ \A n \in Names : \A c \in registered[n] : ~OneTwice(c.labels)

\* A collector on its way to the cache is the registered one, and a name
\* whose collector is still to be unregistered counts as tainted.
LoadedExposed ==
  /\ \A c \in loaded : c.name \notin tainted => c \in registered[c.name]
  /\ \A c \in Collectors : removals[c] > 0 => c.name \in tainted

ExporterIInv == RegistryFollowsCache /\ WellKeyed /\ LoadedExposed
=============================================================================
