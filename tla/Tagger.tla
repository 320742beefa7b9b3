------------------------------- MODULE Tagger -------------------------------
(***************************************************************************)
(* The tagger (tagger/tagger.go, tagger/tagstore.go) with its two kinds of *)
(* sources: a collector that streams container events                      *)
(* (collectors/docker_main.go, util/docker/event_stream.go) and one that   *)
(* pulls the pod list (collectors/kubelet_main.go, podwatcher.go).         *)
(*                                                                         *)
(* Goroutines: run, which alone empties infoIn; the detections it starts   *)
(* on a ticker, which may overlap; the pulls it starts on another; one     *)
(* stream per streaming collector; and callers of Tag.  The tagger's       *)
(* RWMutex is the set of its readers and of the detections that wait to    *)
(* write: as in Go a waiting writer keeps new readers out.  A writer never *)
(* waits for anything else, so it is one step.                             *)
(*                                                                         *)
(* The tags of an entity from a source are known, known to be none (a      *)
(* cache miss), or not asked for; what they are does not matter here.  A   *)
(* collector knows an entity from when its runtime lists it until it       *)
(* drops it, and an entity may come back: a container that is started      *)
(* again, a pod that is ready again.                                       *)
(***************************************************************************)
EXTENDS Integers, Sequences, FiniteSets

CONSTANTS
  Entities,
  Streamers,        \* collectors whose Detect returns StreamCollection
  Pullers,          \* collectors whose Detect returns PullCollection
  Starters,         \* goroutines in startCollectors
  Callers,          \* goroutines in Tag
  run, pull,        \* the goroutines of run and of pull
  InfoSize,         \* capacity of infoIn
  MaxChanges,       \* bound on entities coming and going
  MaxRetries,       \* bound on detections that fail or ask to be retried
  None

Collectors == Streamers \cup Pullers

ASSUME TaggerAssumption ==
  /\ Streamers \cap Pullers = {}
  /\ InfoSize \in Nat \ {0}
  /\ {MaxChanges, MaxRetries} \subseteq Nat
  /\ Starters # {}
  /\ None \notin Starters \cup Entities
  /\ run # pull /\ Starters \cap Callers = {}
  /\ {run, pull} \cap (Starters \cup Callers) = {}
  /\ (Streamers \X Starters) \cap ({run, pull} \cup Starters \cup Callers) = {}

VARIABLES
  known,            \* what each collector's runtime lists
  changes,          \* how often that changed
  events,           \* eventChan of each streaming collector's subscription
  subscriber,       \* who holds it
  lastSeen,         \* what each pod watcher has reported
  candidates,       \* collectors still to be detected
  streamers,        \* the registered instance of each streaming collector
  pullers,          \* the registered pulling collectors
  retries,          \* how many detections failed or asked to be retried
  infoIn,           \* messages to run: sets of tag infos
  store,            \* what is stored for each entity and source
  cache,            \* what get() computed last for an entity, if valid
  toDelete,         \* entities to prune
  readers,          \* goroutines holding the read lock
  pc,               \* where each goroutine is
  todo,             \* the collectors a goroutine still has to go through
  msg,              \* the message a goroutine is sending on infoIn
  asked,            \* the entity a caller of Tag asks about
  announced         \* history: tags that run has stored since the last prune

sourceVars == <<known, changes, events, subscriber, lastSeen>>
collectorVars == <<candidates, streamers, pullers, retries>>
storeVars == <<store, cache, toDelete, announced>>
localVars == <<todo, msg, asked>>
vars == <<sourceVars, collectorVars, infoIn, storeVars, readers, pc, localVars>>

Streams == Streamers \X Starters    \* an instance: a collector and who made it
Goroutines == {run, pull} \cup Starters \cup Callers \cup Streams
Event == [entity : Entities, start : BOOLEAN]
Info == [entity : Entities, source : Collectors, what : {"tags", "miss", "delete"}]

Entries == [Collectors -> {"none", "tags", "miss"}]
Points == {"init", "loop", "stop", "stopping", "done", "idle", "rlock", "try", "lock",
           "wait", "ended", "pull", "fetch", "send", "store"}

first == CHOOSE s \in Starters : TRUE
fetchers == pullers \cup {c \in Streamers : streamers[c] # None}

Init ==
  /\ known = [c \in Collectors |-> {}]
  /\ changes = 0
  /\ events = [c \in Streamers |-> <<>>]
  /\ subscriber = [c \in Streamers |-> None]
  /\ lastSeen = [c \in Pullers |-> {}]
  /\ candidates = Collectors
  /\ streamers = [c \in Streamers |-> None]
  /\ pullers = {}
  /\ retries = 0
  /\ infoIn = <<>>
  /\ store = [e \in Entities |-> [c \in Collectors |-> "none"]]
  /\ cache = [e \in Entities |-> None]
  /\ toDelete = {}
  /\ readers = {}
  /\ pc = [g \in Goroutines |-> IF g = run THEN "init" ELSE IF g = first THEN "rlock" ELSE "idle"]
  /\ todo = [g \in Goroutines |-> {}]
  /\ msg = [g \in Goroutines |-> {}]
  /\ asked = [q \in Callers |-> None]
  /\ announced = {}

(* Nothing new happens to a tagger that has not been started or is being   *)
(* stopped.                                                                *)
Running == pc[run] = "loop"

Goto(g, from, to) == pc[g] = from /\ pc' = [pc EXCEPT ![g] = to]

(***************************************************************************)
(* The RWMutex.                                                            *)
(***************************************************************************)
RLock(g) ==
  /\ \A s \in Starters : pc[s] # "lock"
  /\ readers' = readers \cup {g}

RUnlock(g) == readers' = readers \ {g}

(***************************************************************************)
(* The runtimes behind the collectors.  Docker reports each change to its  *)
(* subscriber; the kubelet's list is only read.                            *)
(***************************************************************************)
Change(c, e) ==
  /\ Running
  /\ changes < MaxChanges
  /\ changes' = changes + 1
  /\ known' = [known EXCEPT ![c] = IF e \in @ THEN @ \ {e} ELSE @ \cup {e}]
  /\ events' = IF c \in Streamers /\ subscriber[c] # None
               THEN [events EXCEPT ![c] = Append(@, [entity |-> e, start |-> e \notin known[c]])]
               ELSE events
  /\ UNCHANGED <<subscriber, lastSeen, collectorVars, infoIn, storeVars, readers, pc, localVars>>

(***************************************************************************)
(* The store.                                                              *)
(***************************************************************************)
\* Mutant: a cache miss replaces what is there.
StoredAnyway(old, infos) ==
  IF \E i \in infos : i.what = "tags" THEN "tags"
  ELSE IF \E i \in infos : i.what = "miss" THEN "miss"
  ELSE old

(* What a message makes of an entry: a cache miss never replaces anything. *)
Stored(old, infos) ==
  IF \E i \in infos : i.what = "tags" THEN "tags"
  ELSE IF old = "none" /\ \E i \in infos : i.what = "miss" THEN "miss"
  ELSE old

About(infos, e, c) == {i \in infos : i.entity = e /\ i.source = c}

processTagInfo(infos) ==
  /\ store' = [e \in Entities |-> [c \in Collectors |-> Stored(store[e][c], About(infos, e, c))]]
  /\ toDelete' = toDelete \cup {i.entity : i \in {j \in infos : j.what = "delete"}}
  /\ cache' = [e \in Entities |->
                 IF \E i \in infos : i.entity = e /\ i.what # "delete" /\
                                     (i.what = "miss" => store[e][i.source] = "none")
                 THEN None ELSE cache[e]]

(***************************************************************************)
(* run.                                                                    *)
(***************************************************************************)
(* Tagger.Init detects once before it starts run and the first pull.       *)
Start ==
  /\ pc[run] = "init"
  /\ pc[first] = "idle"
  /\ pc' = [pc EXCEPT ![run] = "loop", ![pull] = "rlock"]
  /\ UNCHANGED <<sourceVars, collectorVars, infoIn, storeVars, readers, localVars>>

ReceiveInfo ==
  /\ pc[run] = "loop"
  /\ infoIn # <<>>
  /\ infoIn' = Tail(infoIn)
  /\ processTagInfo(Head(infoIn))
  /\ announced' = announced \cup {<<i.entity, i.source>> : i \in {j \in Head(infoIn) : j.what = "tags"}}
  /\ UNCHANGED <<sourceVars, collectorVars, readers, pc, localVars>>

\* Mutant: the retry ticker is stopped after the first detection.
RetryNever ==
  /\ candidates = Collectors
  /\ \E s \in Starters :
       /\ pc[run] = "loop"
       /\ Goto(s, "idle", "rlock")
  /\ UNCHANGED <<sourceVars, collectorVars, infoIn, storeVars, readers, localVars>>

(* The retry ticker is stopped once there is nothing left to detect.       *)
RetryTick ==
  /\ candidates # {}
  /\ \E s \in Starters :
       /\ pc[run] = "loop"
       /\ Goto(s, "idle", "rlock")
  /\ UNCHANGED <<sourceVars, collectorVars, infoIn, storeVars, readers, localVars>>

PullTick ==
  /\ pc[run] = "loop"
  /\ Goto(pull, "idle", "rlock")
  /\ UNCHANGED <<sourceVars, collectorVars, infoIn, storeVars, readers, localVars>>

prune ==
  /\ pc[run] = "loop"
  /\ toDelete # {}
  /\ store' = [e \in Entities |-> IF e \in toDelete THEN [c \in Collectors |-> "none"] ELSE store[e]]
  /\ cache' = [e \in Entities |-> IF e \in toDelete THEN None ELSE cache[e]]
  /\ announced' = {a \in announced : a[1] \notin toDelete}
  /\ toDelete' = {}
  /\ UNCHANGED <<sourceVars, collectorVars, infoIn, readers, pc, localVars>>

(* Stop hands over its token; run then stops the registered streams one    *)
(* after the other, holding the read lock.                                 *)
Stop ==
  /\ Goto(run, "loop", "stop")
  /\ UNCHANGED <<sourceVars, collectorVars, infoIn, storeVars, readers, localVars>>

StopRLock ==
  /\ Goto(run, "stop", "stopping")
  /\ RLock(run)
  /\ todo' = [todo EXCEPT ![run] = {c \in Streamers : streamers[c] # None}]
  /\ UNCHANGED <<sourceVars, collectorVars, infoIn, storeVars, msg, asked>>

(* The token of a collector's Stop is taken by its stream when it is in    *)
(* its select, which then leaves the subscription.                         *)
StopStream(c) ==
  LET i == <<c, streamers[c]>> IN
    /\ pc[run] = "stopping"
    /\ c \in todo[run]
    /\ pc[i] = "wait"
    /\ pc' = [pc EXCEPT ![i] = "ended"]
    /\ todo' = [todo EXCEPT ![run] = @ \ {c}]
    /\ subscriber' = [subscriber EXCEPT ![c] = None]
    /\ events' = [events EXCEPT ![c] = <<>>]
    /\ UNCHANGED <<known, changes, lastSeen, collectorVars, infoIn, storeVars, readers, msg, asked>>

Stopped ==
  /\ todo[run] = {}
  /\ Goto(run, "stopping", "done")
  /\ RUnlock(run)
  /\ UNCHANGED <<sourceVars, collectorVars, infoIn, storeVars, localVars>>

Stopping == StopRLock \/ Stopped \/ \E c \in Streamers : StopStream(c)

Run == Start \/ ReceiveInfo \/ RetryTick \/ PullTick \/ prune \/ Stop \/ Stopping

(***************************************************************************)
(* startCollectors.  Two detections may hold the read lock at once and     *)
(* find the same collector.                                                *)
(***************************************************************************)
TryRLock(s) ==
  /\ Goto(s, "rlock", "try")
  /\ RLock(s)
  /\ UNCHANGED <<sourceVars, collectorVars, infoIn, storeVars, localVars>>

(* Each candidate answers with its mode or asks to be tried again, and     *)
(* then there is no reply.  todo holds the replies.                        *)
tryCollectors(s) ==
  /\ pc[s] = "try"
  /\ \E again \in SUBSET candidates :
       /\ again = {} \/ retries < MaxRetries
       /\ retries' = IF again = {} THEN retries ELSE retries + 1
       /\ todo' = [todo EXCEPT ![s] = candidates \ again]
       /\ pc' = [pc EXCEPT ![s] = IF candidates \subseteq again THEN "idle" ELSE "lock"]
  /\ RUnlock(s)
  /\ UNCHANGED <<sourceVars, candidates, streamers, pullers, infoIn, storeVars, msg, asked>>

(* Whatever the outcome, a collector that replied is not tried again.      *)
Left(replies) == candidates \ replies

(* The instances that were detected (ok) replace earlier ones of the same  *)
(* name; their streams start, and a stream that finds the subscription     *)
(* taken ends.                                                             *)
registerCollectors(s) ==
  /\ pc[s] = "lock"
  /\ readers = {}
  /\ candidates' = Left(todo[s])
  /\ \E ok \in SUBSET todo[s] :
       /\ ok = todo[s] \/ retries < MaxRetries
       /\ retries' = IF ok = todo[s] THEN retries ELSE retries + 1
       /\ pullers' = pullers \cup (ok \cap Pullers)
       /\ lastSeen' = [c \in Pullers |-> IF c \in ok THEN {} ELSE lastSeen[c]]
       /\ streamers' = [c \in Streamers |-> IF c \in ok THEN s ELSE streamers[c]]
       /\ subscriber' = [c \in Streamers |-> IF c \in ok /\ subscriber[c] = None THEN s ELSE subscriber[c]]
       /\ pc' = [g \in Goroutines |->
                   IF g = s THEN "idle"
                   ELSE IF g \in {<<c, s>> : c \in ok \cap Streamers}
                   THEN (IF subscriber[g[1]] = None THEN "wait" ELSE "ended")
                   ELSE pc[g]]
  /\ todo' = [todo EXCEPT ![s] = {}]
  /\ UNCHANGED <<known, changes, events, infoIn, storeVars, readers, msg, asked>>

Starter(s) == TryRLock(s) \/ tryCollectors(s) \/ registerCollectors(s)

(***************************************************************************)
(* Sending on infoIn, by a stream, a pull or a caller of Tag.              *)
(***************************************************************************)
Send(g, to) ==
  /\ Len(infoIn) < InfoSize
  /\ infoIn' = Append(infoIn, msg[g])
  /\ msg' = [msg EXCEPT ![g] = {}]
  /\ Goto(g, "send", to)

(***************************************************************************)
(* A stream: an event becomes a message.  Nobody sends on errorChan, which *)
(* is closed only after the stream has left the subscription.              *)
(***************************************************************************)
processEvent(i) ==
  /\ Goto(i, "wait", "send")
  /\ events[i[1]] # <<>>
  /\ LET ev == Head(events[i[1]]) IN
       msg' = [msg EXCEPT ![i] = {[entity |-> ev.entity, source |-> i[1],
                                   what |-> IF ev.start THEN "tags" ELSE "delete"]}]
  /\ events' = [events EXCEPT ![i[1]] = Tail(@)]
  /\ UNCHANGED <<known, changes, subscriber, lastSeen, collectorVars, infoIn, storeVars, readers, todo, asked>>

StreamSend(i) ==
  /\ Send(i, "wait")
  /\ UNCHANGED <<sourceVars, collectorVars, storeVars, readers, todo, asked>>

(***************************************************************************)
(* A pull: for each puller what is new in its list, and at times what has  *)
(* expired, while the read lock is held.                                   *)
(***************************************************************************)
PullRLock ==
  /\ Goto(pull, "rlock", "pull")
  /\ RLock(pull)
  /\ todo' = [todo EXCEPT ![pull] = pullers]
  /\ UNCHANGED <<sourceVars, collectorVars, infoIn, storeVars, msg, asked>>

Infos(c, es, what) == {[entity |-> e, source |-> c, what |-> what] : e \in es}

PullChanges(c) ==
  /\ c \in todo[pull]
  /\ Goto(pull, "pull", "send")
  /\ msg' = [msg EXCEPT ![pull] = Infos(c, known[c] \ lastSeen[c], "tags")]
  /\ lastSeen' = [lastSeen EXCEPT ![c] = @ \cup known[c]]
  /\ todo' = [todo EXCEPT ![pull] = @ \ {c}]
  /\ UNCHANGED <<known, changes, events, subscriber, collectorVars, infoIn, storeVars, readers, asked>>

(* The pod list cannot be had, or not parsed: nothing is sent.             *)
PullError(c) ==
  /\ pc[pull] = "pull"
  /\ c \in todo[pull]
  /\ todo' = [todo EXCEPT ![pull] = @ \ {c}]
  /\ UNCHANGED <<sourceVars, collectorVars, infoIn, storeVars, readers, pc, msg, asked>>

PullSend ==
  /\ Send(pull, "pull")
  /\ UNCHANGED <<sourceVars, collectorVars, storeVars, readers, todo, asked>>

(* Expire right after the changes were sent.                               *)
PullExpire(c) ==
  /\ c \in pullers \ todo[pull]
  /\ lastSeen[c] \ known[c] # {}
  /\ Goto(pull, "pull", "send")
  /\ msg' = [msg EXCEPT ![pull] = Infos(c, lastSeen[c] \ known[c], "delete")]
  /\ lastSeen' = [lastSeen EXCEPT ![c] = @ \cap known[c]]
  /\ UNCHANGED <<known, changes, events, subscriber, collectorVars, infoIn, storeVars, readers, todo, asked>>

\* Mutant: the read lock is kept.
PullEndLocked ==
  /\ todo[pull] = {}
  /\ Goto(pull, "pull", "idle")
  /\ UNCHANGED <<sourceVars, collectorVars, infoIn, storeVars, readers, localVars>>

PullEnd ==
  /\ todo[pull] = {}
  /\ Goto(pull, "pull", "idle")
  /\ RUnlock(pull)
  /\ UNCHANGED <<sourceVars, collectorVars, infoIn, storeVars, localVars>>

Pull == PullRLock \/ PullSend \/ PullEnd \/ \E c \in Pullers : PullChanges(c) \/ PullError(c) \/ PullExpire(c)

(***************************************************************************)
(* Tag.  What lookup finds in the cache of the entity decides whether      *)
(* collectors are asked; their answers are stored one by one, after the    *)
(* fetch and outside any lock the store's other writers would hold.        *)
(***************************************************************************)
Cached(e) == IF cache[e] = None THEN store[e] ELSE cache[e]
Sources(e) == {c \in Collectors : Cached(e)[c] # "none"}
StoredFor(e) == \E c \in Collectors : store[e][c] # "none"

lookup(q) ==
  /\ Running
  /\ pc[q] = "idle"
  /\ \E e \in Entities :
       /\ cache' = IF StoredFor(e) THEN [cache EXCEPT ![e] = Cached(e)] ELSE cache
       /\ Cardinality(Sources(e)) # Cardinality(fetchers)
       /\ asked' = [asked EXCEPT ![q] = e]
       /\ todo' = [todo EXCEPT ![q] = Sources(e)]
  /\ pc' = [pc EXCEPT ![q] = "rlock"]
  /\ UNCHANGED <<sourceVars, collectorVars, infoIn, store, toDelete, announced, readers, msg>>

(* All sources were found: only the cache is written.                      *)
lookupHit(q) ==
  /\ Running
  /\ pc[q] = "idle"
  /\ \E e \in Entities :
       /\ StoredFor(e)
       /\ Cardinality(Sources(e)) = Cardinality(fetchers)
       /\ cache' = [cache EXCEPT ![e] = Cached(e)]
  /\ UNCHANGED <<sourceVars, collectorVars, infoIn, store, toDelete, announced, readers, pc, localVars>>

TagRLock(q) ==
  /\ Goto(q, "rlock", "fetch")
  /\ RLock(q)
  /\ todo' = [todo EXCEPT ![q] = fetchers \ @]
  /\ UNCHANGED <<sourceVars, collectorVars, infoIn, storeVars, msg, asked>>

(* What a collector answers: its tags, not found, or an error, after which *)
(* nothing is stored.  A stopped container can still be inspected.  The    *)
(* pulling collector sends what it found to infoIn too, and that may not   *)
(* be about the entity.                                                    *)
Fetch(q, c) ==
  /\ pc[q] = "fetch"
  /\ c \in todo[q]
  /\ \E what \in {"tags", "miss", "error"} :
       /\ what = "miss" => asked[q] \notin known[c]
       /\ what = "tags" => asked[q] \in known[c] \/ c \in Streamers
       /\ IF what = "error"
          THEN UNCHANGED <<pc, msg>> /\ todo' = [todo EXCEPT ![q] = @ \ {c}]
          ELSE /\ msg' = [msg EXCEPT ![q] = Infos(c, {asked[q]}, what)]
               /\ \/ c \in Pullers /\ pc' = [pc EXCEPT ![q] = "send"]
                  \/ ~(c \in Pullers /\ what = "tags") /\ pc' = [pc EXCEPT ![q] = "store"]
               /\ UNCHANGED todo
  /\ UNCHANGED <<sourceVars, collectorVars, infoIn, storeVars, readers, asked>>

FetchSend(q) ==
  /\ pc[q] = "send"
  /\ Len(infoIn) < InfoSize
  /\ infoIn' = Append(infoIn, {i \in msg[q] : i.what = "tags"})
  /\ pc' = [pc EXCEPT ![q] = "store"]
  /\ UNCHANGED <<sourceVars, collectorVars, storeVars, readers, localVars>>

StoreFetched(q) ==
  /\ Goto(q, "store", "fetch")
  /\ processTagInfo(msg[q])
  /\ todo' = [todo EXCEPT ![q] = @ \ {i.source : i \in msg[q]}]
  /\ msg' = [msg EXCEPT ![q] = {}]
  /\ UNCHANGED <<sourceVars, collectorVars, infoIn, announced, readers, asked>>

TagEnd(q) ==
  /\ todo[q] = {}
  /\ Goto(q, "fetch", "idle")
  /\ RUnlock(q)
  /\ asked' = [asked EXCEPT ![q] = None]
  /\ UNCHANGED <<sourceVars, collectorVars, infoIn, storeVars, todo, msg>>

Answer(q) == TagRLock(q) \/ FetchSend(q) \/ StoreFetched(q) \/ TagEnd(q) \/ \E c \in Collectors : Fetch(q, c)

Next ==
  \/ \E c \in Collectors, e \in Entities : Change(c, e)
  \/ Run
  \/ \E s \in Starters : Starter(s)
  \/ \E i \in Streams : processEvent(i) \/ StreamSend(i)
  \/ Pull
  \/ \E q \in Callers : lookup(q) \/ lookupHit(q) \/ Answer(q)

Spec == Init /\ [][Next]_vars

(* Goroutines keep going, run's select takes each ready case at some time, *)
(* and a detection that may be retried does not ask for it for ever.       *)
FairSpec ==
  /\ Spec
  /\ WF_vars(ReceiveInfo) /\ WF_vars(RetryTick)
  /\ WF_vars(Start \/ Stopping)
  /\ \A s \in Starters : WF_vars(Starter(s))
  /\ WF_vars(\E i \in Streams : StreamSend(i))
  /\ WF_vars(Pull)
  /\ \A q \in Callers : WF_vars(Answer(q))

(***************************************************************************)
(* Properties.                                                             *)
(***************************************************************************)
SourceTypeOK ==
  /\ known \in [Collectors -> SUBSET Entities]
  /\ changes \in 0..MaxChanges
  /\ events \in [Streamers -> Seq(Event)]
  /\ subscriber \in [Streamers -> Starters \cup {None}]
  /\ lastSeen \in [Pullers -> SUBSET Entities]

CollectorTypeOK ==
  /\ candidates \subseteq Collectors
  /\ streamers \in [Streamers -> Starters \cup {None}]
  /\ pullers \subseteq Pullers
  /\ retries \in 0..MaxRetries
  /\ fetchers \cap candidates = {}

StoreTypeOK ==
  /\ store \in [Entities -> Entries]
  /\ cache \in [Entities -> Entries \cup {None}]
  /\ toDelete \subseteq Entities
  /\ announced \subseteq Entities \X Collectors

ControlTypeOK ==
  /\ infoIn \in Seq(SUBSET Info) /\ Len(infoIn) <= InfoSize
  /\ readers \subseteq Goroutines
  /\ pc \in [Goroutines -> Points]
  /\ todo \in [Goroutines -> SUBSET Collectors]
  /\ msg \in [Goroutines -> SUBSET Info]
  /\ asked \in [Callers -> Entities \cup {None}]

TypeOK == SourceTypeOK /\ CollectorTypeOK /\ StoreTypeOK /\ ControlTypeOK

(***************************************************************************)
(* CacheAgrees: the tags get() has computed for an entity are those of its *)
(* stored entries as long as they count as valid, whoever stores next to   *)
(* it: run, or a caller of Tag with an old answer.                         *)
(***************************************************************************)
CacheAgrees == \A e \in Entities : cache[e] # None => cache[e] = store[e]

(***************************************************************************)
(* AnnouncedKept: tags a collector has sent stay until the entity is       *)
(* pruned: a caller of Tag whose fetch found nothing, before the collector *)
(* learned of the entity, does not put its cache miss over them.           *)
(***************************************************************************)
AnnouncedKept == \A a \in announced : store[a[1]][a[2]] = "tags"

(***************************************************************************)
(* TagsSound: what the store and its cache say of an entity is right,      *)
(* whatever run, pulls and callers do to them.                             *)
(***************************************************************************)
TagsSound == TypeOK /\ CacheAgrees /\ AnnouncedKept

(***************************************************************************)
(* CollectorsStarted: every candidate is registered at last while the      *)
(* tagger runs, although pulls and callers hold the read lock while they   *)
(* wait for room in infoIn.                                                *)
(***************************************************************************)
CollectorsStarted == []<>(candidates = {} \/ pc[run] \in {"stop", "stopping", "done"})

(***************************************************************************)
(* StopReturnsUnlessStuck: once Stop was called run ends, unless           *)
(* somebody waits with the read lock for room in infoIn, which run no      *)
(* longer empties, while a detection waits to write; or the stream to be   *)
(* stopped waits for room in infoIn or found the subscription taken.  (A   *)
(* tagger never leaves these two states but to be done.)                   *)
(***************************************************************************)
StuckOnLock ==
  /\ \E s \in Starters : pc[s] = "lock"
  /\ \E g \in readers : pc[g] = "send" /\ Len(infoIn) = InfoSize

StuckOnStream ==
  \E c \in todo[run] :
    \/ pc[<<c, streamers[c]>>] = "ended"
    \/ pc[<<c, streamers[c]>>] = "send" /\ Len(infoIn) = InfoSize

StopReturnsUnlessStuck ==
  []<>(pc[run] \in {"stop", "stopping"} => StuckOnLock \/ StuckOnStream)

(***************************************************************************)
(* The inductive invariant of StoresProofs: a caller of Tag that is past   *)
(* its lookup knows the entity it asks about, and run stops only streams   *)
(* that are registered.                                                    *)
(***************************************************************************)
AskedKnown == \A q \in Callers : pc[q] # "idle" => asked[q] \in Entities

StopsRegistered == \A c \in todo[run] : c \in Streamers /\ streamers[c] # None

IInv == TagsSound /\ AskedKnown /\ StopsRegistered
=============================================================================
