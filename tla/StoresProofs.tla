---------------------------- MODULE StoresProofs ----------------------------
(***************************************************************************)
(* Proofs about the stores that follow what others report: the Tagger's,   *)
(* and the one of NodeSync, which a node polls.                            *)
(***************************************************************************)
EXTENDS Tagger, NodeSync, TLAPS

-----------------------------------------------------------------------------
(***************************************************************************)
(* Tagger, for every set of entities, of collectors and of callers of Tag, *)
(* any number of overlapping detections, any capacity of infoIn and any    *)
(* number of changes and retries.                                          *)
(***************************************************************************)
\* What the store, its cache and its history say, without the rest.
StoreSound == StoreTypeOK /\ CacheAgrees /\ AnnouncedKept

\* A caller that has an entity in hand, and the types of what goroutines hold.
ControlSound == ControlTypeOK /\ AskedKnown

-----------------------------------------------------------------------------
(***************************************************************************)
(* The goroutines.                                                         *)
(***************************************************************************)

\* The first detection is one of the detections.
LEMMA FirstIsStarter == first \in Starters
  BY TaggerAssumption DEF TaggerAssumption, first

\* No two goroutines of different kinds are the same.
LEMMA Distinct ==
  /\ run # pull
  /\ \A s \in Starters : s # run /\ s # pull /\ s \notin Callers /\ s \notin Streams /\ s # None
  /\ \A q \in Callers : q # run /\ q # pull /\ q \notin Starters /\ q \notin Streams
  /\ run \notin Streams /\ pull \notin Streams
  BY TaggerAssumption DEF TaggerAssumption, Streams

\* Every actor is a goroutine of the tagger.
LEMMA GoroutinesOf ==
  /\ run \in Goroutines /\ pull \in Goroutines
  /\ Starters \subseteq Goroutines /\ Callers \subseteq Goroutines
  /\ Streams \subseteq Goroutines
  BY DEF Goroutines

\* A message about entities of one source is made of infos.
LEMMA InfosType ==
  ASSUME NEW c \in Collectors, NEW es \in SUBSET Entities,
         NEW what \in {"tags", "miss", "delete"}
  PROVE  Infos(c, es, what) \in SUBSET Info
  BY DEF Infos, Info

-----------------------------------------------------------------------------
(***************************************************************************)
(* The store.                                                              *)
(***************************************************************************)

\* What a message makes of an entry is an entry.
LEMMA StoredType ==
  ASSUME NEW old \in {"none", "tags", "miss"}, NEW infos
  PROVE  Stored(old, infos) \in {"none", "tags", "miss"}
  BY DEF Stored

\* A message leaves an entry alone unless it brings tags, or a cache miss for
\* an entry with nothing in it.
LEMMA StoredSame ==
  ASSUME NEW old, NEW infos,
         \A i \in infos : i.what = "delete" \/ (i.what = "miss" /\ old # "none")
  PROVE  Stored(old, infos) = old
  BY DEF Stored

\* No message takes tags away.
LEMMA StoredKeepsTags ==
  ASSUME NEW infos
  PROVE  Stored("tags", infos) = "tags"
  BY DEF Stored

\* processTagInfo, whoever calls it: the cached tags of an entity are reset
\* whenever one of its entries changes, and tags stay.
LEMMA ProcessTagInfoSound ==
  ASSUME StoreSound, NEW infos \in SUBSET Info, processTagInfo(infos)
  PROVE  /\ store' \in [Entities -> Entries]
         /\ cache' \in [Entities -> Entries \cup {None}]
         /\ toDelete' \subseteq Entities
         /\ CacheAgrees'
         /\ \A e \in Entities, c \in Collectors :
              \/ store[e][c] = "tags"
              \/ \E i \in infos : i.entity = e /\ i.source = c /\ i.what = "tags"
              => store'[e][c] = "tags"
  <1>1. store' = [e \in Entities |-> [c \in Collectors |-> Stored(store[e][c], About(infos, e, c))]]
    BY DEF processTagInfo
  <1>2. ASSUME NEW e \in Entities
        PROVE  /\ store'[e] = [c \in Collectors |-> Stored(store[e][c], About(infos, e, c))]
               /\ store[e] \in Entries
    BY <1>1 DEF StoreSound, StoreTypeOK
  <1>3. ASSUME NEW e \in Entities PROVE store'[e] \in Entries
    <2>1. \A c \in Collectors : Stored(store[e][c], About(infos, e, c)) \in {"none", "tags", "miss"}
      BY <1>2, StoredType DEF Entries
    <2> QED BY <1>2, <2>1 DEF Entries
  <1>4. store' \in [Entities -> Entries]
    BY <1>1, <1>3
  <1>5. cache' \in [Entities -> Entries \cup {None}]
    BY DEF processTagInfo, StoreSound, StoreTypeOK
  <1>6. toDelete' \subseteq Entities
    BY DEF processTagInfo, StoreSound, StoreTypeOK, Info
  <1>7. ASSUME NEW e \in Entities, cache'[e] # None
        PROVE  cache'[e] = store'[e]
    <2>1. /\ cache'[e] = cache[e]
          /\ ~ \E i \in infos : i.entity = e /\ i.what # "delete" /\
                                (i.what = "miss" => store[e][i.source] = "none")
      BY <1>7 DEF processTagInfo
    <2>2. ASSUME NEW c \in Collectors
          PROVE  Stored(store[e][c], About(infos, e, c)) = store[e][c]
      <3>1. \A i \in About(infos, e, c) :
               i.what = "delete" \/ (i.what = "miss" /\ store[e][c] # "none")
        BY <2>1 DEF About, Info
      <3> QED BY <3>1, StoredSame
    <2>3. store'[e] = store[e]
      BY <1>2, <2>2 DEF Entries
    <2> QED BY <1>7, <2>1, <2>3 DEF StoreSound, CacheAgrees
  <1>8. CacheAgrees'
    BY <1>7 DEF CacheAgrees
  <1>9. ASSUME NEW e \in Entities, NEW c \in Collectors,
               \/ store[e][c] = "tags"
               \/ \E i \in infos : i.entity = e /\ i.source = c /\ i.what = "tags"
        PROVE  store'[e][c] = "tags"
    <2>1. store'[e][c] = Stored(store[e][c], About(infos, e, c))
      BY <1>2
    <2>2. CASE store[e][c] = "tags"
      BY <2>1, <2>2, StoredKeepsTags
    <2>3. CASE \E i \in infos : i.entity = e /\ i.source = c /\ i.what = "tags"
      <3>1. \E i \in About(infos, e, c) : i.what = "tags"
        BY <2>3 DEF About
      <3> QED BY <2>1, <3>1 DEF Stored
    <2> QED BY <1>9, <2>2, <2>3
  <1> QED BY <1>4, <1>5, <1>6, <1>8, <1>9

-----------------------------------------------------------------------------
(***************************************************************************)
(* The steps that write the store.                                         *)
(***************************************************************************)

\* run stores a message and notes its tags as announced.
LEMMA ReceiveInfoStore ==
  ASSUME StoreSound, ControlSound, ReceiveInfo
  PROVE  StoreSound'
  <1>1. PICK infos : infos = Head(infoIn)
    OBVIOUS
  <1>2. infos \in SUBSET Info
    BY <1>1 DEF ControlSound, ControlTypeOK, ReceiveInfo
  <1>3. processTagInfo(infos)
    BY <1>1 DEF ReceiveInfo
  <1>4. announced' = announced \cup {<<i.entity, i.source>> : i \in {j \in infos : j.what = "tags"}}
    BY <1>1 DEF ReceiveInfo
  <1>5. announced \subseteq Entities \X Collectors /\ \A a \in announced : store[a[1]][a[2]] = "tags"
    BY DEF StoreSound, StoreTypeOK, AnnouncedKept
  <1>6. announced' \subseteq Entities \X Collectors
    BY <1>2, <1>4, <1>5 DEF Info
  <1>7. ASSUME NEW a \in announced' PROVE store'[a[1]][a[2]] = "tags"
    <2>1. a[1] \in Entities /\ a[2] \in Collectors
      BY <1>6
    <2>2. CASE a \in announced
      BY <2>1, <2>2, <1>2, <1>3, <1>5, ProcessTagInfoSound
    <2>3. CASE \E i \in infos : i.what = "tags" /\ a = <<i.entity, i.source>>
      <3>1. \E i \in infos : i.entity = a[1] /\ i.source = a[2] /\ i.what = "tags"
        BY <2>3
      <3> QED BY <2>1, <3>1, <1>2, <1>3, ProcessTagInfoSound
    <2> QED BY <1>4, <2>2, <2>3
  <1> QED BY <1>2, <1>3, <1>6, <1>7, ProcessTagInfoSound DEF StoreSound,
             StoreTypeOK, AnnouncedKept

\* A caller stores what it fetched, however old that is.
LEMMA StoreFetchedStore ==
  ASSUME StoreSound, ControlSound, NEW q \in Callers, StoreFetched(q)
  PROVE  StoreSound'
  <1>1. PICK infos : infos = msg[q]
    OBVIOUS
  <1>2. infos \in SUBSET Info
    BY <1>1, GoroutinesOf DEF ControlSound, ControlTypeOK
  <1>3. processTagInfo(infos) /\ announced' = announced
    BY <1>1 DEF StoreFetched
  <1>4. announced \subseteq Entities \X Collectors /\ \A a \in announced : store[a[1]][a[2]] = "tags"
    BY DEF StoreSound, StoreTypeOK, AnnouncedKept
  <1>5. ASSUME NEW a \in announced PROVE store'[a[1]][a[2]] = "tags"
    <2>1. a[1] \in Entities /\ a[2] \in Collectors
      BY <1>4
    <2> QED BY <2>1, <1>2, <1>3, <1>4, ProcessTagInfoSound
  <1> QED BY <1>2, <1>3, <1>4, <1>5, ProcessTagInfoSound DEF StoreSound,
             StoreTypeOK, AnnouncedKept

\* A prune drops an entity with its cache and its history.
LEMMA PruneStore ==
  ASSUME StoreSound, prune
  PROVE  StoreSound'
  <1> USE DEF StoreSound, prune
  <1>1. StoreTypeOK'
    BY DEF StoreTypeOK, Entries
  <1>2. CacheAgrees'
    BY DEF CacheAgrees, StoreTypeOK
  <1>3. ASSUME NEW a \in announced' PROVE store'[a[1]][a[2]] = "tags"
    <2>1. a \in announced /\ a[1] \in Entities /\ a[1] \notin toDelete
      BY DEF StoreTypeOK
    <2> QED BY <2>1 DEF AnnouncedKept
  <1> QED BY <1>1, <1>2, <1>3 DEF AnnouncedKept

\* A lookup writes to the cache what is stored.
LEMMA LookupStore ==
  ASSUME StoreSound, NEW q \in Callers, lookup(q) \/ lookupHit(q)
  PROVE  StoreSound'
  <1>1. UNCHANGED <<store, toDelete, announced>>
    BY DEF lookup, lookupHit
  <1>2. PICK e \in Entities : cache' = [cache EXCEPT ![e] = Cached(e)] \/ cache' = cache
    BY DEF lookup, lookupHit
  <1>3. Cached(e) = store[e]
    BY DEF Cached, StoreSound, CacheAgrees
  <1>4. StoreTypeOK'
    BY <1>1, <1>2, <1>3 DEF StoreSound, StoreTypeOK
  <1>5. CacheAgrees'
    BY <1>1, <1>2, <1>3 DEF StoreSound, StoreTypeOK, CacheAgrees
  <1>6. AnnouncedKept'
    BY <1>1 DEF StoreSound, AnnouncedKept
  <1> QED BY <1>4, <1>5, <1>6 DEF StoreSound

\* Nothing else touches it.
LEMMA NextStore ==
  ASSUME StoreSound, ControlSound, [Next]_vars
  PROVE  StoreSound'
  <1>1. CASE UNCHANGED storeVars
    BY <1>1 DEF storeVars, StoreSound, StoreTypeOK, CacheAgrees, AnnouncedKept
  <1>2. CASE UNCHANGED vars
    BY <1>1, <1>2 DEF vars
  <1>3. ASSUME NEW c \in Collectors, NEW e \in Entities, Change(c, e) PROVE StoreSound'
    BY <1>1, <1>3 DEF Change
  <1>4. CASE Run
    BY <1>1, <1>4, ReceiveInfoStore, PruneStore
       DEF Run, Start, RetryTick, PullTick, Stop, Stopping, StopRLock, StopStream, Stopped
  <1>5. ASSUME NEW s \in Starters, Starter(s) PROVE StoreSound'
    BY <1>1, <1>5 DEF Starter, TryRLock, tryCollectors, registerCollectors
  <1>6. ASSUME NEW i \in Streams, processEvent(i) \/ StreamSend(i)
        PROVE  StoreSound'
    BY <1>1, <1>6 DEF processEvent, StreamSend
  <1>7. CASE Pull
    BY <1>1, <1>7 DEF Pull, PullRLock, PullSend, PullEnd, PullChanges,
           PullError, PullExpire
  <1>8. ASSUME NEW q \in Callers, lookup(q) \/ lookupHit(q) \/ Answer(q) PROVE StoreSound'
    <2>1. CASE lookup(q) \/ lookupHit(q)
      BY <2>1, LookupStore
    <2>2. CASE StoreFetched(q)
      BY <2>2, StoreFetchedStore
    <2>3. CASE Answer(q) /\ ~StoreFetched(q)
      BY <1>1, <2>3 DEF Answer, TagRLock, FetchSend, TagEnd, Fetch
    <2> QED BY <1>8, <2>1, <2>2, <2>3
  <1> QED BY <1>2, <1>3, <1>4, <1>5, <1>6, <1>7, <1>8 DEF Next

-----------------------------------------------------------------------------
(***************************************************************************)
(* The runtimes and the collectors.                                        *)
(***************************************************************************)

\* A detection registers only collectors that leave the candidates with it.
LEMMA RegisterCollectorsType ==
  ASSUME SourceTypeOK, CollectorTypeOK, ControlTypeOK, NEW s \in Starters,
         registerCollectors(s)
  PROVE  SourceTypeOK' /\ CollectorTypeOK'
  <1>1. PICK ok \in SUBSET todo[s] :
          /\ ok = todo[s] \/ retries < MaxRetries
          /\ retries' = IF ok = todo[s] THEN retries ELSE retries + 1
          /\ pullers' = pullers \cup (ok \cap Pullers)
          /\ lastSeen' = [c \in Pullers |-> IF c \in ok THEN {} ELSE lastSeen[c]]
          /\ streamers' = [c \in Streamers |-> IF c \in ok THEN s ELSE streamers[c]]
          /\ subscriber' = [c \in Streamers |-> IF c \in ok /\ subscriber[c] = None THEN s ELSE subscriber[c]]
    BY DEF registerCollectors
  <1>2. candidates' = candidates \ todo[s] /\ UNCHANGED <<known, changes, events>>
    BY DEF registerCollectors, Left
  <1>3. fetchers' \subseteq fetchers \cup ok
    BY <1>1 DEF fetchers
  <1>4. fetchers' \cap candidates' = {}
    BY <1>1, <1>2, <1>3 DEF CollectorTypeOK
  <1>5. retries' \in 0..MaxRetries
    BY <1>1, TaggerAssumption DEF CollectorTypeOK, TaggerAssumption
  <1>6. SourceTypeOK'
    BY <1>1, <1>2 DEF SourceTypeOK
  <1>7. CollectorTypeOK'
    BY <1>1, <1>2, <1>4, <1>5 DEF CollectorTypeOK
  <1> QED BY <1>6, <1>7

\* A detection that only asks keeps what is registered.
LEMMA TryCollectorsType ==
  ASSUME CollectorTypeOK, NEW s \in Starters, tryCollectors(s)
  PROVE  CollectorTypeOK'
  <1>1. retries' \in 0..MaxRetries
    BY TaggerAssumption DEF tryCollectors, CollectorTypeOK, TaggerAssumption
  <1>2. UNCHANGED <<candidates, streamers, pullers>>
    BY DEF tryCollectors
  <1> QED BY <1>1, <1>2 DEF CollectorTypeOK, fetchers

\* Every step keeps the types of the collectors, and no registered collector
\* becomes a candidate again.
LEMMA NextCollectors ==
  ASSUME SourceTypeOK, CollectorTypeOK, ControlTypeOK, [Next]_vars
  PROVE  CollectorTypeOK'
  <1>1. CASE UNCHANGED collectorVars
    BY <1>1 DEF collectorVars, CollectorTypeOK, fetchers
  <1>2. CASE UNCHANGED vars
    BY <1>1, <1>2 DEF vars
  <1>3. ASSUME NEW c \in Collectors, NEW e \in Entities, Change(c, e) PROVE CollectorTypeOK'
    BY <1>1, <1>3 DEF Change
  <1>4. CASE Run
    BY <1>1, <1>4 DEF Run, Start, RetryTick, PullTick, Stop, Stopping,
           StopRLock,
         StopStream, Stopped, ReceiveInfo, prune
  <1>5. ASSUME NEW s \in Starters, Starter(s) PROVE CollectorTypeOK'
    BY <1>1, <1>5, RegisterCollectorsType, TryCollectorsType DEF Starter,
           TryRLock
  <1>6. ASSUME NEW i \in Streams, processEvent(i) \/ StreamSend(i)
        PROVE  CollectorTypeOK'
    BY <1>1, <1>6 DEF processEvent, StreamSend
  <1>7. CASE Pull
    BY <1>1, <1>7 DEF Pull, PullRLock, PullSend, PullEnd, PullChanges,
           PullError, PullExpire
  <1>8. ASSUME NEW q \in Callers, lookup(q) \/ lookupHit(q) \/ Answer(q) PROVE CollectorTypeOK'
    BY <1>1, <1>8 DEF lookup, lookupHit, Answer, TagRLock, FetchSend,
           StoreFetched, TagEnd, Fetch
  <1> QED BY <1>2, <1>3, <1>4, <1>5, <1>6, <1>7, <1>8 DEF Next

\* What a runtime lists and reports is about entities.
LEMMA ChangeType ==
  ASSUME SourceTypeOK, NEW c \in Collectors, NEW e \in Entities, Change(c, e)
  PROVE  SourceTypeOK'
  <1>1. known' \in [Collectors -> SUBSET Entities]
    BY DEF Change, SourceTypeOK
  <1>2. changes' \in 0..MaxChanges
    BY TaggerAssumption DEF Change, SourceTypeOK, TaggerAssumption
  <1>3. events' \in [Streamers -> Seq(Event)]
    <2>1. PICK ev : ev = [entity |-> e, start |-> e \notin known[c]]
      OBVIOUS
    <2>2. (e \notin known[c]) \in BOOLEAN
      BY Zenon
    <2>3. ev \in Event
      BY <2>1, <2>2, Zenon DEF Event
    <2>4. events' = IF c \in Streamers /\ subscriber[c] # None
                    THEN [events EXCEPT ![c] = Append(@, ev)] ELSE events
      BY <2>1 DEF Change
    <2>5. c \in Streamers => Append(events[c], ev) \in Seq(Event)
      BY <2>3 DEF SourceTypeOK
    <2> QED BY <2>4, <2>5 DEF SourceTypeOK
  <1> QED BY <1>1, <1>2, <1>3 DEF Change, SourceTypeOK

\* Every step keeps the types of what the runtimes and their watchers hold.
LEMMA NextSources ==
  ASSUME SourceTypeOK, CollectorTypeOK, ControlTypeOK, [Next]_vars
  PROVE  SourceTypeOK'
  <1>1. CASE UNCHANGED sourceVars
    BY <1>1 DEF sourceVars, SourceTypeOK
  <1>2. CASE UNCHANGED vars
    BY <1>1, <1>2 DEF vars
  <1>3. ASSUME NEW c \in Collectors, NEW e \in Entities, Change(c, e) PROVE SourceTypeOK'
    BY <1>3, ChangeType
  <1>4. ASSUME NEW c \in Streamers, StopStream(c) PROVE SourceTypeOK'
    <2>1. /\ events' = [events EXCEPT ![c] = <<>>]
          /\ subscriber' = [subscriber EXCEPT ![c] = None]
          /\ UNCHANGED <<known, changes, lastSeen>>
      BY <1>4 DEF StopStream
    <2>2. <<>> \in Seq(Event)
      OBVIOUS
    <2> QED BY <2>1, <2>2 DEF SourceTypeOK
  <1>5. CASE Run
    BY <1>1, <1>4, <1>5 DEF Run, Start, RetryTick, PullTick, Stop, Stopping,
           StopRLock,
         Stopped, ReceiveInfo, prune
  <1>6. ASSUME NEW s \in Starters, Starter(s) PROVE SourceTypeOK'
    BY <1>1, <1>6, RegisterCollectorsType DEF Starter, TryRLock, tryCollectors
  <1>7. ASSUME NEW i \in Streams, processEvent(i) \/ StreamSend(i)
        PROVE  SourceTypeOK'
    <2>1. CASE processEvent(i)
      <3>1. i[1] \in Streamers
        BY DEF Streams
      <3>2. PICK es : es = events[i[1]]
        OBVIOUS
      <3>3. es # <<>> /\ es \in Seq(Event)
            /\ events' = [events EXCEPT ![i[1]] = Tail(es)]
            /\ UNCHANGED <<known, changes, subscriber, lastSeen>>
        BY <2>1, <3>1, <3>2 DEF processEvent, SourceTypeOK
      <3>4. Tail(es) \in Seq(Event)
        BY <3>3
      <3> QED BY <3>1, <3>3, <3>4 DEF SourceTypeOK
    <2>2. CASE StreamSend(i)
      BY <1>1, <2>2 DEF StreamSend
    <2> QED BY <1>7, <2>1, <2>2
  <1>8. ASSUME NEW c \in Pullers, PullChanges(c) \/ PullExpire(c) PROVE SourceTypeOK'
    BY <1>8 DEF PullChanges, PullExpire, SourceTypeOK, Collectors
  <1>9. CASE Pull
    BY <1>1, <1>8, <1>9 DEF Pull, PullRLock, PullSend, PullEnd, PullError
  <1>10. ASSUME NEW q \in Callers, lookup(q) \/ lookupHit(q) \/ Answer(q) PROVE SourceTypeOK'
    BY <1>1, <1>10 DEF lookup, lookupHit, Answer, TagRLock, FetchSend,
           StoreFetched, TagEnd, Fetch
  <1> QED BY <1>2, <1>3, <1>5, <1>6, <1>7, <1>9, <1>10 DEF Next

-----------------------------------------------------------------------------
(***************************************************************************)
(* The goroutines' own state.                                              *)
(***************************************************************************)

\* A goroutine moves on, and no other does.
LEMMA Moves ==
  ASSUME ControlSound, NEW g \in Goroutines, NEW to \in Points,
         pc' = [pc EXCEPT ![g] = to]
  PROVE  /\ pc' \in [Goroutines -> Points]
         /\ pc'[g] = to
         /\ \A h \in Goroutines : h # g => pc'[h] = pc[h]
  BY DEF ControlSound, ControlTypeOK

\* The steps of other goroutines leave a caller's question alone.
LEMMA OthersKeepAsked ==
  ASSUME ControlSound, asked' = asked, \A q \in Callers : pc'[q] = pc[q]
  PROVE  AskedKnown'
  BY DEF ControlSound, AskedKnown

\* A goroutine that is not a caller moves on.
LEMMA MovesApart ==
  ASSUME ControlSound, NEW g \in Goroutines, g \notin Callers, NEW to \in Points,
         pc' = [pc EXCEPT ![g] = to], asked' = asked
  PROVE  pc' \in [Goroutines -> Points] /\ AskedKnown'
  BY Moves, OthersKeepAsked, GoroutinesOf

\* A caller moves on, with the entity it asks about.
LEMMA CallerMoves ==
  ASSUME ControlSound, NEW q \in Callers, pc[q] # "idle", NEW to \in Points,
         pc' = [pc EXCEPT ![q] = to], asked' = asked
  PROVE  pc' \in [Goroutines -> Points] /\ AskedKnown'
  <1>1. q \in Goroutines
    BY GoroutinesOf
  <1>2. pc' \in [Goroutines -> Points] /\ \A h \in Goroutines : h # q => pc'[h] = pc[h]
    BY <1>1, Moves
  <1>3. \A h \in Callers : h # q => pc'[h] = pc[h]
    BY <1>2, GoroutinesOf
  <1> QED BY <1>2, <1>3 DEF ControlSound, AskedKnown

\* A message that is sent leaves the goroutine's hand for infoIn, which has
\* room for it.
LEMMA SendType ==
  ASSUME ControlSound, NEW g \in Goroutines, NEW to \in Points, Send(g, to)
  PROVE  /\ infoIn' \in Seq(SUBSET Info) /\ Len(infoIn') <= InfoSize
         /\ msg' \in [Goroutines -> SUBSET Info]
         /\ pc' = [pc EXCEPT ![g] = to] /\ pc[g] = "send"
  <1>1. msg[g] \in SUBSET Info
    BY DEF ControlSound, ControlTypeOK
  <1>2. infoIn' = Append(infoIn, msg[g]) /\ Len(infoIn) < InfoSize
    BY DEF Send
  <1>3. infoIn' \in Seq(SUBSET Info) /\ Len(infoIn') = Len(infoIn) + 1
    BY <1>1, <1>2 DEF ControlSound, ControlTypeOK
  <1>4. Len(infoIn') <= InfoSize
    BY <1>2, <1>3, TaggerAssumption DEF TaggerAssumption, ControlSound,
           ControlTypeOK
  <1>5. msg' \in [Goroutines -> SUBSET Info]
    BY DEF Send, ControlSound, ControlTypeOK
  <1> QED BY <1>3, <1>4, <1>5 DEF Send, Goto

\* run's steps.
LEMMA RunControl ==
  ASSUME ControlSound, CollectorTypeOK, StopsRegistered, Run
  PROVE  ControlSound'
  <1> USE GoroutinesOf, Distinct
  <1>1. CASE Start
    <2>1. PICK p : p = [pc EXCEPT ![run] = "loop"]
      OBVIOUS
    <2>2. p \in [Goroutines -> Points] /\ \A q \in Callers : p[q] = pc[q]
      BY <2>1 DEF ControlSound, ControlTypeOK, Points
    <2>3. pc' = [p EXCEPT ![pull] = "rlock"]
      BY <1>1, <2>1 DEF Start
    <2>4. pc' \in [Goroutines -> Points] /\ \A q \in Callers : pc'[q] = pc[q]
      BY <2>2, <2>3 DEF Points
    <2> QED BY <1>1, <2>4, OthersKeepAsked DEF Start, ControlSound,
               ControlTypeOK, localVars
  <1>2. CASE ReceiveInfo
    <2>1. infoIn' = Tail(infoIn) /\ infoIn # <<>> /\ UNCHANGED <<readers, pc, todo, msg, asked>>
      BY <1>2 DEF ReceiveInfo, localVars
    <2>2. infoIn' \in Seq(SUBSET Info) /\ Len(infoIn') <= Len(infoIn)
      BY <2>1 DEF ControlSound, ControlTypeOK
    <2>3. Len(infoIn') <= InfoSize
      BY <2>2, TaggerAssumption DEF TaggerAssumption, ControlSound,
             ControlTypeOK
    <2> QED BY <2>1, <2>2, <2>3 DEF ControlSound, ControlTypeOK, AskedKnown
  <1>3. CASE RetryTick
    <2>1. PICK s \in Starters : pc' = [pc EXCEPT ![s] = "rlock"]
      BY <1>3 DEF RetryTick, Goto
    <2>2. UNCHANGED <<infoIn, readers, todo, msg, asked>>
      BY <1>3 DEF RetryTick, localVars
    <2>3. s \in Goroutines /\ s \notin Callers /\ "rlock" \in Points
      BY DEF Points
    <2> QED BY <2>1, <2>2, <2>3, MovesApart DEF ControlSound, ControlTypeOK
  <1>4. CASE PullTick
    <2>1. pc' = [pc EXCEPT ![pull] = "rlock"] /\ UNCHANGED <<infoIn, readers, todo, msg, asked>>
      BY <1>4 DEF PullTick, Goto, localVars
    <2>2. pull \notin Callers /\ "rlock" \in Points
      BY DEF Points
    <2> QED BY <2>1, <2>2, MovesApart DEF ControlSound, ControlTypeOK
  <1>5. CASE prune
    BY <1>5 DEF prune, localVars, ControlSound, ControlTypeOK, AskedKnown
  <1>6. CASE Stop
    <2>1. pc' = [pc EXCEPT ![run] = "stop"] /\ UNCHANGED <<infoIn, readers, todo, msg, asked>>
      BY <1>6 DEF Stop, Goto, localVars
    <2>2. run \notin Callers /\ "stop" \in Points
      BY DEF Points
    <2> QED BY <2>1, <2>2, MovesApart DEF ControlSound, ControlTypeOK
  <1>7. CASE StopRLock
    <2>1. /\ pc' = [pc EXCEPT ![run] = "stopping"] /\ readers' = readers \cup {run}
          /\ todo' = [todo EXCEPT ![run] = {c \in Streamers : streamers[c] # None}]
          /\ UNCHANGED <<infoIn, msg, asked>>
      BY <1>7 DEF StopRLock, Goto, RLock
    <2>2. run \notin Callers /\ "stopping" \in Points
      BY DEF Points
    <2>3. todo' \in [Goroutines -> SUBSET Collectors]
      BY <2>1 DEF ControlSound, ControlTypeOK, Collectors
    <2> QED BY <2>1, <2>2, <2>3, MovesApart DEF ControlSound, ControlTypeOK
  <1>8. CASE Stopped
    <2>1. /\ pc' = [pc EXCEPT ![run] = "done"] /\ readers' = readers \ {run}
          /\ UNCHANGED <<infoIn, todo, msg, asked>>
      BY <1>8 DEF Stopped, Goto, RUnlock, localVars
    <2>2. run \notin Callers /\ "done" \in Points
      BY DEF Points
    <2> QED BY <2>1, <2>2, MovesApart DEF ControlSound, ControlTypeOK
  <1>9. ASSUME NEW c \in Streamers, StopStream(c) PROVE ControlSound'
    <2>1. PICK i : i = <<c, streamers[c]>>
      OBVIOUS
    <2>2. /\ pc[i] = "wait" /\ pc' = [pc EXCEPT ![i] = "ended"]
          /\ todo' = [todo EXCEPT ![run] = @ \ {c}]
          /\ UNCHANGED <<infoIn, readers, msg, asked>>
      BY <1>9, <2>1 DEF StopStream
    <2>3. todo' \in [Goroutines -> SUBSET Collectors]
      BY <2>2 DEF ControlSound, ControlTypeOK
    <2>4. streamers[c] \in Starters
      BY <1>9 DEF StopStream, StopsRegistered, CollectorTypeOK
    <2>5. i \in Goroutines /\ i \notin Callers /\ "ended" \in Points
      BY <2>1, <2>4 DEF Streams, Points
    <2> QED BY <2>2, <2>3, <2>5, MovesApart DEF ControlSound, ControlTypeOK
  <1> QED BY <1>1, <1>2, <1>3, <1>4, <1>5, <1>6, <1>7, <1>8, <1>9 DEF Run,
             Stopping

\* A detection's steps.
LEMMA StarterControl ==
  ASSUME ControlSound, CollectorTypeOK, NEW s \in Starters, Starter(s)
  PROVE  ControlSound'
  <1> USE GoroutinesOf, Distinct
  <1>1. CASE TryRLock(s)
    <2>1. /\ pc' = [pc EXCEPT ![s] = "try"] /\ readers' = readers \cup {s}
          /\ UNCHANGED <<infoIn, todo, msg, asked>>
      BY <1>1 DEF TryRLock, Goto, RLock, localVars
    <2>2. s \in Goroutines /\ s \notin Callers /\ "try" \in Points
      BY DEF Points
    <2> QED BY <2>1, <2>2, MovesApart DEF ControlSound, ControlTypeOK
  <1>2. CASE tryCollectors(s)
    <2>1. PICK again \in SUBSET candidates :
            /\ todo' = [todo EXCEPT ![s] = candidates \ again]
            /\ pc' = [pc EXCEPT ![s] = IF candidates \subseteq again THEN "idle" ELSE "lock"]
      BY <1>2 DEF tryCollectors
    <2>2. readers' = readers \ {s} /\ UNCHANGED <<infoIn, msg, asked>>
      BY <1>2 DEF tryCollectors, RUnlock
    <2>3. PICK to \in Points : pc' = [pc EXCEPT ![s] = to]
      BY <2>1 DEF Points
    <2>4. todo' \in [Goroutines -> SUBSET Collectors]
      BY <2>1 DEF ControlSound, ControlTypeOK, CollectorTypeOK
    <2>5. s \in Goroutines /\ s \notin Callers
      OBVIOUS
    <2> QED BY <2>2, <2>3, <2>4, <2>5, MovesApart DEF ControlSound,
               ControlTypeOK
  <1>3. CASE registerCollectors(s)
    <2>1. PICK ok \in SUBSET todo[s] :
            pc' = [g \in Goroutines |->
                     IF g = s THEN "idle"
                     ELSE IF g \in {<<c, s>> : c \in ok \cap Streamers}
                     THEN (IF subscriber[g[1]] = None THEN "wait" ELSE "ended")
                     ELSE pc[g]]
      BY <1>3 DEF registerCollectors
    <2>2. pc' \in [Goroutines -> Points]
      BY <2>1 DEF ControlSound, ControlTypeOK, Points
    <2>3. \A q \in Callers : q \notin {<<c, s>> : c \in ok \cap Streamers}
      BY DEF Streams
    <2>4. \A q \in Callers : pc'[q] = pc[q]
      BY <2>1, <2>3
    <2>5. todo' = [todo EXCEPT ![s] = {}] /\ UNCHANGED <<infoIn, readers, msg, asked>>
      BY <1>3 DEF registerCollectors
    <2> QED BY <2>2, <2>4, <2>5, OthersKeepAsked DEF ControlSound, ControlTypeOK
  <1> QED BY <1>1, <1>2, <1>3 DEF Starter

\* A stream's steps: an event becomes a message about its entity.
LEMMA StreamControl ==
  ASSUME ControlSound, SourceTypeOK, NEW i \in Streams,
         processEvent(i) \/ StreamSend(i)
  PROVE  ControlSound'
  <1>1. i \in Goroutines /\ i \notin Callers /\ i[1] \in Streamers
    BY GoroutinesOf, Distinct DEF Streams
  <1>2. "wait" \in Points /\ "send" \in Points /\ "ended" \in Points
    BY DEF Points
  <1>3. CASE processEvent(i)
    <2>1. PICK ev : ev = Head(events[i[1]])
      OBVIOUS
    <2>2. ev \in Event
      BY <1>1, <1>3, <2>1 DEF processEvent, SourceTypeOK
    <2>3. ev.entity \in Entities
      BY <2>2, Zenon DEF Event
    <2>4. PICK m : m = [entity |-> ev.entity, source |-> i[1],
                        what |-> IF ev.start THEN "tags" ELSE "delete"]
      OBVIOUS
    <2>5. m \in Info
      BY <1>1, <2>3, <2>4 DEF Info, Collectors
    <2>6. /\ msg' = [msg EXCEPT ![i] = {m}] /\ pc' = [pc EXCEPT ![i] = "send"]
          /\ UNCHANGED <<infoIn, readers, todo, asked>>
      BY <1>3, <2>1, <2>4 DEF processEvent, Goto
    <2>7. msg' \in [Goroutines -> SUBSET Info]
      BY <2>5, <2>6 DEF ControlSound, ControlTypeOK
    <2> QED BY <1>1, <1>2, <2>6, <2>7, MovesApart DEF ControlSound,
               ControlTypeOK
  <1>4. CASE StreamSend(i)
    <2>1. Send(i, "wait") /\ UNCHANGED <<readers, todo, asked>>
      BY <1>4 DEF StreamSend
    <2>2. /\ infoIn' \in Seq(SUBSET Info) /\ Len(infoIn') <= InfoSize
          /\ msg' \in [Goroutines -> SUBSET Info]
          /\ pc' = [pc EXCEPT ![i] = "wait"]
      BY <1>1, <1>2, <2>1, SendType
    <2> QED BY <1>1, <1>2, <2>1, <2>2, MovesApart DEF ControlSound,
               ControlTypeOK
  <1> QED BY <1>3, <1>4

\* A pull's steps.
LEMMA PullControl ==
  ASSUME ControlSound, SourceTypeOK, CollectorTypeOK, Pull
  PROVE  ControlSound'
  <1>1. pull \in Goroutines /\ pull \notin Callers
    BY GoroutinesOf, Distinct
  <1>2. "pull" \in Points /\ "send" \in Points /\ "idle" \in Points
    BY DEF Points
  <1>3. CASE PullRLock
    <2>1. /\ pc' = [pc EXCEPT ![pull] = "pull"] /\ readers' = readers \cup {pull}
          /\ todo' = [todo EXCEPT ![pull] = pullers]
          /\ UNCHANGED <<infoIn, msg, asked>>
      BY <1>3 DEF PullRLock, Goto, RLock
    <2>2. todo' \in [Goroutines -> SUBSET Collectors]
      BY <2>1 DEF ControlSound, ControlTypeOK, CollectorTypeOK, Collectors
    <2> QED BY <1>1, <1>2, <2>1, <2>2, MovesApart DEF ControlSound,
               ControlTypeOK
  <1>4. CASE PullSend
    <2>1. Send(pull, "pull") /\ UNCHANGED <<readers, todo, asked>>
      BY <1>4 DEF PullSend
    <2>2. /\ infoIn' \in Seq(SUBSET Info) /\ Len(infoIn') <= InfoSize
          /\ msg' \in [Goroutines -> SUBSET Info]
          /\ pc' = [pc EXCEPT ![pull] = "pull"]
      BY <1>1, <1>2, <2>1, SendType
    <2> QED BY <1>1, <1>2, <2>1, <2>2, MovesApart DEF ControlSound,
               ControlTypeOK
  <1>5. CASE PullEnd
    <2>1. /\ pc' = [pc EXCEPT ![pull] = "idle"] /\ readers' = readers \ {pull}
          /\ UNCHANGED <<infoIn, todo, msg, asked>>
      BY <1>5 DEF PullEnd, Goto, RUnlock, localVars
    <2> QED BY <1>1, <1>2, <2>1, MovesApart DEF ControlSound, ControlTypeOK
  <1>6. ASSUME NEW c \in Pullers, PullChanges(c) \/ PullExpire(c) PROVE ControlSound'
    <2>2. c \in Collectors /\ known[c] \in SUBSET Entities /\ lastSeen[c] \in SUBSET Entities
      BY DEF SourceTypeOK, Collectors
    <2>3. /\ Infos(c, known[c] \ lastSeen[c], "tags") \in SUBSET Info
          /\ Infos(c, lastSeen[c] \ known[c], "delete") \in SUBSET Info
      BY <2>2, InfosType
    <2>4. /\ \/ msg' = [msg EXCEPT ![pull] = Infos(c, known[c] \ lastSeen[c], "tags")]
             \/ msg' = [msg EXCEPT ![pull] = Infos(c, lastSeen[c] \ known[c], "delete")]
          /\ pc' = [pc EXCEPT ![pull] = "send"]
          /\ todo' = [todo EXCEPT ![pull] = @ \ {c}] \/ todo' = todo
          /\ UNCHANGED <<infoIn, readers, asked>>
      BY <1>6 DEF PullChanges, PullExpire, Goto
    <2>5. msg' \in [Goroutines -> SUBSET Info]
      BY <2>3, <2>4 DEF ControlSound, ControlTypeOK
    <2>6. todo' \in [Goroutines -> SUBSET Collectors]
      BY <2>4 DEF ControlSound, ControlTypeOK
    <2> QED BY <1>1, <1>2, <2>4, <2>5, <2>6, MovesApart DEF ControlSound,
               ControlTypeOK
  <1>7. ASSUME NEW c \in Pullers, PullError(c) PROVE ControlSound'
    <2>1. todo' = [todo EXCEPT ![pull] = @ \ {c}] /\ UNCHANGED <<infoIn, readers, pc, msg, asked>>
      BY <1>7 DEF PullError
    <2> QED BY <2>1 DEF ControlSound, ControlTypeOK, AskedKnown
  <1> QED BY <1>3, <1>4, <1>5, <1>6, <1>7 DEF Pull

\* A caller's steps: it asks about an entity from its lookup to its end.
LEMMA CallerControl ==
  ASSUME ControlSound, CollectorTypeOK, NEW q \in Callers,
         lookup(q) \/ lookupHit(q) \/ Answer(q)
  PROVE  ControlSound'
  <1>1. q \in Goroutines /\ \A h \in Callers : h \in Goroutines
    BY GoroutinesOf
  <1>2. {"idle", "rlock", "fetch", "send", "store"} \subseteq Points
    BY DEF Points
  <1>3. fetchers \subseteq Collectors
    BY DEF fetchers, CollectorTypeOK, Collectors
  <1>4. CASE lookup(q)
    <2>1. PICK e \in Entities :
            asked' = [asked EXCEPT ![q] = e] /\ todo' = [todo EXCEPT ![q] = Sources(e)]
      BY <1>4 DEF lookup
    <2>2. pc' = [pc EXCEPT ![q] = "rlock"] /\ UNCHANGED <<infoIn, readers, msg>>
      BY <1>4 DEF lookup
    <2>3. asked' \in [Callers -> Entities \cup {None}]
      BY <2>1 DEF ControlSound, ControlTypeOK
    <2>4. Sources(e) \subseteq Collectors
      BY DEF Sources
    <2>5. todo' \in [Goroutines -> SUBSET Collectors]
      BY <2>1, <2>4 DEF ControlSound, ControlTypeOK
    <2>6. pc' \in [Goroutines -> Points] /\ \A h \in Callers : h # q => pc'[h] = pc[h]
      BY <1>1, <1>2, <2>2, Moves
    <2>7. AskedKnown'
      BY <2>1, <2>6 DEF AskedKnown, ControlSound, ControlTypeOK
    <2> QED BY <2>2, <2>3, <2>5, <2>6, <2>7 DEF ControlSound, ControlTypeOK
  <1>5. CASE lookupHit(q)
    BY <1>5 DEF lookupHit, localVars, ControlSound, ControlTypeOK, AskedKnown
  <1>6. CASE TagRLock(q)
    <2>1. /\ pc[q] = "rlock" /\ pc' = [pc EXCEPT ![q] = "fetch"]
          /\ readers' = readers \cup {q}
          /\ todo' = [todo EXCEPT ![q] = fetchers \ @]
          /\ UNCHANGED <<infoIn, msg, asked>>
      BY <1>6 DEF TagRLock, Goto, RLock
    <2>2. todo' \in [Goroutines -> SUBSET Collectors]
      BY <1>3, <2>1 DEF ControlSound, ControlTypeOK
    <2> QED BY <1>1, <1>2, <2>1, <2>2, CallerMoves DEF ControlSound,
               ControlTypeOK
  <1>7. CASE FetchSend(q)
    <2>1. /\ pc[q] = "send" /\ pc' = [pc EXCEPT ![q] = "store"]
          /\ infoIn' = Append(infoIn, {i \in msg[q] : i.what = "tags"})
          /\ Len(infoIn) < InfoSize
          /\ UNCHANGED <<readers, todo, msg, asked>>
      BY <1>7 DEF FetchSend, localVars
    <2>2. PICK m : m = {i \in msg[q] : i.what = "tags"}
      OBVIOUS
    <2>3. infoIn' \in Seq(SUBSET Info) /\ Len(infoIn') = Len(infoIn) + 1
      <3>1. m \in SUBSET Info
        BY <1>1, <2>2 DEF ControlSound, ControlTypeOK
      <3>2. infoIn' = Append(infoIn, m)
        BY <2>1, <2>2
      <3> QED BY <3>1, <3>2 DEF ControlSound, ControlTypeOK
    <2>4. Len(infoIn') <= InfoSize
      BY <2>1, <2>3, TaggerAssumption DEF TaggerAssumption, ControlSound,
             ControlTypeOK
    <2> QED BY <1>1, <1>2, <2>1, <2>3, <2>4, CallerMoves DEF ControlSound,
               ControlTypeOK
  <1>8. CASE StoreFetched(q)
    <2>1. /\ pc[q] = "store" /\ pc' = [pc EXCEPT ![q] = "fetch"]
          /\ todo' = [todo EXCEPT ![q] = @ \ {i.source : i \in msg[q]}]
          /\ msg' = [msg EXCEPT ![q] = {}]
          /\ UNCHANGED <<infoIn, readers, asked>>
      BY <1>8 DEF StoreFetched, Goto
    <2>2. todo' \in [Goroutines -> SUBSET Collectors] /\ msg' \in [Goroutines -> SUBSET Info]
      BY <2>1 DEF ControlSound, ControlTypeOK
    <2> QED BY <1>1, <1>2, <2>1, <2>2, CallerMoves DEF ControlSound,
               ControlTypeOK
  <1>9. CASE TagEnd(q)
    <2>1. /\ pc' = [pc EXCEPT ![q] = "idle"] /\ asked' = [asked EXCEPT ![q] = None]
          /\ readers' = readers \ {q} /\ UNCHANGED <<infoIn, todo, msg>>
      BY <1>9 DEF TagEnd, Goto, RUnlock
    <2>2. pc' \in [Goroutines -> Points] /\ pc'[q] = "idle"
          /\ \A h \in Callers : h # q => pc'[h] = pc[h]
      BY <1>1, <1>2, <2>1, Moves
    <2>3. asked' \in [Callers -> Entities \cup {None}] /\ AskedKnown'
      BY <2>1, <2>2 DEF AskedKnown, ControlSound, ControlTypeOK
    <2> QED BY <2>1, <2>2, <2>3 DEF ControlSound, ControlTypeOK
  <1>10. ASSUME NEW c \in Collectors, Fetch(q, c) PROVE ControlSound'
    <2>1. pc[q] = "fetch" /\ UNCHANGED <<infoIn, readers, asked>>
      BY <1>10 DEF Fetch
    <2>2. asked[q] \in Entities
      BY <2>1 DEF ControlSound, AskedKnown
    <2>3. CASE UNCHANGED <<pc, msg>> /\ todo' = [todo EXCEPT ![q] = @ \ {c}]
      BY <2>1, <2>3 DEF ControlSound, ControlTypeOK, AskedKnown
    <2>4. ASSUME NEW what \in {"tags", "miss"}, todo' = todo,
                 msg' = [msg EXCEPT ![q] = Infos(c, {asked[q]}, what)],
                 NEW to \in {"send", "store"}, pc' = [pc EXCEPT ![q] = to]
          PROVE  ControlSound'
      <3>1. Infos(c, {asked[q]}, what) \in SUBSET Info
        BY <2>2, InfosType
      <3>2. msg' \in [Goroutines -> SUBSET Info]
        BY <2>4, <3>1 DEF ControlSound, ControlTypeOK
      <3>3. to \in Points
        BY <1>2
      <3> QED BY <2>1, <2>4, <3>2, <3>3, CallerMoves DEF ControlSound,
                 ControlTypeOK
    <2>5. \/ UNCHANGED <<pc, msg>> /\ todo' = [todo EXCEPT ![q] = @ \ {c}]
          \/ \E what \in {"tags", "miss"}, to \in {"send", "store"} :
               /\ todo' = todo
               /\ msg' = [msg EXCEPT ![q] = Infos(c, {asked[q]}, what)]
               /\ pc' = [pc EXCEPT ![q] = to]
      BY <1>10, Zenon DEF Fetch
    <2> QED BY <2>3, <2>4, <2>5
  <1> QED BY <1>4, <1>5, <1>6, <1>7, <1>8, <1>9, <1>10 DEF Answer

\* Every step keeps the goroutines' state in order.
LEMMA NextControl ==
  ASSUME ControlSound, SourceTypeOK, CollectorTypeOK, StopsRegistered, [Next]_vars
  PROVE  ControlSound'
  <1>1. CASE UNCHANGED <<infoIn, readers, pc, localVars>>
    BY <1>1 DEF localVars, ControlSound, ControlTypeOK, AskedKnown
  <1>2. CASE UNCHANGED vars
    BY <1>1, <1>2 DEF vars
  <1>3. ASSUME NEW c \in Collectors, NEW e \in Entities, Change(c, e) PROVE ControlSound'
    BY <1>1, <1>3 DEF Change
  <1> QED BY <1>2, <1>3, RunControl, StarterControl, StreamControl,
             PullControl, CallerControl DEF Next

\* Only run itself changes what it has still to stop, and an instance that is
\* registered is replaced only by another.
LEMMA NextStops ==
  ASSUME ControlTypeOK, CollectorTypeOK, StopsRegistered, [Next]_vars
  PROVE  StopsRegistered'
  <1> USE Distinct, GoroutinesOf
  <1>1. CASE todo'[run] \subseteq todo[run] /\ streamers' = streamers
    BY <1>1 DEF StopsRegistered
  <1>2. CASE UNCHANGED vars
    BY <1>1, <1>2 DEF vars, collectorVars, localVars
  <1>3. ASSUME NEW c \in Collectors, NEW e \in Entities, Change(c, e) PROVE StopsRegistered'
    BY <1>1, <1>3 DEF Change, collectorVars, localVars
  <1>4. CASE StopRLock
    <2>1. todo'[run] = {c \in Streamers : streamers[c] # None} /\ streamers' = streamers
      BY <1>4 DEF StopRLock, ControlTypeOK, collectorVars
    <2> QED BY <2>1 DEF StopsRegistered
  <1>5. ASSUME NEW c \in Streamers, StopStream(c) PROVE StopsRegistered'
    BY <1>1, <1>5 DEF StopStream, ControlTypeOK, collectorVars
  <1>6. CASE Run
    BY <1>1, <1>4, <1>5, <1>6 DEF Run, Start, ReceiveInfo, RetryTick,
           PullTick, prune, Stop,
         Stopping, Stopped, collectorVars, localVars
  <1>7. ASSUME NEW s \in Starters, Starter(s) PROVE StopsRegistered'
    <2>1. CASE TryRLock(s)
      BY <1>1, <2>1 DEF TryRLock, collectorVars, localVars
    <2>2. CASE tryCollectors(s)
      BY <1>1, <2>2 DEF tryCollectors, ControlTypeOK
    <2>3. CASE registerCollectors(s)
      <3>1. todo'[run] = todo[run]
        BY <2>3 DEF registerCollectors, ControlTypeOK
      <3>2. PICK ok \in SUBSET todo[s] :
              streamers' = [c \in Streamers |-> IF c \in ok THEN s ELSE streamers[c]]
        BY <2>3 DEF registerCollectors
      <3> QED BY <3>1, <3>2 DEF StopsRegistered
    <2> QED BY <1>7, <2>1, <2>2, <2>3 DEF Starter
  <1>8. ASSUME NEW i \in Streams, processEvent(i) \/ StreamSend(i)
        PROVE  StopsRegistered'
    BY <1>1, <1>8 DEF processEvent, StreamSend, collectorVars,
           localVars
  <1>9. CASE Pull
    BY <1>1, <1>9 DEF Pull, PullRLock, PullSend, PullEnd, PullChanges,
           PullError, PullExpire, ControlTypeOK,
         collectorVars, localVars
  <1>10. ASSUME NEW q \in Callers, lookup(q) \/ lookupHit(q) \/ Answer(q) PROVE StopsRegistered'
    <2>1. streamers' = streamers
      BY <1>10 DEF lookup, lookupHit, Answer, TagRLock, FetchSend,
             StoreFetched, TagEnd, Fetch,
           collectorVars
    <2>2. todo' = todo \/ \E S : todo' = [todo EXCEPT ![q] = S]
      BY <1>10, Zenon DEF lookup, lookupHit, Answer, TagRLock, FetchSend,
             StoreFetched, TagEnd, Fetch,
           localVars
    <2>3. todo'[run] = todo[run]
      BY <2>2 DEF ControlTypeOK
    <2> QED BY <1>1, <2>1, <2>3
  <1> QED BY <1>2, <1>3, <1>6, <1>7, <1>8, <1>9, <1>10 DEF Next

-----------------------------------------------------------------------------
\* Nothing is known, detected, stored or asked at first.
LEMMA InitIInv == Init => IInv
  <1> SUFFICES ASSUME Init PROVE IInv
    OBVIOUS
  <1>1. SourceTypeOK
    <2>1. <<>> \in Seq(Event)
      OBVIOUS
    <2> QED BY <2>1, TaggerAssumption DEF Init, SourceTypeOK, TaggerAssumption
  <1>2. CollectorTypeOK
    BY TaggerAssumption DEF Init, CollectorTypeOK, fetchers, TaggerAssumption
  <1>3. StoreTypeOK /\ CacheAgrees /\ AnnouncedKept
    BY DEF Init, StoreTypeOK, Entries, CacheAgrees, AnnouncedKept
  <1>4. ControlTypeOK
    BY TaggerAssumption DEF Init, ControlTypeOK, Points, TaggerAssumption
  <1>5. AskedKnown
    BY Distinct, GoroutinesOf, FirstIsStarter DEF Init, AskedKnown
  <1>6. StopsRegistered
    BY GoroutinesOf DEF Init, StopsRegistered
  <1> QED BY <1>1, <1>2, <1>3, <1>4, <1>5, <1>6 DEF IInv, TagsSound, TypeOK

\* Every step keeps the inductive invariant.
LEMMA NextIInv == IInv /\ [Next]_vars => IInv'
  <1> SUFFICES ASSUME IInv, [Next]_vars PROVE IInv'
    OBVIOUS
  <1>1. /\ SourceTypeOK /\ CollectorTypeOK /\ ControlTypeOK /\ StopsRegistered
        /\ StoreSound /\ ControlSound
    BY DEF IInv, TagsSound, TypeOK, StoreSound, ControlSound
  <1>2. SourceTypeOK'
    BY <1>1, NextSources
  <1>3. CollectorTypeOK'
    BY <1>1, NextCollectors
  <1>4. StoreSound'
    BY <1>1, NextStore
  <1>5. ControlSound'
    BY <1>1, NextControl
  <1>6. StopsRegistered'
    BY <1>1, NextStops
  <1> QED BY <1>2, <1>3, <1>4, <1>5, <1>6 DEF IInv, TagsSound, TypeOK,
             StoreSound, ControlSound

(***************************************************************************)
(* StoreIsSound: whatever run, pulls, streams, overlapping detections and  *)
(* callers of Tag with old answers do, cached tags are those stored, and   *)
(* tags a collector has sent stay until their entity is pruned.            *)
(***************************************************************************)
THEOREM StoreIsSound == Spec => []TagsSound
  <1>1. IInv => TagsSound
    BY DEF IInv
  <1> QED BY <1>1, InitIInv, NextIInv, PTL DEF Spec

-----------------------------------------------------------------------------
(***************************************************************************)
(* Tagger.Stop: once stuck, for good.                                      *)
(***************************************************************************)

\* run waits for the read lock behind a detection that waits for a sender,
\* or for a stream that does not receive.
TaggerStuck ==
  \/ pc[run] = "stop" /\ StuckOnLock
  \/ pc[run] = "stopping" /\ StuckOnStream

\* run stops the streams under the read lock.
StopsReading == pc[run] = "stopping" => run \in readers

\* What a step of a goroutine other than run leaves alone while run stops.
GoesOn(g) ==
  /\ \A h \in Goroutines \ {g} :
       pc'[h] = pc[h] /\ (h \in readers => h \in readers')
  /\ pc[g] \in {"lock", "ended"} => pc'[g] = pc[g]
  /\ pc[g] = "send" => Len(infoIn) < InfoSize
  /\ infoIn' = infoIn \/ Len(infoIn) < InfoSize
  /\ streamers' = streamers /\ todo'[run] = todo[run]

\* The detections, while somebody reads.
LEMMA StartersGoOn ==
  ASSUME ControlTypeOK, NEW s \in Starters, Starter(s), readers # {}
  PROVE  GoesOn(s)
  <1>1. s # run /\ s \in Goroutines /\ run \in Goroutines
    BY Distinct, GoroutinesOf
  <1>2. CASE TryRLock(s)
    BY <1>1, <1>2 DEF TryRLock, RLock, Goto, GoesOn, ControlTypeOK, localVars,
       collectorVars
  <1>3. CASE tryCollectors(s)
    BY <1>1, <1>3 DEF tryCollectors, RUnlock, GoesOn, ControlTypeOK
  <1>4. CASE registerCollectors(s)
    BY <1>4 DEF registerCollectors
  <1> QED BY <1>2, <1>3, <1>4 DEF Starter

\* The streams and the pull.
LEMMA SourcesGoOn ==
  ASSUME ControlTypeOK, pc[run] # "loop"
  PROVE  /\ \A i \in Streams : processEvent(i) \/ StreamSend(i)
                                => GoesOn(i)
         /\ Pull => GoesOn(pull)
  <1>1. run # pull /\ pull \in Goroutines /\ run \in Goroutines
    BY Distinct, GoroutinesOf
  <1>2. ASSUME NEW i \in Streams, processEvent(i) \/ StreamSend(i)
        PROVE  GoesOn(i)
    <2>1. i \in Goroutines
      BY GoroutinesOf
    <2> QED BY <1>2, <2>1 DEF processEvent, StreamSend, Running,
               Send, Goto, GoesOn, ControlTypeOK, collectorVars
  <1>3. ASSUME PullRLock \/ PullSend \/ PullEnd
        PROVE  GoesOn(pull)
    BY <1>1, <1>3 DEF PullRLock, PullSend, PullEnd, Send, RLock, RUnlock, Goto,
       GoesOn, ControlTypeOK, collectorVars, localVars
  <1>4. ASSUME NEW c \in Pullers, PullChanges(c) \/ PullError(c) \/ PullExpire(c)
        PROVE  GoesOn(pull)
    BY <1>1, <1>4 DEF PullChanges, PullError, PullExpire, Goto, GoesOn, ControlTypeOK,
       collectorVars
  <1> QED BY <1>2, <1>3, <1>4 DEF Pull

\* The callers of Tag.
LEMMA CallersGoOn ==
  ASSUME ControlTypeOK, pc[run] # "loop", NEW q \in Callers,
         lookup(q) \/ lookupHit(q) \/ Answer(q)
  PROVE  GoesOn(q)
  <1>1. q # run /\ q \in Goroutines /\ run \in Goroutines
    BY Distinct, GoroutinesOf
  <1>2. ~lookup(q) /\ ~lookupHit(q)
    BY DEF lookup, lookupHit, Running
  <1>3. CASE TagRLock(q) \/ TagEnd(q)
    BY <1>1, <1>3 DEF TagRLock, TagEnd, RLock, RUnlock, Goto, GoesOn,
       ControlTypeOK, collectorVars
  <1>4. CASE FetchSend(q) \/ StoreFetched(q)
    BY <1>1, <1>4 DEF FetchSend, StoreFetched, Goto, GoesOn, ControlTypeOK,
       collectorVars, localVars
  <1>5. ASSUME NEW c \in Collectors, Fetch(q, c) PROVE GoesOn(q)
    BY <1>1, <1>5 DEF Fetch, GoesOn, ControlTypeOK, collectorVars
  <1> QED BY <1>2, <1>3, <1>4, <1>5 DEF Answer

\* Nobody that goes on frees run: who is stuck does not move, infoIn stays
\* full, the read lock stays taken, and no stream is registered anew.
LEMMA GoingOnFreesNobody ==
  ASSUME IInv, NEW g \in Goroutines \ {run}, GoesOn(g), TaggerStuck
  PROVE  TaggerStuck'
  <1>1. /\ run \in Goroutines /\ Starters \subseteq Goroutines
        /\ Streams \subseteq Goroutines /\ readers \subseteq Goroutines
    BY GoroutinesOf DEF IInv, TagsSound, TypeOK, ControlTypeOK
  <1>2. /\ pc'[run] = pc[run] /\ streamers' = streamers /\ todo'[run] = todo[run]
        /\ \A h \in Goroutines : pc[h] \in {"lock", "ended"} => pc'[h] = pc[h]
    BY <1>1 DEF GoesOn
  <1>3. ASSUME NEW h \in Goroutines, pc[h] = "send", Len(infoIn) = InfoSize
        PROVE  pc'[h] = "send" /\ infoIn' = infoIn /\ (h \in readers => h \in readers')
    <2>1. ~(Len(infoIn) < InfoSize)
      BY <1>3, TaggerAssumption DEF TaggerAssumption
    <2> QED BY <1>3, <2>1 DEF GoesOn
  <1>4. CASE pc[run] = "stop" /\ StuckOnLock
    <2>1. PICK s \in Starters : pc[s] = "lock"
      BY <1>4 DEF StuckOnLock
    <2>2. PICK h \in readers : pc[h] = "send" /\ Len(infoIn) = InfoSize
      BY <1>4 DEF StuckOnLock
    <2>3. pc'[s] = "lock"
      BY <1>1, <1>2, <2>1
    <2>4. h \in readers' /\ pc'[h] = "send" /\ Len(infoIn') = InfoSize
      BY <1>1, <1>3, <2>2
    <2> QED BY <1>2, <1>4, <2>3, <2>4 DEF TaggerStuck, StuckOnLock
  <1>5. CASE pc[run] = "stopping" /\ StuckOnStream
    <2>1. PICK c \in todo[run] :
            \/ pc[<<c, streamers[c]>>] = "ended"
            \/ pc[<<c, streamers[c]>>] = "send" /\ Len(infoIn) = InfoSize
      BY <1>5 DEF StuckOnStream
    <2>2. c \in Streamers /\ streamers[c] \in Starters
      BY DEF IInv, StopsRegistered, TagsSound, TypeOK, CollectorTypeOK
    <2>3. <<c, streamers[c]>> \in Goroutines
      BY <1>1, <2>2 DEF Streams
    <2>4. \/ pc'[<<c, streamers[c]>>] = "ended"
          \/ pc'[<<c, streamers[c]>>] = "send" /\ Len(infoIn') = InfoSize
      BY <1>2, <1>3, <2>1, <2>3
    <2> QED BY <1>2, <1>5, <2>4 DEF TaggerStuck, StuckOnStream
  <1> QED BY <1>4, <1>5 DEF TaggerStuck

\* Neither does run: it cannot have the lock, or has that stream to stop.
LEMMA RunFreesNobody ==
  ASSUME IInv, Run, TaggerStuck
  PROVE  TaggerStuck'
  <1>1. pc \in [Goroutines -> Points] /\ run \in Goroutines
        /\ todo \in [Goroutines -> SUBSET Collectors]
    BY GoroutinesOf DEF IInv, TagsSound, TypeOK, ControlTypeOK
  <1>2. pc[run] \in {"stop", "stopping"}
    BY DEF TaggerStuck
  <1>3. Stopping
    BY <1>2 DEF Run, Start, ReceiveInfo, RetryTick, PullTick, prune, Stop, Goto
  <1>4. ~StopRLock
    BY DEF StopRLock, Goto, RLock, TaggerStuck, StuckOnLock
  <1>5. ~Stopped
    BY DEF Stopped, Goto, TaggerStuck, StuckOnStream
  <1>6. PICK d \in Streamers : StopStream(d)
    BY <1>3, <1>4, <1>5 DEF Stopping
  <1>7. pc[run] = "stopping" /\ StuckOnStream
    BY <1>6 DEF StopStream, TaggerStuck
  <1>8. PICK c \in todo[run] :
          \/ pc[<<c, streamers[c]>>] = "ended"
          \/ pc[<<c, streamers[c]>>] = "send" /\ Len(infoIn) = InfoSize
    BY <1>7 DEF StuckOnStream
  <1>9. c \in Streamers /\ streamers[c] \in Starters
    BY DEF IInv, StopsRegistered, TagsSound, TypeOK, CollectorTypeOK
  <1>10. d # c /\ d \in todo[run] /\ streamers[d] \in Starters
    BY <1>6, <1>8 DEF StopStream, IInv, StopsRegistered, TagsSound, TypeOK,
       CollectorTypeOK
  <1>11. /\ <<c, streamers[c]>> \in Streams /\ <<d, streamers[d]>> \in Streams
         /\ <<c, streamers[c]>> # <<d, streamers[d]>>
    BY <1>6, <1>9, <1>10 DEF Streams
  <1>12. /\ pc'[<<c, streamers[c]>>] = pc[<<c, streamers[c]>>]
         /\ pc'[run] = pc[run]
    BY <1>1, <1>6, <1>11, Distinct, GoroutinesOf DEF StopStream
  <1>13. c \in todo'[run] /\ UNCHANGED <<streamers, infoIn>>
    BY <1>1, <1>6, <1>8, <1>10 DEF StopStream, collectorVars
  <1> QED BY <1>7, <1>8, <1>12, <1>13 DEF TaggerStuck, StuckOnStream

\* run moves by its own steps only.
LEMMA OthersLeaveRun ==
  ASSUME ControlTypeOK, Next, ~Run
  PROVE  pc'[run] = pc[run]
  <1>1. /\ pc \in [Goroutines -> Points] /\ run \in Goroutines /\ run # pull
        /\ run \notin Starters \cup Callers \cup Streams
    BY Distinct, GoroutinesOf DEF ControlTypeOK
  <1>2. ASSUME NEW c \in Collectors, NEW e \in Entities, Change(c, e)
        PROVE  pc'[run] = pc[run]
    BY <1>2 DEF Change
  <1>3. ASSUME NEW s \in Starters, TryRLock(s) \/ tryCollectors(s)
        PROVE  pc'[run] = pc[run]
    BY <1>1, <1>3 DEF TryRLock, tryCollectors, Goto
  <1>4. ASSUME NEW s \in Starters, registerCollectors(s)
        PROVE  pc'[run] = pc[run]
    <2>1. run # s /\ \A c \in Streamers : run # <<c, s>>
      BY <1>1 DEF Streams
    <2> QED BY <1>1, <1>4, <2>1 DEF registerCollectors
  <1>5. ASSUME NEW i \in Streams, processEvent(i) \/ StreamSend(i)
        PROVE  pc'[run] = pc[run]
    BY <1>1, <1>5 DEF processEvent, StreamSend, Send, Goto
  <1>6. CASE Pull
    BY <1>1, <1>6 DEF Pull, PullRLock, PullSend, PullEnd, PullChanges,
       PullError, PullExpire, Send, Goto
  <1>7. ASSUME NEW q \in Callers, lookup(q) \/ lookupHit(q) \/ Answer(q)
        PROVE  pc'[run] = pc[run]
    <2>1. q # run
      BY <1>1
    <2>2. CASE lookup(q) \/ lookupHit(q)
      BY <1>1, <2>1, <2>2 DEF lookup, lookupHit
    <2>3. CASE TagRLock(q) \/ FetchSend(q) \/ StoreFetched(q) \/ TagEnd(q)
      BY <1>1, <2>1, <2>3 DEF TagRLock, FetchSend, StoreFetched, TagEnd, Goto
    <2>4. ASSUME NEW c \in Collectors, Fetch(q, c) PROVE pc'[run] = pc[run]
      BY <1>1, <2>1, <2>4 DEF Fetch
    <2> QED BY <1>7, <2>2, <2>3, <2>4 DEF Answer
  <1> QED BY <1>2, <1>3, <1>4, <1>5, <1>6, <1>7 DEF Next, Starter

\* Every other step while run stops, the detections' while somebody reads, is
\* one of a goroutine that goes on.
LEMMA OthersGoOn ==
  ASSUME ControlTypeOK, Next, ~Run, pc[run] # "loop", readers # {}
  PROVE  \E g \in Goroutines \ {run} : GoesOn(g)
  <1>1. ASSUME NEW c \in Collectors, NEW e \in Entities, Change(c, e)
        PROVE  FALSE
    BY <1>1 DEF Change, Running
  <1>2. CASE \E s \in Starters : Starter(s)
    BY <1>2, StartersGoOn, Distinct, GoroutinesOf
  <1>3. CASE \E i \in Streams : processEvent(i) \/ StreamSend(i)
    BY <1>3, SourcesGoOn, Distinct, GoroutinesOf
  <1>4. CASE Pull
    BY <1>4, SourcesGoOn, Distinct, GoroutinesOf
  <1>5. CASE \E q \in Callers : lookup(q) \/ lookupHit(q) \/ Answer(q)
    BY <1>5, CallersGoOn, Distinct, GoroutinesOf
  <1> QED BY <1>1, <1>2, <1>3, <1>4, <1>5 DEF Next

\* The read lock of run is given back by run alone.
LEMMA StaysReading ==
  ASSUME IInv, StopsReading, [Next]_vars
  PROVE  StopsReading'
  <1> USE DEF StopsReading
  <1>1. pc \in [Goroutines -> Points] /\ run \in Goroutines /\ ControlTypeOK
    BY GoroutinesOf DEF IInv, TagsSound, TypeOK, ControlTypeOK
  <1>2. CASE Run
    <2>1. CASE StopRLock
      BY <1>1, <2>1 DEF StopRLock, RLock, Goto
    <2>2. CASE Stopped
      BY <1>1, <2>2 DEF Stopped, Goto
    <2>3. ASSUME NEW c \in Streamers, StopStream(c) PROVE StopsReading'
      BY <2>3 DEF StopStream
    <2>4. CASE Start \/ Stop
      BY <1>1, <2>4, Distinct DEF Start, Stop, Goto
    <2>5. CASE RetryTick \/ PullTick
      BY <1>1, <2>5, Distinct DEF RetryTick, PullTick, Goto
    <2>6. CASE ReceiveInfo \/ prune
      BY <2>6 DEF ReceiveInfo, prune
    <2> QED BY <1>2, <2>1, <2>2, <2>3, <2>4, <2>5, <2>6 DEF Run, Stopping
  <1>3. CASE Next /\ ~Run
    <2>1. pc'[run] = pc[run]
      BY <1>1, <1>3, OthersLeaveRun
    <2>2. CASE pc[run] = "stopping"
      <3>1. readers # {}
        BY <2>2
      <3>2. PICK g \in Goroutines \ {run} : GoesOn(g)
        BY <1>1, <1>3, <2>2, <3>1, OthersGoOn
      <3> QED BY <1>1, <2>2, <3>2 DEF GoesOn
    <2> QED BY <2>1, <2>2
  <1>4. CASE UNCHANGED vars
    BY <1>4 DEF vars
  <1> QED BY <1>2, <1>3, <1>4

\* No step of anybody frees run.
LEMMA StaysStuck ==
  ASSUME IInv, StopsReading, TaggerStuck, [Next]_vars
  PROVE  TaggerStuck'
  <1>1. ControlTypeOK /\ pc[run] # "loop"
    BY DEF IInv, TagsSound, TypeOK, TaggerStuck
  <1>2. readers # {}
    BY DEF TaggerStuck, StuckOnLock, StopsReading
  <1>3. CASE Next /\ ~Run
    BY <1>1, <1>2, <1>3, OthersGoOn, GoingOnFreesNobody
  <1>4. CASE UNCHANGED vars
    BY <1>4 DEF vars, localVars, collectorVars, TaggerStuck, StuckOnLock,
       StuckOnStream
  <1> QED BY <1>3, <1>4, RunFreesNobody

\* A run that waits for the lock behind a detection while a sender waits for
\* run, or for a stream that has ended or waits for room in infoIn, never
\* ends: the exceptions of StopReturnsUnlessStuck are no delays.
THEOREM TaggerStuckForGood == Spec => [](TaggerStuck => [](pc[run] # "done"))
  <1>1. Init => StopsReading
    BY GoroutinesOf DEF Init, StopsReading
  <1>2. IInv /\ StopsReading /\ [Next]_vars => StopsReading'
    BY StaysReading
  <1>3. IInv /\ StopsReading /\ TaggerStuck /\ [Next]_vars => TaggerStuck'
    BY StaysStuck
  <1>4. TaggerStuck => pc[run] # "done"
    BY DEF TaggerStuck
  <1> QED BY <1>1, <1>2, <1>3, <1>4, InitIInv, NextIInv, PTL DEF Spec

-----------------------------------------------------------------------------
(***************************************************************************)
(* NodeSync, for every set of configurations, every expiration and grace   *)
(* period and any number of lost requests and replies.                     *)
(***************************************************************************)
USE SyncAssumption DEF SyncAssumption, Stamps

\* Before the first poll nothing is assigned and nothing runs.
LEMMA SyncInitIInv == SyncInit => SyncIInv
  <1> SUFFICES ASSUME SyncInit PROVE SyncIInv
    OBVIOUS
  <1>1. FlagsTypeOK
    BY Zenon DEF SyncInit, FlagsTypeOK
  <1>2. DataTypeOK
    BY DEF SyncInit, DataTypeOK
  <1>3. NeverIsEmpty /\ SameSecondInSync
    BY DEF SyncInit, NeverIsEmpty, SameSecondInSync
  <1> QED BY <1>1, <1>2, <1>3 DEF SyncIInv, SyncTypeOK

\* The dispatcher's changes: a new stamp equals the agent's last one only if
\* it is of the same second, and then clash is set.
LEMMA AssignmentIInv ==
  ASSUME SyncIInv, NEW c \in Configs, Assign(c) \/ Unassign(c)
  PROVE  SyncIInv'
  <1> USE DEF SyncIInv, SyncTypeOK, Touch, agentVars
  <1>1. FlagsTypeOK'
    BY Zenon DEF Assign, Unassign, UnassignWith, FlagsTypeOK
  <1>2. DataTypeOK'
    BY DEF Assign, Unassign, UnassignWith, DataTypeOK
  <1>3. changed' = "now" /\ clash' = (lastChange = "now")
        /\ UNCHANGED <<lastChange, running, flushed>>
    BY DEF Assign, Unassign, UnassignWith
  <1>4. NeverIsEmpty'
    BY <1>3 DEF NeverIsEmpty
  <1>5. SameSecondInSync'
    BY <1>3 DEF SameSecondInSync, Matches
  <1> QED BY <1>1, <1>2, <1>4, <1>5

\* A store that is dropped is never stamped again before the next change.
LEMMA StoreIInv ==
  ASSUME SyncIInv, expireNodes \/ reset
  PROVE  SyncIInv'
  <1> USE DEF SyncIInv, SyncTypeOK, agentVars, Forget
  <1>1. FlagsTypeOK'
    BY Zenon DEF expireNodes, reset, FlagsTypeOK
  <1>2. DataTypeOK'
    BY DEF expireNodes, reset, DataTypeOK
  <1>3. changed' = "never" /\ assigned' = {} /\ UNCHANGED <<lastChange, running>>
    BY DEF expireNodes, reset
  <1> QED BY <1>1, <1>2, <1>3 DEF NeverIsEmpty, SameSecondInSync, Matches

\* The leadership alone says nothing of the configurations.
LEMMA LeadershipIInv ==
  ASSUME SyncIInv, BecomeLeader \/ WarmupDone \/ LoseLeadership
  PROVE  SyncIInv'
  <1> USE DEF SyncIInv, SyncTypeOK, nodeVars, agentVars, BecomeLeader,
             WarmupDone,
          LoseLeadership
  <1>1. FlagsTypeOK'
    BY Zenon DEF FlagsTypeOK
  <1>2. DataTypeOK'
    BY DEF DataTypeOK
  <1>3. NeverIsEmpty' /\ SameSecondInSync'
    BY DEF NeverIsEmpty, SameSecondInSync, Matches
  <1> QED BY <1>1, <1>2, <1>3

\* A status request changes heartbeats only; a pull makes both sides equal; an
\* error after the grace period flushes.
LEMMA AgentIInv ==
  ASSUME SyncIInv, NodeAgent
  PROVE  SyncIInv'
  <1> USE DEF SyncIInv, SyncTypeOK, nodeVars, agentVars
  <1>1. CASE IsUpToDate
    <2>1. UNCHANGED <<leading, active, changed, assigned, running, lastChange,
                      flushed, same, clash>>
      BY <1>1 DEF IsUpToDate
    <2>2. polled' = TRUE /\ (listed' = TRUE \/ listed' = listed)
      BY <1>1, Zenon DEF IsUpToDate, StatusReply, Reply, StatusError,
             processNodeStatus
    <2>3. FlagsTypeOK'
      BY <2>1, <2>2, Zenon DEF FlagsTypeOK
    <2>4. DataTypeOK'
      BY <1>1 DEF IsUpToDate, StatusReply, Reply, StatusError, Lost,
             processNodeStatus, DataTypeOK
    <2> QED BY <2>1, <2>3, <2>4 DEF NeverIsEmpty, SameSecondInSync, Matches
  <1>2. CASE Collect
    <2>1. FlagsTypeOK'
      BY <1>2, Zenon DEF Collect, FlagsTypeOK
    <2>2. DataTypeOK'
      BY <1>2 DEF Collect, DataTypeOK
    <2> QED BY <1>2, <2>1, <2>2 DEF Collect, NeverIsEmpty, SameSecondInSync
  <1>3. CASE CollectError
    <2>1. FlagsTypeOK'
      BY <1>3, Zenon DEF CollectError, FlagsTypeOK
    <2>2. DataTypeOK'
      BY <1>3 DEF CollectError, Lost, DataTypeOK
    <2> QED BY <1>3, <2>1, <2>2 DEF CollectError, NeverIsEmpty,
               SameSecondInSync, Matches
  <1> QED BY <1>1, <1>2, <1>3 DEF NodeAgent

\* A second that is over keeps whether the two stamps were the same one.
LEMMA TickIInv ==
  ASSUME SyncIInv, Tick
  PROVE  SyncIInv'
  <1> USE DEF SyncIInv, SyncTypeOK, Tick, Older
  <1>1. same' \in BOOLEAN
    BY DEF FlagsTypeOK
  <1>2. FlagsTypeOK'
    BY <1>1, Zenon DEF FlagsTypeOK
  <1>3. DataTypeOK'
    BY DEF DataTypeOK, Aged
  <1>4. NeverIsEmpty'
    BY DEF DataTypeOK, NeverIsEmpty
  <1>5. SameSecondInSync'
    BY DEF DataTypeOK, SameSecondInSync, Matches
  <1> QED BY <1>2, <1>3, <1>4, <1>5

\* Every step keeps the inductive invariant.
LEMMA SyncNextIInv == SyncIInv /\ [SyncNext]_syncVars => SyncIInv'
  <1> SUFFICES ASSUME SyncIInv, [SyncNext]_syncVars PROVE SyncIInv'
    OBVIOUS
  <1>1. CASE UNCHANGED syncVars
    BY <1>1 DEF syncVars, nodeVars, agentVars, SyncIInv, SyncTypeOK,
           FlagsTypeOK, DataTypeOK, NeverIsEmpty, SameSecondInSync, Matches
  <1> QED BY <1>1, AssignmentIInv, StoreIInv, LeadershipIInv, AgentIInv,
             TickIInv DEF SyncNext

(***************************************************************************)
(* InSync: whatever is lost and whoever leads, a node agent the cluster    *)
(* agent calls up to date runs what is assigned to it, but for the two     *)
(* deceptions.                                                             *)
(***************************************************************************)
THEOREM InSync == SyncSpec => []NodeInSync
  <1>1. SyncIInv => NodeInSync
    BY DEF SyncIInv, NodeInSync, UpToDateInSync, Deceived, NeverIsEmpty,
           SameSecondInSync, Matches
  <1> QED BY <1>1, SyncInitIInv, SyncNextIInv, PTL DEF SyncSpec
=============================================================================
