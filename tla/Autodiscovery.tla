---------------------------- MODULE Autodiscovery ----------------------------
(***************************************************************************)
(* Autodiscovery: every template that matches a service is resolved for it *)
(* and the result is scheduled.                                            *)
(*                                                                         *)
(* Two goroutines do so, from two sides and without a lock between the     *)
(* calls they make to the store:                                           *)
(*   - "poller" (configPoller.poll) adds and removes the templates of one  *)
(*     provider and resolves a new template for the services it finds;     *)
(*   - "listening" (AutoConfig.serviceListening) adds and removes services *)
(*     and resolves the templates it finds for a new one; when the tags of *)
(*     a service change it removes the service and adds it again.          *)
(* A kubelet listener hands its services over on unbuffered channels, a    *)
(* retry goroutine tries to start it, and Stop ends them.                  *)
(*                                                                         *)
(* A resolved configuration is the template, the service, the goroutine    *)
(* that resolved it and what became of its secrets; the schedulers and the *)
(* loaded configurations know it by its digest, which has neither the tags *)
(* nor the entity of the service.  Every call that locks the store is an   *)
(* action, and so is the decryption of one configuration.  Configurations  *)
(* that are no templates are in module ClusterDispatch.                    *)
(***************************************************************************)
EXTENDS Naturals

CONSTANTS
  Templates,    \* the templates the provider may return
  Services,     \* the services (containers), each in a pod of its own
  Matching,     \* the pairs <<t, s>> with a common AD identifier
  Kinds,        \* the kinds of templates there are
  Tags,         \* the tag sets a service may have, by hash
  NoTags,       \* the hash of a service the store does not know
  AnyService,   \* in the digest of what is alike
  MaxChanges    \* bound: changes of the provider, the pods and the tags,
                \* and errors

ASSUME DiscoveryAssumption ==
  /\ Matching \subseteq Templates \X Services
  /\ Kinds \subseteq [type : {"check", "logs"}, text : {"own", "same"},
                     overridden : SUBSET Services,
                     secret : {"none", "instances", "init"}]
  /\ Tags # {} /\ NoTags \notin Tags /\ AnyService \notin Services
  /\ MaxChanges \in Nat

Procs   == {"poller", "listening"}
Pods    == {"gone", "unready", "ready"}

\* The secrets of a configuration: as written, decrypted, or overwritten by
\* a decryption that failed.
Texts   == {"written", "decrypted", "broken"}
Configs == [tpl : Templates, svc : Services, by : Procs, text : Texts]
Written(t, s, p) == [tpl |-> t, svc |-> s, by |-> p, text |-> "written"]

Digests == [tpl : Templates, svc : Services \cup {AnyService}, text : Texts]

VARIABLES
  kind,               \* of each template: does it configure a check, has it
                      \* a text of its own for each service, the services
                      \* whose check names override it, where its secrets are
  provided, pods, tags, changes,  \* what exists, and how it changed
  templateCache,      \* templates in the cache
  templateToConfigs, serviceToConfigs, loadedConfigs, \* the store's indexes
  entityToService,    \* the services it knows, with their readiness
  serviceToTagsHash,  \* their tag hashes
  adIDToServices,     \* services that advertised their identifiers
  scheduled,          \* what the schedulers were told to run and not to stop
  logServices,        \* the services the logs scheduler was told of
  failed,     \* ghost: pairs whose last resolution or decryption failed
  at,         \* where each goroutine is
  hand,       \* the configurations it has in hand
  config,     \* the configuration it resolves
  polled,     \* configPoller.configs
  removed, added, tpl, entities, decrypted, \* the poller's locals
  svc, status, templates, refresh, again, \* serviceListening's locals
  lastSeen, lastSeenReady,  \* the pod watcher's
  known,      \* the listener's services
  listener,   \* where the listener's goroutine is
  retry,      \* where retryListenerCandidates is
  stop        \* where AutoConfig.Stop is

worldVars  == <<kind, provided, pods, tags, changes>>
indexVars  == <<templateToConfigs, serviceToConfigs, loadedConfigs>>
toldVars   == <<scheduled, logServices, failed>>
storeVars  == <<templateCache, indexVars, entityToService,
                serviceToTagsHash, adIDToServices, toldVars>>
procVars   == <<at, hand, config>>
pollerVars == <<polled, removed, added, tpl, entities, decrypted>>
listenVars == <<svc, status, templates, refresh, again>>
kubeVars   == <<lastSeen, lastSeenReady, known, listener>>
stopVars   == <<retry, stop>>
vars == <<worldVars, storeVars, procVars, pollerVars, listenVars, kubeVars,
          stopVars>>

\* Config.Digest.
Alias(t, s)  == IF kind[t].text = "same" THEN AnyService ELSE s
Digest(c)    == [tpl |-> c.tpl, svc |-> Alias(c.tpl, c.svc), text |-> c.text]
Digested(cs) == {Digest(c) : c \in cs}

\* What Resolve refuses whatever happens: a template that the service's own
\* check names override, and a check of a service that is not ready.
Resolvable(t, s, state) ==
  /\ <<t, s>> \in Matching /\ s \notin kind[t].overridden
  /\ state = "ready" \/ (state = "unready" /\ kind[t].type = "logs")

Nothing  == [op |-> "idle"]
Sendings == [op : {"new", "del"}, svc : Services, status : Pods]

\* Where a goroutine may be: in resolveTemplateForService, in
\* processRemovedConfigs, or in its own part.
Resolving == {"resolve", "service", "template", "hash"}
Dropping  == {"drop", "unschedule", "unload"}
Points    == Resolving \cup Dropping \cup
  {"next", "uncache", "cached", "lookup", "decrypt",
   "idle", "register", "tag", "advertise", "get", "templates", "schedule",
   "unregister", "take", "unhash", "bare", "off"}

WorldTypeOK ==
  /\ kind \in [Templates -> Kinds]
  /\ provided \subseteq Templates /\ pods \in [Services -> Pods]
  /\ tags \in [Services -> Tags] /\ changes \in 0..MaxChanges

StoreTypeOK ==
  /\ templateCache \subseteq Templates
  /\ templateToConfigs \in [Templates -> SUBSET Configs]
  /\ serviceToConfigs \in [Services -> SUBSET Configs]
  /\ loadedConfigs \subseteq Digests
  /\ entityToService \in [Services -> Pods]
  /\ serviceToTagsHash \in [Services -> Tags \cup {NoTags}]
  /\ adIDToServices \subseteq Services
  /\ scheduled \subseteq Digests /\ logServices \subseteq Services
  /\ failed \subseteq Templates \X Services

ProcTypeOK ==
  /\ at \in [Procs -> Points]
  /\ hand \in [Procs -> SUBSET Configs]
  /\ \A p \in Procs : \E t \in Templates, s \in Services : config[p] = Written(t, s, p)
  /\ DOMAIN config = Procs

LocalsTypeOK ==
  /\ polled \subseteq Templates
  /\ removed \subseteq Templates /\ added \subseteq Templates
  /\ tpl \in Templates /\ entities \subseteq Services
  /\ decrypted \subseteq Configs
  /\ svc \in Services /\ status \in Pods /\ templates \subseteq Templates
  /\ refresh \subseteq Services /\ again \in BOOLEAN

KubeTypeOK ==
  /\ lastSeen \subseteq Services /\ lastSeenReady \subseteq lastSeen
  /\ known \subseteq lastSeen
  /\ listener \in {Nothing, [op |-> "none"], [op |-> "off"]} \cup Sendings
  /\ retry \in {"off", "wait", "lock", "exit"}
  /\ stop \in {"no", "listening", "retry", "listeners", "done"}

TypeOK == WorldTypeOK /\ StoreTypeOK /\ ProcTypeOK /\ LocalsTypeOK /\ KubeTypeOK

\* Stop holds AutoConfig's mutex to its end.
Locked == stop \in {"listening", "retry", "listeners"}

\* The listener started at once, or will be retried.
Init ==
  /\ kind \in [Templates -> Kinds]
  /\ provided \in SUBSET Templates /\ pods \in [Services -> Pods]
  /\ tags = [s \in Services |-> CHOOSE g \in Tags : TRUE] /\ changes = 0
  /\ templateCache = {}
  /\ templateToConfigs = [t \in Templates |-> {}]
  /\ serviceToConfigs = [s \in Services |-> {}]
  /\ loadedConfigs = {} /\ scheduled = {} /\ logServices = {} /\ failed = {}
  /\ entityToService = [s \in Services |-> "gone"]
  /\ serviceToTagsHash = [s \in Services |-> NoTags]
  /\ adIDToServices = {}
  /\ at = [poller |-> "next", listening |-> "idle"]
  /\ hand = [p \in Procs |-> {}]
  /\ \E s \in Services, t \in Templates :
       svc = s /\ tpl = t /\ config = [p \in Procs |-> Written(t, s, p)]
  /\ polled = {} /\ removed = {} /\ added = {} /\ entities = {} /\ decrypted = {}
  /\ status = "gone" /\ templates = {} /\ refresh = {} /\ again = FALSE
  /\ lastSeen = {} /\ lastSeenReady = {} /\ known = {}
  /\ \/ listener = Nothing /\ retry = "off"
     \/ listener = [op |-> "none"] /\ retry = "wait"
  /\ stop = "no"

Go(p, from, to) == at[p] = from /\ at' = [at EXCEPT ![p] = to]

Change == changes < MaxChanges /\ changes' = changes + 1
Error  == Change /\ UNCHANGED <<kind, provided, pods, tags>>

-----------------------------------------------------------------------------
(***************************************************************************)
(* What both goroutines do: resolveTemplateForService, call by call, and   *)
(* processRemovedConfigs.                                                  *)
(***************************************************************************)

\* Where a goroutine goes on after a template and a service.
Onwards(p) == IF p = "poller" THEN "lookup" ELSE "templates"

Pair(c) == <<c.tpl, c.svc>>

\* setLoadedConfig, once Resolve has succeeded.
Resolve(p) ==
  /\ Go(p, "resolve", "service")
  /\ loadedConfigs' = loadedConfigs \cup {Digest(config[p])}
  /\ failed' = failed \ {Pair(config[p])}
  /\ UNCHANGED <<worldVars, templateCache, templateToConfigs,
                 serviceToConfigs, entityToService, serviceToTagsHash,
                 adIDToServices, scheduled, logServices, hand, config,
                 pollerVars, listenVars, kubeVars, stopVars>>

\* A variable of the template, of the environment or the tags cannot be had.
ResolveError(p) ==
  /\ Go(p, "resolve", Onwards(p)) /\ Error
  /\ failed' = failed \cup {Pair(config[p])}
  /\ UNCHANGED <<templateCache, indexVars, entityToService,
                 serviceToTagsHash, adIDToServices, scheduled, logServices,
                 hand, config, pollerVars, listenVars, kubeVars, stopVars>>

addConfigForService(p) ==
  /\ Go(p, "service", "template")
  /\ serviceToConfigs' =
       [serviceToConfigs EXCEPT ![config[p].svc] = @ \cup {config[p]}]
  /\ UNCHANGED <<worldVars, templateCache, templateToConfigs, loadedConfigs,
                 entityToService, serviceToTagsHash, adIDToServices,
                 toldVars, hand, config, pollerVars, listenVars, kubeVars,
                 stopVars>>

AddForTemplate(p, cs) ==
  /\ Go(p, "template", "hash")
  /\ templateToConfigs' =
       [templateToConfigs EXCEPT ![config[p].tpl] = @ \cup cs]
  /\ UNCHANGED <<worldVars, templateCache, serviceToConfigs, loadedConfigs,
                 entityToService, serviceToTagsHash, adIDToServices,
                 toldVars, hand, config, pollerVars, listenVars, kubeVars,
                 stopVars>>

\* Mutant: only the service knows what was resolved for it.
IndexByServiceOnly(p) == AddForTemplate(p, {})

addConfigForTemplate(p) == AddForTemplate(p, {config[p]})

\* The hash is of the tags the service has by now.  The poller keeps what
\* it resolved by digest.
setTagsHashForService(p) ==
  /\ Go(p, "hash", IF p = "poller" THEN "lookup" ELSE "schedule")
  /\ serviceToTagsHash' =
       [serviceToTagsHash EXCEPT ![config[p].svc] = tags[config[p].svc]]
  /\ hand' = [hand EXCEPT ![p] =
                {c \in @ : Digest(c) # Digest(config[p])} \cup {config[p]}]
  /\ UNCHANGED <<worldVars, templateCache, indexVars, entityToService,
                 adIDToServices, toldVars, config, pollerVars, listenVars,
                 kubeVars, stopVars>>

\* MetaScheduler.Unschedule, then removeLoadedConfig for each.
UnscheduleOf(p, ds) ==
  /\ Go(p, "unschedule", "unload")
  /\ scheduled' = scheduled \ ds
  /\ UNCHANGED <<worldVars, templateCache, indexVars, entityToService,
                 serviceToTagsHash, adIDToServices, logServices, failed, hand,
                 config, pollerVars, listenVars, kubeVars, stopVars>>

\* Mutant: only what is still loaded is unscheduled.
UnscheduleLoaded(p) == UnscheduleOf(p, Digested(hand[p]) \cap loadedConfigs)

Unschedule(p) == UnscheduleOf(p, Digested(hand[p]))

removeLoadedConfig(p) ==
  /\ Go(p, "unload", IF p = "poller" THEN "uncache" ELSE "unhash")
  /\ loadedConfigs' = loadedConfigs \ Digested(hand[p])
  /\ hand' = [hand EXCEPT ![p] = {}]
  /\ UNCHANGED <<worldVars, templateCache, templateToConfigs,
                 serviceToConfigs, entityToService, serviceToTagsHash,
                 adIDToServices, toldVars, config, pollerVars, listenVars,
                 kubeVars, stopVars>>

Both(p) ==
  \/ Resolve(p) \/ ResolveError(p) \/ addConfigForService(p) \/ addConfigForTemplate(p)
  \/ setTagsHashForService(p) \/ Unschedule(p) \/ removeLoadedConfig(p)

-----------------------------------------------------------------------------
(***************************************************************************)
(* configPoller.poll.                                                      *)
(***************************************************************************)
collect ==
  /\ at["poller"] = "next" /\ removed = {} /\ added = {}
  /\ provided # polled
  /\ removed' = polled \ provided
  /\ added' = provided \ polled
  /\ polled' = provided
  /\ UNCHANGED <<worldVars, storeVars, procVars, tpl, entities, decrypted,
                 listenVars, kubeVars, stopVars>>

\* removeConfigTemplates: its configurations are read, then dropped from
\* the index, unscheduled and unloaded; the template goes last.
getConfigsForTemplate(t) ==
  /\ Go("poller", "next", "drop")
  /\ t \in removed
  /\ removed' = removed \ {t} /\ tpl' = t
  /\ hand' = [hand EXCEPT !["poller"] = templateToConfigs[t]]
  /\ UNCHANGED <<worldVars, storeVars, config, polled, added, entities,
                 decrypted, listenVars, kubeVars, stopVars>>

removeConfigsForTemplate ==
  /\ Go("poller", "drop", "unschedule")
  /\ templateToConfigs' = [templateToConfigs EXCEPT ![tpl] = {}]
  /\ UNCHANGED <<worldVars, templateCache, serviceToConfigs, loadedConfigs,
                 entityToService, serviceToTagsHash, adIDToServices,
                 toldVars, hand, config, pollerVars, listenVars, kubeVars,
                 stopVars>>

Del ==
  /\ Go("poller", "uncache", "next")
  /\ templateCache' = templateCache \ {tpl}
  /\ UNCHANGED <<worldVars, indexVars, entityToService, serviceToTagsHash,
                 adIDToServices, toldVars, hand, config, pollerVars,
                 listenVars, kubeVars, stopVars>>

\* processNewConfig: the template is cached before it is resolved.
Set(t) ==
  /\ Go("poller", "next", "cached")
  /\ removed = {} /\ t \in added
  /\ added' = added \ {t} /\ tpl' = t
  /\ templateCache' = templateCache \cup {t}
  /\ UNCHANGED <<worldVars, indexVars, entityToService, serviceToTagsHash,
                 adIDToServices, toldVars, hand, config, polled, removed,
                 entities, decrypted, listenVars, kubeVars, stopVars>>

getServiceEntitiesForADID ==
  /\ Go("poller", "cached", "lookup")
  /\ entities' = {s \in adIDToServices : <<tpl, s>> \in Matching}
  /\ UNCHANGED <<worldVars, storeVars, hand, config, polled, removed, added,
                 tpl, decrypted, listenVars, kubeVars, stopVars>>

\* A service that is gone is skipped.
getServiceForEntity(s) ==
  /\ s \in entities
  /\ entities' = entities \ {s}
  /\ Go("poller", "lookup",
        IF Resolvable(tpl, s, entityToService[s]) THEN "resolve" ELSE "lookup")
  /\ config' = [config EXCEPT !["poller"] = Written(tpl, s, "poller")]
  /\ UNCHANGED <<worldVars, storeVars, hand, polled, removed, added, tpl,
                 decrypted, listenVars, kubeVars, stopVars>>

AllLookedUp ==
  /\ Go("poller", "lookup", "decrypt")
  /\ entities = {}
  /\ UNCHANGED <<worldVars, storeVars, hand, config, pollerVars, listenVars,
                 kubeVars, stopVars>>

\* The instances of a configuration are written over where they are, so in
\* all copies of it.
Over(c, text, cs) ==
  IF c \in cs THEN (cs \ {c}) \cup {[c EXCEPT !.text = text]} ELSE cs

OverAll(c, text) ==
  /\ templateToConfigs' = [t \in Templates |-> Over(c, text, templateToConfigs[t])]
  /\ serviceToConfigs' = [s \in Services |-> Over(c, text, serviceToConfigs[s])]
  /\ hand' = [hand EXCEPT !["poller"] = @ \ {c},
                          !["listening"] = Over(c, text, @)]

\* Other secrets are decrypted in the copy that is scheduled.
OverOne(c) ==
  /\ hand' = [hand EXCEPT !["poller"] = @ \ {c}]
  /\ UNCHANGED <<templateToConfigs, serviceToConfigs>>

\* decryptConfig, for each configuration processNewConfig has resolved.
decryptConfig(c) ==
  /\ Go("poller", "decrypt", "decrypt")
  /\ c \in hand["poller"]
  /\ \/ kind[c.tpl].secret = "none" /\ OverOne(c) /\ decrypted' = decrypted \cup {c}
     \/ /\ kind[c.tpl].secret = "instances" /\ OverAll(c, "decrypted")
        /\ decrypted' = decrypted \cup {[c EXCEPT !.text = "decrypted"]}
     \/ /\ kind[c.tpl].secret = "init" /\ OverOne(c)
        /\ decrypted' = decrypted \cup {[c EXCEPT !.text = "decrypted"]}
  /\ UNCHANGED <<worldVars, templateCache, loadedConfigs, entityToService,
                 serviceToTagsHash, adIDToServices, toldVars, config, polled,
                 removed, added, tpl, entities, listenVars, kubeVars, stopVars>>

\* An error: the configuration is dropped, what was decoded of it is gone.
DecryptError(c) ==
  /\ Go("poller", "decrypt", "decrypt") /\ Error
  /\ c \in hand["poller"]
  /\ \/ kind[c.tpl].secret = "instances" /\ OverAll(c, "broken")
     \/ kind[c.tpl].secret = "init" /\ OverOne(c)
  /\ failed' = failed \cup {Pair(c)}
  /\ UNCHANGED <<templateCache, loadedConfigs, entityToService,
                 serviceToTagsHash, adIDToServices, scheduled, logServices,
                 config, pollerVars, listenVars, kubeVars, stopVars>>

\* MetaScheduler.Schedule.
ScheduleTemplate ==
  /\ Go("poller", "decrypt", "next")
  /\ hand["poller"] = {}
  /\ scheduled' = scheduled \cup Digested(decrypted)
  /\ decrypted' = {}
  /\ UNCHANGED <<worldVars, templateCache, indexVars, entityToService,
                 serviceToTagsHash, adIDToServices, logServices, failed, hand,
                 config, polled, removed, added, tpl, entities, listenVars,
                 kubeVars, stopVars>>

Poller ==
  \/ collect
  \/ \E t \in Templates : getConfigsForTemplate(t) \/ Set(t)
  \/ removeConfigsForTemplate \/ Del
  \/ getServiceEntitiesForADID
  \/ \E s \in Services : getServiceForEntity(s)
  \/ AllLookedUp
  \/ \E c \in hand["poller"] : decryptConfig(c) \/ DecryptError(c)
  \/ ScheduleTemplate
  \/ Both("poller")

-----------------------------------------------------------------------------
(***************************************************************************)
(* AutoConfig.serviceListening.                                            *)
(***************************************************************************)

\* A service is received from the listener.
Receive(op, to) ==
  /\ refresh = {} /\ listener.op = op
  /\ Go("listening", "idle", to)
  /\ svc' = listener.svc /\ status' = listener.status
  /\ listener' = Nothing
  /\ UNCHANGED <<worldVars, storeVars, hand, config, pollerVars, templates,
                 refresh, again, lastSeen, lastSeenReady, known, stopVars>>

\* processNewService, call by call.
setServiceForEntity ==
  /\ Go("listening", "register", "tag")
  /\ entityToService' = [entityToService EXCEPT ![svc] = status]
  /\ UNCHANGED <<worldVars, templateCache, indexVars, serviceToTagsHash,
                 adIDToServices, toldVars, hand, config, pollerVars,
                 listenVars, kubeVars, stopVars>>

TagService ==
  /\ Go("listening", "tag", "advertise")
  /\ serviceToTagsHash' = [serviceToTagsHash EXCEPT ![svc] = tags[svc]]
  /\ UNCHANGED <<worldVars, templateCache, indexVars, entityToService,
                 adIDToServices, toldVars, hand, config, pollerVars,
                 listenVars, kubeVars, stopVars>>

Advertise(ss) ==
  /\ Go("listening", "advertise", "get")
  /\ adIDToServices' = adIDToServices \cup ss
  /\ UNCHANGED <<worldVars, templateCache, indexVars, entityToService,
                 serviceToTagsHash, toldVars, hand, config, pollerVars,
                 listenVars, kubeVars, stopVars>>

\* Mutant: the service is not entered for later templates.
AdvertiseNothing == Advertise({})

setADIDForServices == Advertise({svc})

Get ==
  /\ Go("listening", "get", "templates")
  /\ templates' = {t \in templateCache : <<t, svc>> \in Matching}
  /\ UNCHANGED <<worldVars, storeVars, hand, config, pollerVars, svc, status,
                 refresh, again, kubeVars, stopVars>>

ResolveNext(t) ==
  /\ t \in templates
  /\ templates' = templates \ {t}
  /\ Go("listening", "templates",
        IF Resolvable(t, svc, status) THEN "resolve" ELSE "templates")
  /\ config' = [config EXCEPT !["listening"] = Written(t, svc, "listening")]
  /\ UNCHANGED <<worldVars, storeVars, hand, pollerVars, svc, status,
                 refresh, again, kubeVars, stopVars>>

\* Scheduled as it is: nothing is decrypted here.
ScheduleResolved ==
  /\ Go("listening", "schedule", "templates")
  /\ scheduled' = scheduled \cup Digested(hand["listening"])
  /\ hand' = [hand EXCEPT !["listening"] = {}]
  /\ UNCHANGED <<worldVars, templateCache, indexVars, entityToService,
                 serviceToTagsHash, adIDToServices, logServices, failed,
                 config, pollerVars, listenVars, kubeVars, stopVars>>

\* The service itself, for the logs scheduler.
ScheduleService ==
  /\ templates = {}
  /\ Go("listening", "templates", "idle")
  /\ logServices' = logServices \cup {svc}
  /\ status' = "gone" /\ again' = FALSE
  /\ UNCHANGED <<worldVars, templateCache, indexVars, entityToService,
                 serviceToTagsHash, adIDToServices, scheduled, failed, hand,
                 config, pollerVars, svc, templates, refresh, kubeVars, stopVars>>

\* processDelService, call by call.
removeServiceForEntity ==
  /\ Go("listening", "unregister", "take")
  /\ entityToService' = [entityToService EXCEPT ![svc] = "gone"]
  /\ UNCHANGED <<worldVars, templateCache, indexVars, serviceToTagsHash,
                 adIDToServices, toldVars, hand, config, pollerVars,
                 listenVars, kubeVars, stopVars>>

getConfigsForService ==
  /\ Go("listening", "take", "drop")
  /\ hand' = [hand EXCEPT !["listening"] = serviceToConfigs[svc]]
  /\ UNCHANGED <<worldVars, storeVars, config, pollerVars, listenVars,
                 kubeVars, stopVars>>

removeConfigsForService ==
  /\ Go("listening", "drop", "unschedule")
  /\ serviceToConfigs' = [serviceToConfigs EXCEPT ![svc] = {}]
  /\ UNCHANGED <<worldVars, templateCache, templateToConfigs, loadedConfigs,
                 entityToService, serviceToTagsHash, adIDToServices,
                 toldVars, hand, config, pollerVars, listenVars, kubeVars,
                 stopVars>>

removeTagsHashForService ==
  /\ Go("listening", "unhash", "bare")
  /\ serviceToTagsHash' = [serviceToTagsHash EXCEPT ![svc] = NoTags]
  /\ UNCHANGED <<worldVars, templateCache, indexVars, entityToService,
                 adIDToServices, toldVars, hand, config, pollerVars,
                 listenVars, kubeVars, stopVars>>

UnscheduleService ==
  /\ Go("listening", "bare", IF again THEN "register" ELSE "idle")
  /\ logServices' = logServices \ {svc}
  /\ UNCHANGED <<worldVars, templateCache, indexVars, entityToService,
                 serviceToTagsHash, adIDToServices, scheduled, failed, hand,
                 config, pollerVars, listenVars, kubeVars, stopVars>>

\* The ticker: services whose tags changed are removed and added again.
Stale == {s \in Services : /\ entityToService[s] # "gone"
                           /\ serviceToTagsHash[s] # tags[s]}

checkTagFreshness ==
  /\ at["listening"] = "idle" /\ refresh = {}
  /\ Stale # {}
  /\ refresh' = Stale
  /\ serviceToTagsHash' = [s \in Services |->
       IF s \in Stale THEN tags[s] ELSE serviceToTagsHash[s]]
  /\ UNCHANGED <<worldVars, templateCache, indexVars, entityToService,
                 adIDToServices, toldVars, procVars, pollerVars, svc,
                 status, templates, again, kubeVars, stopVars>>

RefreshNext(s) ==
  /\ s \in refresh
  /\ refresh' = refresh \ {s}
  /\ Go("listening", "idle", "unregister")
  /\ svc' = s /\ status' = entityToService[s] /\ again' = TRUE
  /\ UNCHANGED <<worldVars, storeVars, hand, config, pollerVars, templates,
                 kubeVars, stopVars>>

Listening ==
  \/ Receive("new", "register") \/ Receive("del", "unregister")
  \/ setServiceForEntity \/ TagService \/ setADIDForServices \/ Get
  \/ \E t \in Templates : ResolveNext(t)
  \/ ScheduleResolved \/ ScheduleService
  \/ removeServiceForEntity \/ getConfigsForService
  \/ removeConfigsForService \/ removeTagsHashForService
  \/ UnscheduleService
  \/ checkTagFreshness
  \/ \E s \in Services : RefreshNext(s)
  \/ Both("listening")

-----------------------------------------------------------------------------
(***************************************************************************)
(* The kubelet listener and its pod watcher.                               *)
(***************************************************************************)

\* PullChanges and createService: new containers, and those that became
\* ready, are handed over.
PullChanges(s) ==
  /\ listener = Nothing /\ pods[s] # "gone"
  /\ s \notin lastSeen \/ (pods[s] = "ready" /\ s \notin lastSeenReady)
  /\ lastSeen' = lastSeen \cup {s}
  /\ lastSeenReady' = IF pods[s] = "ready" THEN lastSeenReady \cup {s}
                      ELSE lastSeenReady
  /\ known' = known \cup {s}
  /\ listener' = [op |-> "new", svc |-> s, status |-> pods[s]]
  /\ UNCHANGED <<worldVars, storeVars, procVars, pollerVars, listenVars,
                 stopVars>>

\* Expire and removeService: containers that are gone, or unready for long.
Expire(s) ==
  /\ listener = Nothing
  /\ \/ pods[s] = "gone" /\ s \in lastSeen /\ lastSeen' = lastSeen \ {s}
     \/ pods[s] = "unready" /\ s \in lastSeenReady /\ UNCHANGED lastSeen
  /\ lastSeenReady' = lastSeenReady \ {s}
  /\ known' = known \ {s}
  /\ listener' = IF s \in known
                 THEN [op |-> "del", svc |-> s, status |-> "gone"]
                 ELSE Nothing
  /\ UNCHANGED <<worldVars, storeVars, procVars, pollerVars, listenVars,
                 stopVars>>

Listener == \E s \in Services : PullChanges(s) \/ Expire(s)

-----------------------------------------------------------------------------
(***************************************************************************)
(* retryListenerCandidates and Stop.  Stop leaves a poller running that    *)
(* polls: configPoller.stop returns at once for it.                        *)
(***************************************************************************)
RetryTick ==
  /\ retry = "wait" /\ retry' = "lock"
  /\ UNCHANGED <<worldVars, storeVars, procVars, pollerVars, listenVars,
                 kubeVars, stop>>

\* The listener starts, is to be retried, or fails for good.
initListenerCandidates ==
  /\ retry = "lock" /\ ~Locked
  /\ \/ listener' = Nothing /\ retry' = "exit"
     \/ UNCHANGED listener /\ retry' \in {"wait", "exit"}
  /\ UNCHANGED <<worldVars, storeVars, procVars, pollerVars, listenVars,
                 lastSeen, lastSeenReady, known, stop>>

RetryExit ==
  /\ retry = "exit" /\ ~Locked
  /\ retry' = "off"
  /\ UNCHANGED <<worldVars, storeVars, procVars, pollerVars, listenVars,
                 kubeVars, stop>>

Stop ==
  /\ stop = "no"
  /\ stop' = "listening"
  /\ UNCHANGED <<worldVars, storeVars, procVars, pollerVars, listenVars,
                 kubeVars, retry>>

StopListening ==
  /\ stop = "listening" /\ refresh = {}
  /\ Go("listening", "idle", "off")
  /\ stop' = "retry"
  /\ UNCHANGED <<worldVars, storeVars, hand, config, pollerVars, listenVars,
                 kubeVars, retry>>

\* A send to the retry goroutine, when there is one.
StopRetryWhen(none) ==
  /\ stop = "retry"
  /\ \/ none /\ UNCHANGED retry
     \/ retry = "wait" /\ retry' = "exit"
  /\ stop' = "listeners"
  /\ UNCHANGED <<worldVars, storeVars, procVars, pollerVars, listenVars,
                 kubeVars>>

\* Mutant: the send is not skipped when there is none.
StopRetryAlways == StopRetryWhen(FALSE)

StopRetry == StopRetryWhen(retry = "off")

\* A send to the listener's goroutine, when it was started.
StopListener ==
  /\ stop = "listeners"
  /\ \/ listener = Nothing /\ listener' = [op |-> "off"]
     \/ listener.op = "none" /\ UNCHANGED listener
  /\ stop' = "done"
  /\ UNCHANGED <<worldVars, storeVars, procVars, pollerVars, listenVars,
                 lastSeen, lastSeenReady, known, retry>>

Stopping == StopListening \/ StopRetry \/ StopListener

-----------------------------------------------------------------------------
(***************************************************************************)
(* The world.                                                              *)
(***************************************************************************)
WorldRest == UNCHANGED <<storeVars, procVars, pollerVars, listenVars, kubeVars,
                         stopVars>>

ProviderChanges(t) ==
  /\ Change /\ WorldRest
  /\ provided' = IF t \in provided THEN provided \ {t} ELSE provided \cup {t}
  /\ UNCHANGED <<kind, pods, tags>>

PodChanges(s, p) ==
  /\ Change /\ WorldRest
  /\ pods[s] # p /\ pods' = [pods EXCEPT ![s] = p]
  /\ UNCHANGED <<kind, provided, tags>>

TagsChange(s, g) ==
  /\ Change /\ WorldRest
  /\ tags[s] # g /\ tags' = [tags EXCEPT ![s] = g]
  /\ UNCHANGED <<kind, provided, pods>>

World ==
  \/ \E t \in Templates : ProviderChanges(t)
  \/ \E s \in Services, p \in Pods : PodChanges(s, p)
  \/ \E s \in Services, g \in Tags : TagsChange(s, g)

Next ==
  \/ Poller \/ Listening \/ Listener
  \/ RetryTick \/ initListenerCandidates \/ RetryExit
  \/ Stop \/ Stopping
  \/ World

Spec == Init /\ [][Next]_vars

(***************************************************************************)
(* Every goroutine that can go on does; serviceListening does not ignore   *)
(* Stop for ever although services keep arriving.                          *)
(***************************************************************************)
Fairness ==
  /\ WF_vars(Poller) /\ WF_vars(Listening) /\ WF_vars(Listener)
  /\ WF_vars(RetryTick) /\ WF_vars(initListenerCandidates)
  /\ WF_vars(RetryExit)
  /\ SF_vars(StopListening) /\ SF_vars(StopRetry) /\ SF_vars(StopListener)

FairSpec == Spec /\ Fairness

-----------------------------------------------------------------------------
(***************************************************************************)
(* Properties.                                                             *)
(***************************************************************************)
PollerIdle    == at["poller"] = "next" /\ removed = {} /\ added = {}
ListeningIdle == at["listening"] = "idle" /\ refresh = {}

\* No match is missed: when neither goroutine has work in hand, every cached
\* template runs for every service it can be resolved for, whichever of the
\* two came first and however their steps interleaved; unless its last
\* resolution or decryption failed, or it reads the same for all services,
\* where the removal of one unschedules it for the others.
NoMatchMissed ==
  PollerIdle /\ ListeningIdle =>
    \A t \in templateCache, s \in Services :
      /\ Resolvable(t, s, entityToService[s]) /\ <<t, s>> \notin failed
      /\ kind[t].text = "own"
      => \E d \in scheduled : d.tpl = t /\ d.svc = s

\* A secret outside the instances is decrypted in the scheduled copy only:
\* the store has another digest of it.
Unknown(d) == kind[d.tpl].secret = "init" /\ d.text = "decrypted"

\* What is scheduled can be unscheduled: a configuration with its digest is
\* in an index or in the hand of a goroutine, although each goroutine drops
\* an index in two calls while the other adds to it, and a decryption
\* changes digests where they are indexed.
StillIndexed ==
  \A d \in scheduled : Unknown(d) \/
    \E c \in UNION ({templateToConfigs[t] : t \in Templates}
                    \cup {serviceToConfigs[s] : s \in Services}
                    \cup {hand[p] : p \in Procs}) : Digest(c) = d

\* The store is sound: every variable keeps its type and nothing scheduled
\* is out of reach but for what it has another digest of.
IndexesSound == TypeOK /\ StillIndexed

\* Nothing is left behind: when a template and the services it resolves to
\* the same for are gone for good, nothing resolved from them stays
\* scheduled, but for what the store has another digest of, and the logs
\* scheduler does not keep the service.
EventuallyUnscheduled ==
  \A t \in Templates, s \in Services :
    <>[](/\ t \notin provided /\ stop = "no"
         /\ \A u \in Services : Alias(t, u) = Alias(t, s) => pods[u] = "gone")
      => <>[](/\ \A d \in scheduled : d.tpl = t /\ d.svc = Alias(t, s) => Unknown(d)
              /\ s \notin logServices)

\* What keeps Stop: a listener that holds a service nobody receives any
\* more, or the retry goroutine on its way to the mutex that Stop holds.
StopStuck ==
  \/ stop = "listeners" /\ listener.op \in {"new", "del"}
  \/ stop = "retry" /\ retry \in {"lock", "exit"}

\* Stop comes back in every other case, whatever the goroutines are doing.
StopReturnsUnlessStuck == (stop # "no") ~> (stop = "done" \/ StopStuck)

-----------------------------------------------------------------------------
(***************************************************************************)
(* The inductive invariant of ChecksProofs.                                *)
(***************************************************************************)

\* No decryption will write over it.
Lasting(c) ==
  ~(kind[c.tpl].secret = "instances" /\ c.by = "poller" /\ c.text = "written")

\* A configuration is in the index of its own template and service only, and
\* what a goroutine removes or resolves is of the template or the service it
\* is about.
NamesRight ==
  /\ \A t \in Templates : \A c \in templateToConfigs[t] : c.tpl = t
  /\ \A s \in Services : \A c \in serviceToConfigs[s] : c.svc = s
  /\ at["poller"] \in Dropping => \A c \in hand["poller"] : c.tpl = tpl
  /\ at["listening"] \in Dropping => \A c \in hand["listening"] : c.svc = svc
  /\ at["poller"] \in Resolving => config["poller"].tpl = tpl
  /\ at["listening"] \in Resolving => config["listening"].svc = svc

\* What a goroutine is about to schedule is in the index that no other
\* goroutine drops, as it will be scheduled.
ResolvedIndexed ==
  /\ at["poller"] \notin Dropping =>
       \A c \in hand["poller"] : /\ c \in templateToConfigs[c.tpl]
                                 /\ c.by = "poller" /\ c.text = "written"
  /\ \A c \in decrypted : Unknown(c) \/ (c \in templateToConfigs[c.tpl] /\ Lasting(c))
  /\ decrypted # {} => at["poller"] = "decrypt"
  /\ at["poller"] = "hash" =>
       config["poller"] \in templateToConfigs[config["poller"].tpl]
  /\ at["listening"] \notin Dropping =>
       \A c \in hand["listening"] : c \in serviceToConfigs[c.svc] /\ Lasting(c)
  /\ at["listening"] \in {"template", "hash"} =>
       config["listening"] \in serviceToConfigs[config["listening"].svc]

\* What is scheduled is in the hand of a goroutine that will unschedule it,
\* or in an index that is not about to be dropped.
InHand(c)     == \E p \in Procs : at[p] \in {"drop", "unschedule"} /\ c \in hand[p]
ByTemplate(c) == /\ c \in templateToConfigs[c.tpl]
                 /\ ~(at["poller"] = "drop" /\ tpl = c.tpl)
ByService(c)  == /\ c \in serviceToConfigs[c.svc]
                 /\ ~(at["listening"] = "drop" /\ svc = c.svc)
Reached(c)    == InHand(c) \/ ByTemplate(c) \/ ByService(c)

WithinReach ==
  \A d \in scheduled : Unknown(d) \/
    \E c \in Configs : Digest(c) = d /\ Lasting(c) /\ Reached(c)

\* The store knows a service from its registration to its removal, and
\* advertises it right after the registration.
ServiceStored ==
  /\ at["listening"] \in {"take", "unhash", "bare"} \cup Dropping =>
       entityToService[svc] = "gone"
  /\ at["listening"] \in {"tag", "advertise", "get", "templates", "schedule"} \cup Resolving =>
       entityToService[svc] = status
  /\ \A s \in Services : entityToService[s] # "gone" =>
       s \in adIDToServices \/ (svc = s /\ at["listening"] \in {"tag", "advertise"})

\* A match is scheduled, or a goroutine is about to schedule it, or the
\* poller removes its template.
For(c, t, s) == c.tpl = t /\ c.svc = s

PollerHas(t, s) ==
  /\ tpl = t
  /\ \/ at["poller"] = "cached"
     \/ at["poller"] \in {"lookup"} \cup Resolving /\ s \in entities
     \/ at["poller"] \in {"lookup", "decrypt"} \cup Resolving
        /\ \E c \in hand["poller"] : For(c, t, s)
     \/ at["poller"] = "decrypt" /\ \E c \in decrypted : For(c, t, s)
     \/ at["poller"] \in Resolving /\ For(config["poller"], t, s)

ListeningHas(t, s) ==
  /\ svc = s
  /\ \/ at["listening"] \in {"tag", "advertise", "get"}
     \/ at["listening"] \in {"templates", "schedule"} \cup Resolving /\ t \in templates
     \/ at["listening"] \in Resolving /\ For(config["listening"], t, s)
     \/ at["listening"] = "schedule" /\ \E c \in hand["listening"] : For(c, t, s)

Removing(t) == tpl = t /\ at["poller"] \in {"uncache"} \cup Dropping

MatchesKept ==
  \A t \in templateCache, s \in Services :
    /\ Resolvable(t, s, entityToService[s]) /\ <<t, s>> \notin failed
    /\ kind[t].text = "own"
    => \/ \E d \in scheduled : For(d, t, s)
       \/ PollerHas(t, s) \/ ListeningHas(t, s) \/ Removing(t)

IInv ==
  /\ TypeOK /\ NamesRight /\ ResolvedIndexed /\ WithinReach
  /\ ServiceStored /\ MatchesKept
=============================================================================
