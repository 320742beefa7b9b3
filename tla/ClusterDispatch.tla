--------------------------- MODULE ClusterDispatch ---------------------------
(***************************************************************************)
(* Cluster checks, the cluster agent's side: every cluster-check           *)
(* configuration is given to one of the node agents that report.           *)
(*                                                                         *)
(* Goroutines that share the clusterStore:                                 *)
(*   - autodiscovery loads and unloads configurations and passes them to   *)
(*     the dispatcher through the MetaScheduler ("ad");                    *)
(*   - runDispatch replays the loaded configurations, then expires silent  *)
(*     nodes, re-dispatches their configurations and moves checks between  *)
(*     nodes ("loop");                                                     *)
(*   - the Handler follows the leader election, starts and cancels         *)
(*     runDispatch, and serves the status reports of the node agents.      *)
(* The store is locked per call, so an operation of several calls is       *)
(* several actions here.  What a node agent does with its configurations   *)
(* is module NodeSync.                                                     *)
(*                                                                         *)
(* A tick is a time in which every running node agent reports once;        *)
(* heartbeats are ages in ticks.  The weights that rebalance compares are  *)
(* not modelled: it may move any check.                                    *)
(***************************************************************************)
EXTENDS Naturals, FiniteSets

CONSTANTS
  Nodes,        \* the node agents
  Configs,      \* the cluster-check configurations, by digest
  ZeroConfig,   \* the digest of the zero integration.Config
  Expiration,   \* node_expiration_timeout, in ticks
  MaxFlips,     \* bound: changes of the leader after the first
  Nowhere,      \* the node name ""
  None          \* no target, or no configuration, in hand

Digests == Configs \cup {ZeroConfig}

ASSUME ClusterAssumption ==
  /\ Expiration \in Nat \ {0}
  /\ MaxFlips \in Nat
  /\ Nowhere \notin Nodes
  /\ None \notin Nodes \cup {Nowhere} \cup Digests
  /\ ZeroConfig \notin Configs

VARIABLES
  loaded,         \* autodiscovery's loadedConfigs
  ad,             \* what autodiscovery is doing, and with which config
  registered,     \* the dispatcher is among the active schedulers
  target,         \* the node chosen by "ad" and "loop" before they add
  active,         \* store.active
  digestToConfig, \* store.digestToConfig
  digestToNode,   \* store.digestToNode
  dangling,       \* store.danglingConfigs
  heartbeat,      \* age of the heartbeat of each node in store.nodes
  assigned,       \* each node's digestToConfig
  loop,           \* where runDispatch is
  todo,           \* configurations it has still to schedule
  cancelled,      \* its context is cancelled
  state,          \* Handler.state
  flips,          \* number of changes of the leader so far
  leadershipChan, \* Handler.leadershipChan, one slot
  handler,        \* where Handler.Run is
  alive,          \* node agents that have not stopped
  reported        \* node agents that have reported in this tick

adVars      == <<loaded, ad, registered>>
placeVars   == <<digestToConfig, digestToNode, dangling, assigned>>
storeVars   == <<active, placeVars, heartbeat>>
loopVars    == <<loop, todo, cancelled>>
handlerVars == <<state, flips, leadershipChan, handler>>
agentVars   == <<alive, reported>>
vars == <<adVars, target, storeVars, loopVars, handlerVars, agentVars>>

Idle  == [op |-> "idle", config |-> None]
nodes == DOMAIN heartbeat

FlagsTypeOK ==
  registered \in BOOLEAN /\ active \in BOOLEAN /\ cancelled \in BOOLEAN

StoreTypeOK ==
  /\ digestToConfig \subseteq Digests
  /\ digestToNode \in [Digests -> Nodes \cup {Nowhere}]
  /\ dangling \subseteq Digests
  /\ nodes \subseteq Nodes
  /\ heartbeat \in [nodes -> 0..(Expiration + 1)]
  /\ assigned \in [Nodes -> SUBSET Digests]

ControlTypeOK ==
  /\ loaded \subseteq Configs
  /\ ad \in {Idle} \cup [op : {"loaded", "unscheduled"}, config : Configs]
  /\ target \in [{"ad", "loop"} -> Nodes \cup {Nowhere, None}]
  /\ loop \in {"off", "start", "replay", "run", "cleaned", "reschedule",
               "move", "moved", "reset"}
  /\ todo \subseteq Digests

HandlerTypeOK ==
  /\ state \in {"unknown", "leader", "follower"}
  /\ flips \in 0..MaxFlips
  /\ leadershipChan \in {"empty", "leader", "follower"}
  /\ handler \in {"wait", "warmup", "lead"}
  /\ alive \subseteq Nodes
  /\ reported \subseteq Nodes

TypeOK == FlagsTypeOK /\ StoreTypeOK /\ ControlTypeOK /\ HandlerTypeOK

Init ==
  /\ loaded = {} /\ ad = Idle /\ registered = FALSE
  /\ target = [t \in {"ad", "loop"} |-> None]
  /\ active = FALSE
  /\ digestToConfig = {}
  /\ digestToNode = [c \in Digests |-> Nowhere]
  /\ dangling = {}
  /\ heartbeat = [n \in {} |-> 0]
  /\ assigned = [n \in Nodes |-> {}]
  /\ loop = "off" /\ todo = {} /\ cancelled = FALSE
  /\ state = "unknown" /\ flips = 0
  /\ leadershipChan = "empty" /\ handler = "wait"
  /\ alive = Nodes /\ reported = {}

-----------------------------------------------------------------------------
(***************************************************************************)
(* The store.                                                              *)
(***************************************************************************)

\* Count-based dispatching: any node with the fewest configurations.
getLeastBusyNode ==
  IF nodes = {} THEN {Nowhere}
  ELSE {n \in nodes : \A m \in nodes :
                        Cardinality(assigned[n]) <= Cardinality(assigned[m])}

\* The nodes, n among them with a heartbeat of age h.
WithNode(n, h) == [m \in nodes \cup {n} |-> IF m = n THEN h ELSE heartbeat[m]]

\* addConfig(c, t).  A target that has expired since it was chosen is
\* created again, with heartbeat zero: stale from the start.
addConfig(c, t) ==
  /\ digestToConfig' = digestToConfig \cup {c}
  /\ \/ /\ t = Nowhere
        /\ dangling' = dangling \cup {c}
        /\ UNCHANGED <<digestToNode, assigned, heartbeat>>
     \/ /\ t # Nowhere
        /\ digestToNode' = [digestToNode EXCEPT ![c] = t]
        /\ heartbeat' = IF t \in nodes THEN heartbeat
                        ELSE WithNode(t, Expiration + 1)
        /\ assigned' = [n \in Nodes |->
                          IF n = t THEN assigned[n] \cup {c}
                          ELSE IF n = digestToNode[c] THEN assigned[n] \ {c}
                          ELSE assigned[n]]
        /\ UNCHANGED dangling
  /\ UNCHANGED active

\* The configuration leaves the store and the nodeStores in ns.
RemoveFrom(c, ns) ==
  /\ digestToConfig' = digestToConfig \ {c}
  /\ dangling' = dangling \ {c}
  /\ digestToNode' = [digestToNode EXCEPT ![c] = Nowhere]
  /\ assigned' = [n \in Nodes |-> IF n \in ns THEN assigned[n] \ {c}
                                  ELSE assigned[n]]

\* Mutant: the node keeps what is removed.
RemoveFromStore(c) == RemoveFrom(c, {})

removeConfig(c) == RemoveFrom(c, {digestToNode[c]})

-----------------------------------------------------------------------------
(***************************************************************************)
(* Autodiscovery.  A configuration is stored as loaded before it is        *)
(* scheduled, and unscheduled before it is dropped.  The MetaScheduler's   *)
(* mutex is held while the dispatcher schedules.                           *)
(***************************************************************************)
processNewConfig(c) ==
  /\ ad = Idle /\ c \notin loaded
  /\ loaded' = loaded \cup {c}
  /\ ad' = [op |-> "loaded", config |-> c]
  /\ UNCHANGED <<registered, target, storeVars, loopVars, handlerVars,
                 agentVars>>

\* MetaScheduler.Schedule finds no dispatcher, or the dispatcher's add
\* chooses a target.
ScheduleStart ==
  /\ ad.op = "loaded" /\ target["ad"] = None
  /\ \/ /\ ~registered
        /\ ad' = Idle
        /\ UNCHANGED target
     \/ /\ registered
        /\ \E t \in getLeastBusyNode : target' = [target EXCEPT !["ad"] = t]
        /\ UNCHANGED ad
  /\ UNCHANGED <<loaded, registered, storeVars, loopVars, handlerVars,
                 agentVars>>

ScheduleEnd ==
  /\ ad.op = "loaded" /\ target["ad"] # None
  /\ addConfig(ad.config, target["ad"])
  /\ target' = [target EXCEPT !["ad"] = None]
  /\ ad' = Idle
  /\ UNCHANGED <<loaded, registered, loopVars, handlerVars, agentVars>>

Unschedule(c) ==
  /\ ad = Idle /\ c \in loaded
  /\ IF registered THEN removeConfig(c) ELSE UNCHANGED placeVars
  /\ ad' = [op |-> "unscheduled", config |-> c]
  /\ UNCHANGED <<loaded, registered, target, active, heartbeat, loopVars,
                 handlerVars, agentVars>>

removeLoadedConfig ==
  /\ ad.op = "unscheduled"
  /\ loaded' = loaded \ {ad.config}
  /\ ad' = Idle
  /\ UNCHANGED <<registered, target, storeVars, loopVars, handlerVars,
                 agentVars>>

MetaSchedulerFree == target["ad"] = None

-----------------------------------------------------------------------------
(***************************************************************************)
(* runDispatch: AddScheduler with a replay, dispatcher.run until the       *)
(* context is cancelled, reset, RemoveScheduler.                           *)
(***************************************************************************)
AddScheduler ==
  /\ loop = "start" /\ MetaSchedulerFree
  /\ registered' = TRUE
  /\ todo' = loaded
  /\ loop' = "replay"
  /\ UNCHANGED <<loaded, ad, target, storeVars, cancelled, handlerVars,
                 agentVars>>

\* dispatcher.add, for the replayed and for the dangling configurations.
AddStart ==
  /\ loop \in {"replay", "reschedule"} /\ todo # {} /\ target["loop"] = None
  /\ \E t \in getLeastBusyNode : target' = [target EXCEPT !["loop"] = t]
  /\ UNCHANGED <<adVars, storeVars, loopVars, handlerVars, agentVars>>

AddEnd(c) ==
  /\ loop \in {"replay", "reschedule"}
  /\ c \in todo /\ target["loop"] # None
  /\ addConfig(c, target["loop"])
  /\ todo' = todo \ {c}
  /\ target' = [target EXCEPT !["loop"] = None]
  /\ UNCHANGED <<adVars, loop, cancelled, handlerVars, agentVars>>

\* All are scheduled: run becomes active, or goes back to its select.
Scheduled ==
  /\ loop \in {"replay", "reschedule"} /\ todo = {}
  /\ active' = TRUE
  /\ loop' = "run"
  /\ UNCHANGED <<adVars, target, placeVars, heartbeat, todo, cancelled,
                 handlerVars, agentVars>>

\* The cleanup ticker: expireNodes, then the dangling configurations are
\* taken out of the store when there is a node for them.
Expired == {n \in nodes : heartbeat[n] > Expiration}
Orphans == UNION {assigned[n] : n \in Expired}

ExpireLeaving(left) ==
  /\ loop = "run"
  /\ heartbeat' = [n \in nodes \ Expired |-> heartbeat[n]]
  /\ assigned' = [n \in Nodes |-> IF n \in Expired THEN {} ELSE assigned[n]]
  /\ digestToNode' = [c \in Digests |-> IF c \in Orphans THEN Nowhere
                                        ELSE digestToNode[c]]
  /\ dangling' = dangling \cup left
  /\ loop' = "cleaned"
  /\ UNCHANGED <<adVars, target, active, digestToConfig, todo, cancelled,
                 handlerVars, agentVars>>

\* Mutant: the node goes and its configurations with it.
ExpireAll == ExpireLeaving({})

expireNodes == ExpireLeaving(Orphans)

\* Mutant: dangling configurations wait for good.
RetrieveNothing ==
  /\ loop = "cleaned" /\ loop' = "run"
  /\ UNCHANGED <<adVars, target, storeVars, todo, cancelled, handlerVars,
                 agentVars>>

retrieveAndClearDangling ==
  /\ loop = "cleaned"
  /\ \/ /\ dangling # {} /\ nodes # {}
        /\ todo' = dangling /\ dangling' = {} /\ loop' = "reschedule"
     \/ /\ dangling = {} \/ nodes = {}
        /\ loop' = "run" /\ UNCHANGED <<todo, dangling>>
  /\ UNCHANGED <<adVars, target, active, digestToConfig, digestToNode,
                 assigned, heartbeat, cancelled, handlerVars, agentVars>>

\* The stats ticker, with advanced dispatching: rebalance chooses a check
\* that was a cluster check when the stats were collected, and a node.
rebalance(c, n) ==
  /\ loop = "run"
  /\ c \in digestToConfig /\ n \in nodes /\ nodes # {n}
  /\ todo' = {c}
  /\ target' = [target EXCEPT !["loop"] = n]
  /\ loop' = "move"
  /\ UNCHANGED <<adVars, storeVars, cancelled, handlerVars, agentVars>>

\* moveCheck.  A check that was unscheduled meanwhile has no digest any
\* more: getConfigAndDigest returns the zero config and removeConfig("")
\* removes nothing.
MoveRemove ==
  /\ loop = "move"
  /\ \E c \in todo :
       \/ /\ c \in digestToConfig
          /\ removeConfig(c)
          /\ UNCHANGED todo
       \/ /\ c \notin digestToConfig
          /\ todo' = {ZeroConfig}
          /\ UNCHANGED placeVars
  /\ loop' = "moved"
  /\ UNCHANGED <<adVars, target, active, heartbeat, cancelled, handlerVars,
                 agentVars>>

MoveAdd ==
  /\ loop = "moved"
  /\ \E c \in todo : addConfig(c, target["loop"])
  /\ todo' = {}
  /\ target' = [target EXCEPT !["loop"] = None]
  /\ loop' = "run"
  /\ UNCHANGED <<adVars, cancelled, handlerVars, agentVars>>

reset ==
  /\ loop = "run" /\ cancelled
  /\ active' = FALSE
  /\ digestToConfig' = {} /\ dangling' = {}
  /\ digestToNode' = [c \in Digests |-> Nowhere]
  /\ heartbeat' = [n \in {} |-> 0]
  /\ assigned' = [n \in Nodes |-> {}]
  /\ loop' = "reset"
  /\ UNCHANGED <<adVars, target, todo, cancelled, handlerVars, agentVars>>

RemoveScheduler ==
  /\ loop = "reset" /\ MetaSchedulerFree
  /\ registered' = FALSE
  /\ loop' = "off"
  /\ cancelled' = FALSE
  /\ UNCHANGED <<loaded, ad, target, storeVars, todo, handlerVars,
                 agentVars>>

-----------------------------------------------------------------------------
(***************************************************************************)
(* The Handler.                                                            *)
(***************************************************************************)

\* The leader election names a new leader: the first answer, or a change.
\* The send on leadershipChan blocks while the slot is taken.
updateLeaderIP(new) ==
  /\ state # new
  /\ \/ state = "unknown" /\ UNCHANGED flips
     \/ state # "unknown" /\ flips < MaxFlips /\ flips' = flips + 1
  /\ leadershipChan = "empty"
  /\ state' = new /\ leadershipChan' = new
  /\ UNCHANGED <<adVars, target, storeVars, loopVars, handler, agentVars>>

\* A new state arrives in one of the three selects of Run; "cancelled" is
\* dispatchCancel.
Receive ==
  /\ leadershipChan # "empty"
  /\ leadershipChan' = "empty"
  /\ \/ /\ leadershipChan = "leader" /\ handler = "wait"
        /\ handler' = "warmup"
        /\ UNCHANGED cancelled
     \/ /\ leadershipChan = "follower"
        /\ handler' = "wait"
        /\ cancelled' = (cancelled \/ handler = "lead")
  /\ UNCHANGED <<adVars, target, storeVars, loop, todo, state, flips,
                 agentVars>>

\* The warm-up is over.  It is assumed to outlast what a runDispatch that
\* was cancelled before it still has to do: nothing in the code waits.
StartDispatch ==
  /\ handler = "warmup" /\ loop = "off"
  /\ handler' = "lead"
  /\ loop' = "start"
  /\ UNCHANGED <<adVars, target, storeVars, todo, cancelled, state, flips,
                 leadershipChan, agentVars>>

\* A status report: the leader keeps the node and a fresh heartbeat.
processNodeStatus(n) ==
  /\ n \in alive \ reported
  /\ reported' = reported \cup {n}
  /\ heartbeat' = IF state = "leader" THEN WithNode(n, 0) ELSE heartbeat
  /\ UNCHANGED <<adVars, target, active, placeVars, loopVars, handlerVars,
                 alive>>

\* A node agent is removed without notice; one always stays.
NodeStops(n) ==
  /\ n \in alive /\ alive # {n}
  /\ alive' = alive \ {n}
  /\ reported' = reported \ {n}
  /\ UNCHANGED <<adVars, target, storeVars, loopVars, handlerVars>>

\* Time passes: every running node agent reports in a tick.  Older than
\* the expiration is as old as it gets.
Tick ==
  /\ reported = alive
  /\ reported' = {}
  /\ heartbeat' = [n \in nodes |-> IF heartbeat[n] <= Expiration
                                   THEN heartbeat[n] + 1 ELSE heartbeat[n]]
  /\ UNCHANGED <<adVars, target, active, placeVars, loopVars, handlerVars,
                 alive>>

-----------------------------------------------------------------------------
Autodiscovery == ScheduleStart \/ ScheduleEnd \/ removeLoadedConfig

RunDispatch ==
  \/ AddScheduler \/ AddStart \/ Scheduled
  \/ \E c \in Digests : AddEnd(c)
  \/ expireNodes \/ retrieveAndClearDangling
  \/ MoveRemove \/ MoveAdd
  \/ reset \/ RemoveScheduler

Next ==
  \/ \E c \in Configs : processNewConfig(c) \/ Unschedule(c)
  \/ Autodiscovery
  \/ RunDispatch
  \/ \E c \in Digests, n \in Nodes : rebalance(c, n)
  \/ \E new \in {"leader", "follower"} : updateLeaderIP(new)
  \/ Receive \/ StartDispatch
  \/ \E n \in Nodes : processNodeStatus(n) \/ NodeStops(n)
  \/ Tick

Spec == Init /\ [][Next]_vars

(***************************************************************************)
(* Every goroutine that can go on does.  The select of dispatcher.run      *)
(* does not overlook its cancelled context, nor its cleanup ticker, for    *)
(* ever, although its other channels keep being ready, and the             *)
(* MetaScheduler's mutex is free of starvation, as Go's mutexes are.       *)
(* Loading and unloading, rebalancing, changes of the leader and the end   *)
(* of a node agent are not bound to happen.                                *)
(***************************************************************************)
FairSpec ==
  /\ Spec
  /\ WF_vars(Autodiscovery)
  /\ WF_vars(RunDispatch) /\ SF_vars(reset) /\ SF_vars(expireNodes)
  /\ SF_vars(AddScheduler \/ RemoveScheduler)
  /\ WF_vars(Receive) /\ WF_vars(StartDispatch)
  /\ \A n \in Nodes : WF_vars(processNodeStatus(n))
  /\ WF_vars(Tick)

-----------------------------------------------------------------------------
(***************************************************************************)
(* Properties.                                                             *)
(***************************************************************************)

\* The indexes of the store agree, whatever expiries, moves, removals and
\* resets do to them: a configuration is in the nodeStore of the node that
\* digestToNode names and in no other, and that node is known.
PlacedOnce ==
  /\ \A n \in Nodes : \A c \in Digests :
       c \in assigned[n] <=> digestToNode[c] = n
  /\ \A n \in Nodes \ nodes : assigned[n] = {}
  /\ \A n \in Nodes : assigned[n] \subseteq digestToConfig
  /\ dangling \subseteq digestToConfig

\* The store is sound: every variable keeps its type and the indexes agree.
StoreConsistent == TypeOK /\ PlacedOnce

\* The loop has taken todo out of the store, or has yet to put it there.
InHand == IF loop \in {"replay", "reschedule", "moved"} THEN todo ELSE {}

\* The dispatcher never loses a loaded configuration: it is on a node,
\* dangling, or in the hands of the loop that dispatches or moves it,
\* although targets are chosen before the store is locked and nodes expire,
\* and autodiscovery goes on, between the two.
NothingForgotten ==
  \A c \in loaded :
    registered /\ loop # "reset" /\ ad.config # c =>
      digestToNode[c] # Nowhere \/ c \in dangling \/ c \in InHand

\* A configuration that stays loaded under a leader that stays the leader is
\* again and again on a running node agent: a node that stopped expires, its
\* configurations are re-dispatched.
Dispatched ==
  \A c \in Configs :
    <>[](c \in loaded /\ state = "leader") => []<>(digestToNode[c] \in alive)

\* An agent that has lost the leadership for good stops dispatching.
FollowerStops == <>[](state = "follower") => <>[](loop = "off" /\ ~registered)

\* The dispatcher follows the leadership, whichever way it settles.
FollowsLeadership == Dispatched /\ FollowerStops

-----------------------------------------------------------------------------
(***************************************************************************)
(* The inductive invariant of ClusterDispatchProofs: besides the two       *)
(* properties, what runDispatch has in its hands at each point.            *)
(***************************************************************************)

\* The dispatcher is registered from the replay to the reset, and a move is
\* of one configuration to a node.
LoopSound ==
  /\ registered <=> loop \notin {"off", "start"}
  /\ loop \in {"move", "moved"} =>
       target["loop"] \in Nodes /\ \E c \in Digests : todo = {c}

IInv == StoreConsistent /\ LoopSound /\ NothingForgotten
=============================================================================
