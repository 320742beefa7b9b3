------------------------ MODULE ClusterDispatchProofs ------------------------
(***************************************************************************)
(* Proofs about ClusterDispatch for every set of node agents and of        *)
(* configurations, every expiration and any number of new leaders.         *)
(***************************************************************************)
EXTENDS ClusterDispatch, TLAPS

USE ClusterAssumption DEF ClusterAssumption

\* The indexes of the store, without what does not concern them.
Store == StoreTypeOK /\ PlacedOnce

\* Some node or the dangling ones have the configuration.
Placed(c) == digestToNode[c] # Nowhere \/ c \in dangling

-----------------------------------------------------------------------------
(***************************************************************************)
(* The store's operations.                                                 *)
(***************************************************************************)

\* The target of an add is a node of the store, or none.
LEMMA LeastBusyType ==
  ASSUME StoreTypeOK
  PROVE  getLeastBusyNode \subseteq Nodes \cup {Nowhere}
  BY DEF StoreTypeOK, getLeastBusyNode, nodes

\* A node that is new in the store, or has a new heartbeat.
LEMMA WithNodeType ==
  ASSUME StoreTypeOK, NEW n \in Nodes, NEW h \in 0..(Expiration + 1)
  PROVE  /\ DOMAIN WithNode(n, h) = nodes \cup {n}
         /\ WithNode(n, h) \in [nodes \cup {n} -> 0..(Expiration + 1)]
  BY DEF StoreTypeOK, WithNode, nodes

\* addConfig keeps the indexes in agreement, also when the configuration was
\* on another node and when the target had expired; nothing is displaced.
LEMMA AddConfigStore ==
  ASSUME Store, NEW c \in Digests, NEW t \in Nodes \cup {Nowhere},
         addConfig(c, t)
  PROVE  /\ Store' /\ active' = active
         /\ Placed(c)'
         /\ \A d \in Digests : Placed(d) => Placed(d)'
  <1> USE DEF Store
  <1>1. CASE t = Nowhere
    <2>1. /\ digestToConfig' = digestToConfig \cup {c}
          /\ dangling' = dangling \cup {c}
          /\ UNCHANGED <<digestToNode, assigned, heartbeat, active>>
      BY <1>1 DEF addConfig
    <2> QED BY <2>1 DEF StoreTypeOK, PlacedOnce, Placed, nodes
  <1>2. CASE t # Nowhere
    <2>1. t \in Nodes
      BY <1>2
    <2>2. /\ digestToConfig' = digestToConfig \cup {c}
          /\ digestToNode' = [digestToNode EXCEPT ![c] = t]
          /\ heartbeat' = IF t \in nodes THEN heartbeat
                          ELSE WithNode(t, Expiration + 1)
          /\ assigned' = [n \in Nodes |->
                            IF n = t THEN assigned[n] \cup {c}
                            ELSE IF n = digestToNode[c] THEN assigned[n] \ {c}
                            ELSE assigned[n]]
          /\ UNCHANGED <<dangling, active>>
      BY <1>2 DEF addConfig
    <2>3. nodes' = nodes \cup {t} /\ heartbeat' \in [nodes' -> 0..(Expiration + 1)]
      <3>1. CASE t \in nodes
        BY <2>2, <3>1 DEF nodes, StoreTypeOK
      <3>2. CASE t \notin nodes
        <4>1. heartbeat' = WithNode(t, Expiration + 1)
          BY <2>2, <3>2
        <4>2. Expiration + 1 \in 0..(Expiration + 1)
          OBVIOUS
        <4> QED BY <2>1, <4>1, <4>2, WithNodeType DEF nodes
      <3> QED BY <3>1, <3>2
    <2>4. StoreTypeOK'
      BY <2>1, <2>2, <2>3 DEF StoreTypeOK
    <2>5. \A n \in Nodes : \A d \in Digests :
            d \in assigned'[n] <=> digestToNode'[d] = n
      BY <2>1, <2>2 DEF StoreTypeOK, PlacedOnce
    <2>6. \A n \in Nodes \ nodes' : assigned'[n] = {}
      BY <2>1, <2>2, <2>3 DEF PlacedOnce
    <2>7. \A n \in Nodes : assigned'[n] \subseteq digestToConfig'
      BY <2>1, <2>2 DEF PlacedOnce
    <2>8. PlacedOnce'
      BY <2>2, <2>5, <2>6, <2>7 DEF PlacedOnce
    <2> QED BY <2>1, <2>2, <2>4, <2>8 DEF Placed, StoreTypeOK
  <1> QED BY <1>1, <1>2

\* removeConfig leaves no trace of the configuration and no other disturbed.
LEMMA RemoveConfigStore ==
  ASSUME Store, NEW c \in Digests, removeConfig(c), UNCHANGED heartbeat
  PROVE  /\ Store'
         /\ \A d \in Digests \ {c} : Placed(d) => Placed(d)'
  <1> USE DEF Store
  <1>1. /\ digestToConfig' = digestToConfig \ {c}
        /\ dangling' = dangling \ {c}
        /\ digestToNode' = [digestToNode EXCEPT ![c] = Nowhere]
        /\ assigned' = [n \in Nodes |-> IF n = digestToNode[c] THEN assigned[n] \ {c}
                                        ELSE assigned[n]]
    BY DEF removeConfig, RemoveFrom
  <1>2. nodes' = nodes
    BY DEF nodes
  <1>3. StoreTypeOK'
    BY <1>1, <1>2 DEF StoreTypeOK
  <1>4. \A n \in Nodes : \A d \in Digests :
          d \in assigned'[n] <=> digestToNode'[d] = n
    BY <1>1 DEF StoreTypeOK, PlacedOnce
  <1>5. \A n \in Nodes : assigned'[n] \subseteq digestToConfig'
    BY <1>1 DEF StoreTypeOK, PlacedOnce
  <1>6. PlacedOnce'
    BY <1>1, <1>2, <1>4, <1>5 DEF PlacedOnce
  <1> QED BY <1>1, <1>3, <1>6 DEF Placed, StoreTypeOK

\* A configuration that has a place is in the store.
LEMMA PlacedKnown ==
  ASSUME Store, NEW c \in Digests, Placed(c)
  PROVE  c \in digestToConfig
  BY DEF Store, StoreTypeOK, PlacedOnce, Placed

\* A step that leaves the store alone.
LEMMA StoreSame ==
  ASSUME Store, UNCHANGED storeVars
  PROVE  Store' /\ \A d \in Digests : Placed(d)' <=> Placed(d)
  BY DEF Store, StoreTypeOK, PlacedOnce, Placed, nodes, storeVars, placeVars

\* Nothing is loaded, registered or placed.
LEMMA InitIInv == Init => IInv
  <1> SUFFICES ASSUME Init PROVE IInv
    OBVIOUS
  <1>1. FlagsTypeOK
    BY Zenon DEF Init, FlagsTypeOK
  <1>2. StoreTypeOK
    BY DEF Init, StoreTypeOK, nodes
  <1>3. ControlTypeOK /\ HandlerTypeOK
    BY DEF Init, ControlTypeOK, HandlerTypeOK, Idle
  <1>4. PlacedOnce
    BY DEF Init, PlacedOnce, nodes
  <1>5. LoopSound /\ NothingForgotten
    BY DEF Init, LoopSound, NothingForgotten
  <1> QED BY <1>1, <1>2, <1>3, <1>4, <1>5 DEF IInv, StoreConsistent, TypeOK

-----------------------------------------------------------------------------
(***************************************************************************)
(* Autodiscovery's steps.                                                  *)
(***************************************************************************)

\* What autodiscovery has in hand, if anything, is a configuration.
LEMMA AdParts ==
  ASSUME ControlTypeOK
  PROVE  /\ ad.op = "idle" <=> ad = Idle
         /\ ad # Idle => ad.config \in Configs
  BY DEF ControlTypeOK, Idle

\* What no step of autodiscovery changes.
LEMMA AdFrame ==
  ASSUME IInv, UNCHANGED <<registered, active, loopVars, handlerVars, agentVars>>,
         target'["loop"] = target["loop"]
  PROVE  FlagsTypeOK' /\ HandlerTypeOK' /\ LoopSound' /\ InHand' = InHand
  <1> USE DEF IInv, StoreConsistent, TypeOK, loopVars, handlerVars, agentVars
  <1>1. FlagsTypeOK'
    BY DEF FlagsTypeOK
  <1>2. HandlerTypeOK'
    BY DEF HandlerTypeOK
  <1>3. LoopSound' /\ InHand' = InHand
    BY DEF LoopSound, InHand
  <1> QED BY <1>1, <1>2, <1>3

\* A configuration is exempt while it is being loaded or unloaded, and placed
\* when that ends.
LEMMA AutodiscoveryIInv ==
  ASSUME IInv,
         \/ \E c \in Configs : processNewConfig(c) \/ Unschedule(c)
         \/ Autodiscovery
  PROVE  IInv'
  <1> USE DEF IInv, StoreConsistent, TypeOK, Store
  <1>1. Configs \subseteq Digests
    BY DEF Digests
  <1>2. /\ ad.op = "idle" <=> ad = Idle
        /\ ad # Idle => ad.config \in Configs
    BY AdParts
  <1>3. CASE \E c \in Configs : processNewConfig(c)
    <2>1. PICK c \in Configs : processNewConfig(c)
      BY <1>3
    <2>2. Store' /\ \A d \in Digests : Placed(d)' <=> Placed(d)
      BY <2>1, StoreSame DEF processNewConfig
    <2>3. FlagsTypeOK' /\ HandlerTypeOK' /\ LoopSound' /\ InHand' = InHand
      BY <2>1, AdFrame DEF processNewConfig, storeVars
    <2>4. ControlTypeOK'
      BY <2>1 DEF processNewConfig, ControlTypeOK, loopVars
    <2>5. NothingForgotten'
      <3>1. ad.config = None /\ ad'.config = c /\ loaded' = loaded \cup {c}
            /\ UNCHANGED <<registered, loop>>
        BY <2>1 DEF processNewConfig, Idle, loopVars
      <3> QED BY <1>1, <2>2, <2>3, <3>1 DEF NothingForgotten, Placed, ControlTypeOK
    <2> QED BY <2>2, <2>3, <2>4, <2>5
  <1>4. CASE \E c \in Configs : Unschedule(c)
    <2>1. PICK c \in Configs : Unschedule(c)
      BY <1>4
    <2>2. Store' /\ \A d \in Digests \ {c} : Placed(d) => Placed(d)'
      <3>1. CASE registered
        BY <1>1, <2>1, <3>1, RemoveConfigStore DEF Unschedule
      <3>2. CASE ~registered
        BY <2>1, <3>2, StoreSame DEF Unschedule, storeVars
      <3> QED BY <3>1, <3>2
    <2>3. FlagsTypeOK' /\ HandlerTypeOK' /\ LoopSound' /\ InHand' = InHand
      BY <2>1, AdFrame DEF Unschedule
    <2>4. ControlTypeOK'
      BY <2>1 DEF Unschedule, ControlTypeOK, loopVars
    <2>5. NothingForgotten'
      <3>1. ad.config = None /\ ad'.config = c
            /\ UNCHANGED <<loaded, registered, loop>>
        BY <2>1 DEF Unschedule, Idle, loopVars
      <3> QED BY <1>1, <2>2, <2>3, <3>1 DEF NothingForgotten, Placed, ControlTypeOK
    <2> QED BY <2>2, <2>3, <2>4, <2>5
  <1>5. CASE ScheduleStart
    <2>1. Store' /\ \A d \in Digests : Placed(d)' <=> Placed(d)
      BY <1>5, StoreSame DEF ScheduleStart
    <2>2. target' \in [{"ad", "loop"} -> Nodes \cup {Nowhere, None}]
          /\ target'["loop"] = target["loop"]
      BY <1>5, LeastBusyType DEF ScheduleStart, ControlTypeOK
    <2>3. FlagsTypeOK' /\ HandlerTypeOK' /\ LoopSound' /\ InHand' = InHand
      BY <1>5, <2>2, AdFrame DEF ScheduleStart, storeVars
    <2>4. ControlTypeOK'
      BY <1>5, <2>2 DEF ScheduleStart, ControlTypeOK, loopVars
    <2>5. NothingForgotten'
      <3>1. ~registered \/ ad' = ad
        BY <1>5 DEF ScheduleStart
      <3> QED BY <1>1, <1>5, <2>1, <2>3, <3>1
              DEF ScheduleStart, NothingForgotten, Placed, ControlTypeOK, loopVars
    <2> QED BY <2>1, <2>3, <2>4, <2>5
  <1>6. CASE ScheduleEnd
    <2>1. PICK c \in Configs : c = ad.config
      BY <1>2, <1>6 DEF ScheduleEnd
    <2>2. /\ Store' /\ active' = active /\ Placed(c)'
          /\ \A d \in Digests : Placed(d) => Placed(d)'
      <3>1. addConfig(c, target["ad"]) /\ target["ad"] \in Nodes \cup {Nowhere}
        BY <1>6, <2>1 DEF ScheduleEnd, ControlTypeOK
      <3> QED BY <1>1, <3>1, AddConfigStore
    <2>3. target' \in [{"ad", "loop"} -> Nodes \cup {Nowhere, None}]
          /\ target'["loop"] = target["loop"]
      BY <1>6 DEF ScheduleEnd, ControlTypeOK
    <2>4. FlagsTypeOK' /\ HandlerTypeOK' /\ LoopSound' /\ InHand' = InHand
      BY <1>6, <2>2, <2>3, AdFrame DEF ScheduleEnd
    <2>5. ControlTypeOK'
      BY <1>6, <2>3 DEF ScheduleEnd, ControlTypeOK, loopVars
    <2>6. NothingForgotten'
      <3>1. UNCHANGED <<loaded, registered, loop>>
        BY <1>6 DEF ScheduleEnd, loopVars
      <3> QED BY <1>1, <2>1, <2>2, <2>4, <3>1 DEF NothingForgotten, Placed,
                 ControlTypeOK
    <2> QED BY <2>2, <2>4, <2>5, <2>6
  <1>7. CASE removeLoadedConfig
    <2>1. Store' /\ \A d \in Digests : Placed(d)' <=> Placed(d)
      BY <1>7, StoreSame DEF removeLoadedConfig
    <2>2. FlagsTypeOK' /\ HandlerTypeOK' /\ LoopSound' /\ InHand' = InHand
      BY <1>7, AdFrame DEF removeLoadedConfig, storeVars
    <2>3. ControlTypeOK'
      BY <1>7 DEF removeLoadedConfig, ControlTypeOK, loopVars
    <2>4. NothingForgotten'
      BY <1>1, <1>7, <2>1, <2>2 DEF removeLoadedConfig, NothingForgotten,
         Placed, ControlTypeOK, loopVars
    <2> QED BY <2>1, <2>2, <2>3, <2>4
  <1> QED BY <1>3, <1>4, <1>5, <1>6, <1>7 DEF Autodiscovery

-----------------------------------------------------------------------------
(***************************************************************************)
(* The loop's steps.                                                       *)
(***************************************************************************)

\* What no step of runDispatch changes but its registration.
LEMMA LoopFrame ==
  ASSUME IInv, UNCHANGED <<loaded, ad, handlerVars, agentVars>>,
         target' \in [{"ad", "loop"} -> Nodes \cup {Nowhere, None}],
         loop' \in {"off", "start", "replay", "run", "cleaned", "reschedule",
                    "move", "moved", "reset"},
         todo' \subseteq Digests
  PROVE  ControlTypeOK' /\ HandlerTypeOK'
  BY DEF IInv, StoreConsistent, TypeOK, ControlTypeOK, HandlerTypeOK,
         handlerVars, agentVars, Idle

\* The replay takes up all that is loaded, adds place what they take, and the
\* loop goes on when there is nothing left.
LEMMA DispatchIInv ==
  ASSUME IInv,
         AddScheduler \/ AddStart \/ (\E c \in Digests : AddEnd(c)) \/ Scheduled
  PROVE  IInv'
  <1> USE DEF IInv, StoreConsistent, TypeOK, Store
  <1>1. Configs \subseteq Digests
    BY DEF Digests
  <1>2. CASE AddScheduler
    <2>1. /\ registered' = TRUE /\ todo' = loaded /\ loop' = "replay"
          /\ UNCHANGED <<loaded, ad, target, storeVars, cancelled, handlerVars, agentVars>>
      BY <1>2 DEF AddScheduler
    <2>2. Store'
      BY <2>1, StoreSame
    <2>3. FlagsTypeOK'
      BY <2>1, Zenon DEF FlagsTypeOK, storeVars
    <2>4. ControlTypeOK' /\ HandlerTypeOK'
      BY <1>1, <2>1, LoopFrame DEF ControlTypeOK
    <2>5. LoopSound' /\ NothingForgotten'
      BY <2>1 DEF LoopSound, NothingForgotten, InHand
    <2> QED BY <2>2, <2>3, <2>4, <2>5
  <1>3. CASE AddStart
    <2>1. PICK t \in Nodes \cup {Nowhere} : target' = [target EXCEPT !["loop"] = t]
      BY <1>3, LeastBusyType DEF AddStart
    <2>2. /\ loop \in {"replay", "reschedule"}
          /\ UNCHANGED <<adVars, storeVars, loopVars, handlerVars, agentVars>>
      BY <1>3 DEF AddStart
    <2>3. Store' /\ \A d \in Digests : Placed(d)' <=> Placed(d)
      BY <2>2, StoreSame
    <2>4. FlagsTypeOK'
      BY <2>2, Zenon DEF FlagsTypeOK, adVars, storeVars, loopVars
    <2>5. ControlTypeOK' /\ HandlerTypeOK'
      BY <2>1, <2>2, LoopFrame DEF ControlTypeOK, adVars, loopVars
    <2>6. LoopSound'
      BY <2>2 DEF LoopSound, adVars, loopVars
    <2>7. NothingForgotten'
      BY <1>1, <2>2, <2>3 DEF NothingForgotten, InHand, Placed, ControlTypeOK,
         adVars, loopVars
    <2> QED BY <2>3, <2>4, <2>5, <2>6, <2>7
  <1>4. CASE \E c \in Digests : AddEnd(c)
    <2>1. PICK c \in Digests : AddEnd(c)
      BY <1>4
    <2>2. /\ loop \in {"replay", "reschedule"}
          /\ addConfig(c, target["loop"])
          /\ todo' = todo \ {c} /\ target' = [target EXCEPT !["loop"] = None]
          /\ UNCHANGED <<adVars, loop, cancelled, handlerVars, agentVars>>
      BY <2>1 DEF AddEnd
    <2>3. target["loop"] \in Nodes \cup {Nowhere}
      BY <2>1 DEF AddEnd, ControlTypeOK
    <2>4. /\ Store' /\ active' = active /\ Placed(c)'
          /\ \A d \in Digests : Placed(d) => Placed(d)'
      BY <2>2, <2>3, AddConfigStore
    <2>5. FlagsTypeOK'
      BY <2>2, <2>4, Zenon DEF FlagsTypeOK, adVars
    <2>6. ControlTypeOK' /\ HandlerTypeOK'
      BY <2>2, LoopFrame DEF ControlTypeOK, adVars
    <2>7. LoopSound'
      BY <2>2 DEF LoopSound, adVars
    <2>8. NothingForgotten'
      BY <1>1, <2>2, <2>4 DEF NothingForgotten, InHand, Placed, ControlTypeOK, adVars
    <2> QED BY <2>4, <2>5, <2>6, <2>7, <2>8
  <1>5. CASE Scheduled
    <2>1. /\ loop \in {"replay", "reschedule"} /\ todo = {}
          /\ active' = TRUE /\ loop' = "run"
          /\ UNCHANGED <<adVars, target, placeVars, heartbeat, todo, cancelled,
                         handlerVars, agentVars>>
      BY <1>5 DEF Scheduled
    <2>2. Store' /\ \A d \in Digests : Placed(d)' <=> Placed(d)
      BY <2>1 DEF Store, StoreTypeOK, PlacedOnce, Placed, nodes, placeVars
    <2>3. FlagsTypeOK'
      BY <2>1, Zenon DEF FlagsTypeOK, adVars
    <2>4. ControlTypeOK' /\ HandlerTypeOK'
      BY <2>1, LoopFrame DEF ControlTypeOK, adVars
    <2>5. LoopSound'
      BY <2>1 DEF LoopSound, adVars
    <2>6. NothingForgotten'
      BY <1>1, <2>1, <2>2 DEF NothingForgotten, InHand, Placed, ControlTypeOK, adVars
    <2> QED BY <2>2, <2>3, <2>4, <2>5, <2>6
  <1> QED BY <1>2, <1>3, <1>4, <1>5

\* The configurations of an expired node become dangling, and dangling ones
\* are taken out of the store only into the hands of the loop.
LEMMA CleanupIInv ==
  ASSUME IInv, expireNodes \/ retrieveAndClearDangling
  PROVE  IInv'
  <1> USE DEF IInv, StoreConsistent, TypeOK, Store
  <1>1. Configs \subseteq Digests
    BY DEF Digests
  <1>2. CASE expireNodes
    <2>1. /\ loop = "run" /\ loop' = "cleaned"
          /\ heartbeat' = [n \in nodes \ Expired |-> heartbeat[n]]
          /\ assigned' = [n \in Nodes |-> IF n \in Expired THEN {} ELSE assigned[n]]
          /\ digestToNode' = [c \in Digests |-> IF c \in Orphans THEN Nowhere
                                                ELSE digestToNode[c]]
          /\ dangling' = dangling \cup Orphans
          /\ UNCHANGED <<adVars, target, active, digestToConfig, todo, cancelled,
                         handlerVars, agentVars>>
      BY <1>2 DEF expireNodes, ExpireLeaving
    <2>2. Expired \subseteq nodes /\ Expired \subseteq Nodes
      BY DEF Expired, StoreTypeOK
    <2>3. \A c \in Digests : c \in Orphans <=> digestToNode[c] \in Expired
      BY <2>2 DEF Orphans, StoreTypeOK, PlacedOnce
    <2>4. Orphans \subseteq Digests /\ Orphans \subseteq digestToConfig
      BY <2>2 DEF Orphans, StoreTypeOK, PlacedOnce
    <2>5. nodes' = nodes \ Expired
      BY <2>1 DEF nodes
    <2>6. StoreTypeOK'
      BY <2>1, <2>4, <2>5 DEF StoreTypeOK
    <2>7. PlacedOnce'
      <3>1. \A n \in Nodes : \A c \in Digests :
              c \in assigned'[n] <=> digestToNode'[c] = n
        BY <2>1, <2>2, <2>3 DEF StoreTypeOK, PlacedOnce
      <3>2. \A n \in Nodes : assigned'[n] \subseteq digestToConfig'
        BY <2>1 DEF PlacedOnce
      <3>3. \A n \in Nodes \ nodes' : assigned'[n] = {}
        BY <2>1, <2>5 DEF PlacedOnce
      <3>4. dangling' \subseteq digestToConfig'
        BY <2>1, <2>4 DEF PlacedOnce
      <3> QED BY <3>1, <3>2, <3>3, <3>4 DEF PlacedOnce
    <2>8. \A d \in Digests : Placed(d) => Placed(d)'
      BY <2>1 DEF Placed
    <2>9. FlagsTypeOK'
      BY <2>1, Zenon DEF FlagsTypeOK, adVars
    <2>10. ControlTypeOK' /\ HandlerTypeOK'
      BY <2>1, LoopFrame DEF ControlTypeOK, adVars
    <2>11. LoopSound'
      BY <2>1 DEF LoopSound, adVars
    <2>12. NothingForgotten'
      BY <1>1, <2>1, <2>8 DEF NothingForgotten, InHand, Placed, ControlTypeOK, adVars
    <2> QED BY <2>6, <2>7, <2>9, <2>10, <2>11, <2>12
  <1>3. CASE retrieveAndClearDangling
    <2>1. /\ loop = "cleaned"
          /\ \/ todo' = dangling /\ dangling' = {} /\ loop' = "reschedule"
             \/ loop' = "run" /\ UNCHANGED <<todo, dangling>>
          /\ UNCHANGED <<adVars, target, active, digestToConfig, digestToNode,
                         assigned, heartbeat, cancelled, handlerVars, agentVars>>
      BY <1>3 DEF retrieveAndClearDangling
    <2>2. StoreTypeOK' /\ PlacedOnce'
      BY <2>1 DEF StoreTypeOK, PlacedOnce, nodes
    <2>3. FlagsTypeOK'
      BY <2>1, Zenon DEF FlagsTypeOK, adVars
    <2>4. ControlTypeOK' /\ HandlerTypeOK'
      BY <2>1, LoopFrame DEF ControlTypeOK, StoreTypeOK, adVars
    <2>5. LoopSound'
      BY <2>1 DEF LoopSound, adVars
    <2>6. NothingForgotten'
      BY <2>1 DEF NothingForgotten, InHand, adVars
    <2> QED BY <2>2, <2>3, <2>4, <2>5, <2>6
  <1> QED BY <1>2, <1>3

\* A check is in the hands of the loop between its removal and its addition;
\* one that has lost its place meanwhile is no longer loaded, or is being
\* unloaded or loaded again.
LEMMA MoveIInv ==
  ASSUME IInv,
         \/ \E c \in Digests, n \in Nodes : rebalance(c, n)
         \/ MoveRemove \/ MoveAdd
  PROVE  IInv'
  <1> USE DEF IInv, StoreConsistent, TypeOK, Store
  <1>1. Configs \subseteq Digests
    BY DEF Digests
  <1>2. CASE \E c \in Digests, n \in Nodes : rebalance(c, n)
    <2>1. PICK c \in Digests, n \in Nodes : rebalance(c, n)
      BY <1>2
    <2>2. /\ loop = "run" /\ loop' = "move"
          /\ todo' = {c} /\ target' = [target EXCEPT !["loop"] = n]
          /\ UNCHANGED <<adVars, storeVars, cancelled, handlerVars, agentVars>>
      BY <2>1 DEF rebalance
    <2>3. Store' /\ \A d \in Digests : Placed(d)' <=> Placed(d)
      BY <2>2, StoreSame
    <2>4. FlagsTypeOK'
      BY <2>2, Zenon DEF FlagsTypeOK, adVars, storeVars
    <2>5. ControlTypeOK' /\ HandlerTypeOK'
      BY <2>2, LoopFrame DEF ControlTypeOK, adVars
    <2>6. LoopSound'
      BY <2>2 DEF LoopSound, ControlTypeOK, adVars
    <2>7. NothingForgotten'
      BY <1>1, <2>2, <2>3 DEF NothingForgotten, InHand, Placed, ControlTypeOK, adVars
    <2> QED BY <2>3, <2>4, <2>5, <2>6, <2>7
  <1>3. CASE MoveRemove
    <2>1. /\ loop = "move" /\ loop' = "moved"
          /\ UNCHANGED <<adVars, target, active, heartbeat, cancelled,
                         handlerVars, agentVars>>
      BY <1>3 DEF MoveRemove
    <2>2. PICK c \in Digests : todo = {c}
      BY <2>1 DEF LoopSound
    <2>3. \/ c \in digestToConfig /\ removeConfig(c) /\ UNCHANGED todo
          \/ c \notin digestToConfig /\ todo' = {ZeroConfig} /\ UNCHANGED placeVars
      BY <1>3, <2>2 DEF MoveRemove
    <2>4. /\ Store'
          /\ \A d \in Digests \ {c} : Placed(d) => Placed(d)'
          /\ Placed(c) => c \in todo'
      <3>1. CASE removeConfig(c) /\ UNCHANGED todo
        BY <2>1, <2>2, <3>1, RemoveConfigStore
      <3>2. CASE c \notin digestToConfig /\ UNCHANGED placeVars
        BY <2>1, <3>2, StoreSame, PlacedKnown DEF storeVars
      <3> QED BY <2>3, <3>1, <3>2
    <2>5. todo' \subseteq Digests /\ \E d \in Digests : todo' = {d}
      BY <2>2, <2>3 DEF Digests
    <2>6. FlagsTypeOK'
      BY <2>1, Zenon DEF FlagsTypeOK, adVars
    <2>7. ControlTypeOK' /\ HandlerTypeOK'
      BY <2>1, <2>5, LoopFrame DEF ControlTypeOK, adVars
    <2>8. LoopSound'
      BY <2>1, <2>5 DEF LoopSound, adVars
    <2>9. NothingForgotten'
      <3> SUFFICES ASSUME NEW d \in loaded, registered, ad.config # d
                   PROVE  Placed(d)' \/ d \in todo'
        BY <2>1 DEF NothingForgotten, InHand, Placed, adVars
      <3>1. Placed(d)
        BY <2>1 DEF NothingForgotten, InHand, Placed
      <3> QED BY <1>1, <2>4, <3>1 DEF ControlTypeOK
    <2> QED BY <2>4, <2>6, <2>7, <2>8, <2>9
  <1>4. CASE MoveAdd
    <2>1. /\ loop = "moved" /\ loop' = "run" /\ todo' = {}
          /\ target' = [target EXCEPT !["loop"] = None]
          /\ UNCHANGED <<adVars, cancelled, handlerVars, agentVars>>
      BY <1>4 DEF MoveAdd
    <2>2. PICK c \in Digests : todo = {c}
      BY <2>1 DEF LoopSound
    <2>3. addConfig(c, target["loop"]) /\ target["loop"] \in Nodes
      BY <1>4, <2>1, <2>2 DEF MoveAdd, LoopSound
    <2>4. /\ Store' /\ active' = active /\ Placed(c)'
          /\ \A d \in Digests : Placed(d) => Placed(d)'
      BY <2>3, AddConfigStore
    <2>5. FlagsTypeOK'
      BY <2>1, <2>4, Zenon DEF FlagsTypeOK, adVars
    <2>6. ControlTypeOK' /\ HandlerTypeOK'
      BY <2>1, LoopFrame DEF ControlTypeOK, adVars
    <2>7. LoopSound'
      BY <2>1 DEF LoopSound, adVars
    <2>8. NothingForgotten'
      BY <1>1, <2>1, <2>2, <2>4 DEF NothingForgotten, InHand, Placed,
         ControlTypeOK, adVars
    <2> QED BY <2>4, <2>5, <2>6, <2>7, <2>8
  <1> QED BY <1>2, <1>3, <1>4

\* The end of a leadership: an empty store, then no dispatcher.
LEMMA EndIInv ==
  ASSUME IInv, reset \/ RemoveScheduler
  PROVE  IInv'
  <1> USE DEF IInv, StoreConsistent, TypeOK, Store
  <1>1. CASE reset
    <2>1. /\ loop = "run" /\ loop' = "reset"
          /\ active' = FALSE
          /\ digestToConfig' = {} /\ dangling' = {}
          /\ digestToNode' = [c \in Digests |-> Nowhere]
          /\ heartbeat' = [n \in {} |-> 0]
          /\ assigned' = [n \in Nodes |-> {}]
          /\ UNCHANGED <<adVars, target, todo, cancelled, handlerVars, agentVars>>
      BY <1>1 DEF reset
    <2>2. StoreTypeOK'
      BY <2>1 DEF StoreTypeOK, nodes
    <2>3. PlacedOnce'
      BY <2>1 DEF PlacedOnce
    <2>4. FlagsTypeOK'
      BY <2>1, Zenon DEF FlagsTypeOK, adVars
    <2>5. ControlTypeOK' /\ HandlerTypeOK'
      BY <2>1, LoopFrame DEF ControlTypeOK, adVars
    <2>6. LoopSound' /\ NothingForgotten'
      BY <2>1 DEF LoopSound, NothingForgotten, adVars
    <2> QED BY <2>2, <2>3, <2>4, <2>5, <2>6
  <1>2. CASE RemoveScheduler
    <2>1. /\ loop' = "off" /\ registered' = FALSE /\ cancelled' = FALSE
          /\ UNCHANGED <<loaded, ad, target, storeVars, todo, handlerVars, agentVars>>
      BY <1>2 DEF RemoveScheduler
    <2>2. Store'
      BY <2>1, StoreSame
    <2>3. FlagsTypeOK'
      BY <2>1, Zenon DEF FlagsTypeOK, storeVars
    <2>4. ControlTypeOK' /\ HandlerTypeOK'
      BY <2>1, LoopFrame DEF ControlTypeOK
    <2>5. LoopSound' /\ NothingForgotten'
      BY <2>1 DEF LoopSound, NothingForgotten
    <2> QED BY <2>2, <2>3, <2>4, <2>5
  <1> QED BY <1>1, <1>2

-----------------------------------------------------------------------------
(***************************************************************************)
(* The Handler and the node agents.                                        *)
(***************************************************************************)

\* The leadership comes and goes without a hand on the store.
LEMMA HandlerIInv ==
  ASSUME IInv,
         \/ \E new \in {"leader", "follower"} : updateLeaderIP(new)
         \/ Receive \/ StartDispatch
  PROVE  IInv'
  <1> USE DEF IInv, StoreConsistent, TypeOK, Store
  <1>1. /\ UNCHANGED <<adVars, target, storeVars, todo, agentVars>>
        /\ \/ UNCHANGED loop
           \/ loop = "off" /\ loop' = "start"
    BY DEF updateLeaderIP, Receive, StartDispatch, loopVars
  <1>2. Store' /\ \A d \in Digests : Placed(d)' <=> Placed(d)
    BY <1>1, StoreSame
  <1>3. cancelled' \in BOOLEAN
    <2>1. cancelled' = cancelled \/ cancelled' = (cancelled \/ handler = "lead")
      BY DEF updateLeaderIP, Receive, StartDispatch, loopVars
    <2> QED BY <2>1 DEF FlagsTypeOK
  <1>4. FlagsTypeOK'
    BY <1>1, <1>3, Zenon DEF FlagsTypeOK, adVars, storeVars
  <1>5. ControlTypeOK'
    BY <1>1 DEF ControlTypeOK, adVars
  <1>6. HandlerTypeOK'
    BY <1>1 DEF HandlerTypeOK, updateLeaderIP, Receive, StartDispatch, agentVars
  <1>7. LoopSound'
    BY <1>1 DEF LoopSound, adVars
  <1>8. NothingForgotten'
    <2>1. Configs \subseteq Digests
      BY DEF Digests
    <2> QED BY <1>1, <1>2, <2>1 DEF LoopSound, NothingForgotten, InHand, Placed,
               ControlTypeOK, adVars
  <1> QED BY <1>2, <1>4, <1>5, <1>6, <1>7, <1>8

\* A report and the passing of time change heartbeats; a report may bring a
\* node that has nothing assigned.
LEMMA AgentsIInv ==
  ASSUME IInv, (\E n \in Nodes : processNodeStatus(n) \/ NodeStops(n)) \/ Tick
  PROVE  IInv'
  <1> USE DEF IInv, StoreConsistent, TypeOK
  <1>1. /\ UNCHANGED <<adVars, target, active, placeVars, loopVars, handlerVars>>
        /\ alive' \subseteq Nodes /\ reported' \subseteq Nodes
    BY DEF processNodeStatus, NodeStops, Tick, storeVars, HandlerTypeOK
  <1>2. nodes \subseteq nodes' /\ nodes' \subseteq Nodes
        /\ heartbeat' \in [nodes' -> 0..(Expiration + 1)]
    <2>1. CASE UNCHANGED heartbeat
      BY <2>1 DEF nodes, StoreTypeOK
    <2>2. ASSUME NEW n \in Nodes, heartbeat' = WithNode(n, 0)
          PROVE  nodes \subseteq nodes' /\ nodes' \subseteq Nodes
                 /\ heartbeat' \in [nodes' -> 0..(Expiration + 1)]
      <3>1. 0 \in 0..(Expiration + 1)
        OBVIOUS
      <3>2. /\ DOMAIN WithNode(n, 0) = nodes \cup {n}
            /\ WithNode(n, 0) \in [nodes \cup {n} -> 0..(Expiration + 1)]
        BY <3>1, WithNodeType
      <3>3. nodes' = nodes \cup {n}
        BY <2>2, <3>2 DEF nodes
      <3> QED BY <2>2, <3>2, <3>3 DEF StoreTypeOK
    <2>3. CASE Tick
      BY <2>3 DEF Tick, nodes, StoreTypeOK
    <2> QED BY <2>1, <2>2, <2>3 DEF processNodeStatus, NodeStops, storeVars
  <1>3. StoreTypeOK'
    BY <1>1, <1>2 DEF StoreTypeOK, placeVars
  <1>4. PlacedOnce'
    BY <1>1, <1>2 DEF PlacedOnce, placeVars
  <1>5. FlagsTypeOK'
    BY <1>1, Zenon DEF FlagsTypeOK, adVars, loopVars
  <1>6. ControlTypeOK' /\ HandlerTypeOK'
    BY <1>1 DEF ControlTypeOK, HandlerTypeOK, adVars, loopVars, handlerVars
  <1>7. LoopSound' /\ NothingForgotten'
    BY <1>1 DEF LoopSound, NothingForgotten, InHand, adVars, loopVars, placeVars
  <1> QED BY <1>3, <1>4, <1>5, <1>6, <1>7

-----------------------------------------------------------------------------
\* Every step keeps the inductive invariant.
LEMMA NextIInv == IInv /\ [Next]_vars => IInv'
  <1> SUFFICES ASSUME IInv, [Next]_vars PROVE IInv'
    OBVIOUS
  <1>1. CASE UNCHANGED vars
    <2> USE <1>1 DEF vars, adVars, storeVars, placeVars, loopVars, handlerVars,
            agentVars, IInv, StoreConsistent, TypeOK
    <2>1. FlagsTypeOK' /\ StoreTypeOK' /\ ControlTypeOK' /\ HandlerTypeOK'
      BY DEF FlagsTypeOK, StoreTypeOK, ControlTypeOK, HandlerTypeOK, nodes
    <2>2. PlacedOnce' /\ LoopSound' /\ NothingForgotten'
      BY DEF PlacedOnce, LoopSound, NothingForgotten, InHand, nodes
    <2> QED BY <2>1, <2>2
  <1>2. CASE RunDispatch
    BY <1>2, DispatchIInv, CleanupIInv, MoveIInv, EndIInv DEF RunDispatch
  <1> QED BY <1>1, <1>2, AutodiscoveryIInv, MoveIInv, HandlerIInv, AgentsIInv
          DEF Next

\* The inductive invariant holds in every reachable state.
LEMMA Invariance == Spec => []IInv
  BY InitIInv, NextIInv, PTL DEF Spec

(***************************************************************************)
(* StoreSound: the indexes of the clusterStore agree in every state, with  *)
(* the store locked per call and its callers interleaved.                  *)
(***************************************************************************)
THEOREM StoreSound == Spec => []StoreConsistent
  <1>1. IInv => StoreConsistent
    BY DEF IInv
  <1> QED BY <1>1, Invariance, PTL

(***************************************************************************)
(* NoneForgotten: while the dispatcher is registered and not resetting, a  *)
(* loaded configuration is on a node, dangling or in the loop's hands.     *)
(***************************************************************************)
THEOREM NoneForgotten == Spec => []NothingForgotten
  <1>1. IInv => NothingForgotten
    BY DEF IInv
  <1> QED BY <1>1, Invariance, PTL
=============================================================================
