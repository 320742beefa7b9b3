------------------------------ MODULE NodeSync ------------------------------
(***************************************************************************)
(* Cluster checks, one node: the nodeStore the cluster agent keeps for it  *)
(* and the ClusterChecksConfigProvider of its node agent.                  *)
(*                                                                         *)
(* The node agent polls: it posts its status with the timestamp of the     *)
(* last change it pulled, and pulls its configurations when the answer is  *)
(* that they changed.  Requests and replies get lost, the cluster agent    *)
(* loses the leadership and starts again from an empty store, a silent     *)
(* node expires.  Within a grace period errors leave the configurations    *)
(* alone, after it they are flushed.                                       *)
(*                                                                         *)
(* Timestamps are in seconds, and only their equality matters: one is      *)
(* "never" (zero), "now" (the current second) or "past"; the variable same *)
(* tells whether the node's and the agent's past ones are equal.  A tick   *)
(* is longer than a second and no longer than the time between two polls.  *)
(***************************************************************************)
EXTENDS Naturals

CONSTANTS
  Configs,      \* the configurations the dispatcher may assign to the node
  Expiration,   \* node_expiration_timeout, in ticks
  Grace,        \* the provider's graceDuration, in ticks
  MaxFaults     \* bound: requests and replies that are lost

ASSUME SyncAssumption ==
  Expiration \in Nat \ {0} /\ Grace \in Nat \ {0} /\ MaxFaults \in Nat

VARIABLES
  leading,    \* Handler.state is leader
  active,     \* store.active: the warm-up is over
  listed,     \* the node is in store.nodes
  heartbeat,  \* age of its heartbeat
  changed,    \* its lastConfigChange
  assigned,   \* its digestToConfig
  poll,       \* where configPoller.poll is
  polled,     \* it has polled in this tick
  running,    \* configPoller.configs: what the node agent runs
  lastChange, \* the provider's lastChange
  beat,       \* age of the provider's heartbeat
  flushed,    \* the provider's flushedConfigs
  same,       \* changed and lastChange are the same second of the past
  clash,      \* history: changed again in the second of the last pull
  faults      \* number of losses so far

nodeVars == <<listed, heartbeat, changed, assigned>>
agentVars == <<poll, polled, running, lastChange, beat, flushed>>
syncVars == <<leading, active, nodeVars, agentVars, same, clash, faults>>

Stamps == {"never", "past", "now"}

FlagsTypeOK ==
  /\ leading \in BOOLEAN /\ active \in BOOLEAN /\ listed \in BOOLEAN
  /\ polled \in BOOLEAN /\ flushed \in BOOLEAN
  /\ same \in BOOLEAN /\ clash \in BOOLEAN

DataTypeOK ==
  /\ heartbeat \in 0..(Expiration + 1) /\ beat \in 0..(Grace + 1)
  /\ faults \in 0..MaxFaults
  /\ changed \in Stamps /\ lastChange \in Stamps
  /\ assigned \subseteq Configs /\ running \subseteq Configs
  /\ poll \in {"idle", "collect"}

SyncTypeOK == FlagsTypeOK /\ DataTypeOK

\* The provider's zero heartbeat is long past.
SyncInit ==
  /\ leading = FALSE /\ active = FALSE
  /\ listed = FALSE /\ heartbeat = 0 /\ changed = "never" /\ assigned = {}
  /\ poll = "idle" /\ polled = FALSE /\ running = {}
  /\ lastChange = "never" /\ beat = Grace + 1 /\ flushed = FALSE
  /\ same = FALSE /\ clash = FALSE /\ faults = 0

\* The status carries the node's current lastConfigChange.
Matches == lastChange = changed /\ (changed = "past" => same)

-----------------------------------------------------------------------------
(***************************************************************************)
(* The cluster agent.                                                      *)
(***************************************************************************)

\* nodeStore.addConfig and removeConfig stamp the node with the current
\* second, which may be the one of the agent's last pull.
Touch ==
  /\ changed' = "now"
  /\ same' = FALSE
  /\ clash' = (lastChange = "now")

\* dispatcher.addConfig with this node as its target.  A node that has
\* expired since it was chosen is created again, with heartbeat zero; a call
\* that outlives the leadership is not held back either.
Assign(c) ==
  /\ listed' = TRUE
  /\ heartbeat' = IF listed THEN heartbeat ELSE Expiration + 1
  /\ assigned' = assigned \cup {c}
  /\ Touch
  /\ UNCHANGED <<leading, active, agentVars, faults>>

\* A configuration is unscheduled, or moved to another node.
UnassignWith(c, Stamp) ==
  /\ c \in assigned
  /\ assigned' = assigned \ {c}
  /\ Stamp
  /\ UNCHANGED <<leading, active, listed, heartbeat, agentVars, faults>>

\* Mutant: a removal does not count as a change.
UnassignSilently(c) == UnassignWith(c, UNCHANGED <<changed, same, clash>>)

Unassign(c) == UnassignWith(c, Touch)

\* The nodeStore is dropped; the next one starts from zero.
Forget ==
  /\ listed' = FALSE /\ heartbeat' = 0 /\ changed' = "never" /\ assigned' = {}
  /\ same' = FALSE /\ clash' = FALSE

expireNodes ==
  /\ active /\ listed /\ heartbeat > Expiration
  /\ Forget
  /\ UNCHANGED <<leading, active, agentVars, faults>>

BecomeLeader ==
  /\ ~leading /\ ~active
  /\ leading' = TRUE
  /\ UNCHANGED <<active, nodeVars, agentVars, same, clash, faults>>

WarmupDone ==
  /\ leading /\ ~active
  /\ active' = TRUE
  /\ UNCHANGED <<leading, nodeVars, agentVars, same, clash, faults>>

LoseLeadership ==
  /\ leading
  /\ leading' = FALSE
  /\ UNCHANGED <<active, nodeVars, agentVars, same, clash, faults>>

\* The dispatcher of a lost leadership ends and empties the store.
reset ==
  /\ ~leading /\ (active \/ listed)
  /\ active' = FALSE
  /\ Forget
  /\ UNCHANGED <<leading, agentVars, faults>>

-----------------------------------------------------------------------------
(***************************************************************************)
(* The node agent.                                                         *)
(***************************************************************************)
Lost == faults < MaxFaults /\ faults' = faults + 1

\* getOrCreateNodeStore and a new heartbeat.
processNodeStatus == listed' = TRUE /\ heartbeat' = 0

Reply(upToDate) ==
  /\ leading /\ processNodeStatus
  /\ beat' = 0
  /\ poll' = IF upToDate THEN "idle" ELSE "collect"
  /\ UNCHANGED faults

\* Mutant: a node that was flushed is left alone.
ReplyUnlessFlushed == Reply(Matches \/ ~active \/ flushed)

\* The answer arrives.  During the warm-up every node is up to date.
StatusReply == Reply(Matches \/ ~active)

\* The request or its reply is lost, or there is no leader to serve it.
StatusError ==
  /\ \/ leading /\ Lost /\ processNodeStatus
     \/ leading /\ Lost /\ UNCHANGED <<listed, heartbeat>>
     \/ ~leading /\ UNCHANGED <<faults, listed, heartbeat>>
  /\ poll' = IF beat <= Grace THEN "idle" ELSE "collect"
  /\ UNCHANGED beat

IsUpToDate ==
  /\ poll = "idle"
  /\ StatusReply \/ StatusError
  /\ polled' = TRUE
  /\ UNCHANGED <<leading, active, changed, assigned, running, lastChange,
                 flushed, same, clash>>

\* Collect, and configPoller.collect with it: what is not in the reply is
\* unscheduled, what is new is scheduled.
Collect ==
  /\ poll = "collect"
  /\ leading /\ listed
  /\ running' = assigned
  /\ lastChange' = changed
  /\ flushed' = FALSE
  /\ same' = TRUE /\ clash' = FALSE
  /\ poll' = "idle"
  /\ UNCHANGED <<leading, active, nodeVars, polled, beat, faults>>

\* The first error is masked and flushes the configurations.
CollectError ==
  /\ poll = "collect"
  /\ IF leading /\ listed THEN Lost ELSE UNCHANGED faults
  /\ running' = IF flushed THEN running ELSE {}
  /\ flushed' = TRUE
  /\ poll' = "idle"
  /\ UNCHANGED <<leading, active, nodeVars, polled, lastChange, beat, same,
                 clash>>

Older(stamp) == IF stamp = "now" THEN "past" ELSE stamp

\* One tick more; older than last is as old as it gets.
Aged(age, last) == IF age <= last THEN age + 1 ELSE age

\* Time passes; the agent polls in every tick.
Tick ==
  /\ polled /\ polled' = FALSE
  /\ heartbeat' = IF listed THEN Aged(heartbeat, Expiration) ELSE heartbeat
  /\ beat' = Aged(beat, Grace)
  /\ changed' = Older(changed)
  /\ lastChange' = Older(lastChange)
  /\ same' = IF "now" \in {changed, lastChange} THEN changed = lastChange
             ELSE same
  /\ UNCHANGED <<leading, active, listed, assigned, poll, running, flushed,
                 clash, faults>>

-----------------------------------------------------------------------------
NodeAgent == IsUpToDate \/ Collect \/ CollectError

SyncNext ==
  \/ \E c \in Configs : Assign(c) \/ Unassign(c)
  \/ expireNodes
  \/ BecomeLeader \/ WarmupDone \/ LoseLeadership \/ reset
  \/ NodeAgent
  \/ Tick

SyncSpec == SyncInit /\ [][SyncNext]_syncVars

(***************************************************************************)
(* The node agent keeps polling, and the dispatcher keeps its cleanup      *)
(* ticker, its warm-up timer and its reset after a cancelled context.      *)
(***************************************************************************)
FairSyncSpec ==
  /\ SyncSpec
  /\ WF_syncVars(NodeAgent) /\ WF_syncVars(Tick)
  /\ WF_syncVars(WarmupDone) /\ WF_syncVars(reset) /\ WF_syncVars(expireNodes)

-----------------------------------------------------------------------------
(***************************************************************************)
(* Properties.                                                             *)
(***************************************************************************)

\* The cluster agent takes the node agent for up to date although it is not:
\* the assignment changed again in the second of its last pull, or replies
\* were lost until it flushed while its reports kept the node from expiring.
Deceived == Matches /\ (clash \/ flushed)

\* A node agent that the cluster agent calls up to date runs exactly what is
\* assigned to it, through expiries, resets, warm-ups and lost replies; the
\* two deceptions are the only exceptions.
UpToDateInSync == listed /\ Matches => running = assigned \/ Deceived

\* Both, and every variable keeps its type.
NodeInSync == SyncTypeOK /\ UpToDateInSync

\* Under a leadership that lasts, the node agent is in sync again and again
\* unless it is deceived: errors, flushes and expiries are made up for.
FollowsAssignment ==
  <>[](leading /\ active) => []<>(running = assigned \/ Deceived)

-----------------------------------------------------------------------------
(***************************************************************************)
(* The inductive invariant of StoresProofs: what the timestamps say of     *)
(* the two sets of configurations.                                         *)
(***************************************************************************)

\* A nodeStore that was never stamped has nothing assigned, and an agent that
\* never pulled a stamp runs nothing.
NeverIsEmpty ==
  /\ changed = "never" => assigned = {}
  /\ lastChange = "never" => running = {}

\* The same second on both sides, whether the node is known or not: nothing
\* was assigned since the pull, unless within that second, and nothing was
\* dropped since, unless by a flush.
SameSecondInSync ==
  Matches /\ changed # "never" => running = assigned \/ clash \/ flushed

SyncIInv == SyncTypeOK /\ NeverIsEmpty /\ SameSecondInSync
=============================================================================
