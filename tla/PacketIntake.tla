---------------------------- MODULE PacketIntake ----------------------------
(***************************************************************************)
(* The intake of the statsd agent (package agent): the UDP listener        *)
(* copies every datagram into the packetBuffer, which merges datagrams     *)
(* into one Packet; full packets go to the packetsBuffer, which groups     *)
(* them and hands each group to the workers over a bounded channel.  Both  *)
(* buffers also flush on a ticker of their own.  Goroutines: the listener, *)
(* the two flush loops, the optional packet forwarder, the workers, and    *)
(* the caller of Server.Stop.                                              *)
(*                                                                         *)
(* A critical section that neither blocks nor calls out is one step.  The  *)
(* two blocking points inside the critical sections (the second mutex and  *)
(* the send on the bounded channel) are steps of their own, taken with     *)
(* the mutexes held, as in the code.                                       *)
(*                                                                         *)
(* Data abstraction: a datagram is an identity with a length and, for      *)
(* members of Blank, an empty line at its front, inside it or at its end;  *)
(* it stands for the messages it carries.  A Packet is the sequence of the *)
(* datagrams copied into it.                                               *)
(***************************************************************************)
EXTENDS Naturals, Sequences, FiniteSets

CONSTANTS
  Datagrams,         \* the datagrams that may arrive, in any order
  Size,              \* bytes of each datagram, at most BufferSize
  Blank,             \* the datagrams with an empty line, wherever it is
  BufferSize,        \* AgentBufferSize: bytes of a Packet's buffer
  PacketsBufferSize, \* AgentPacketBufferSize: packets per group
  QueueSize,         \* AgentQueueSize: capacity of the packet channels
  Workers,           \* the parsing goroutines
  Forwarding,        \* TRUE when ForwardHost and ForwardPort are set
  None               \* no goroutine, no datagram

ASSUME IntakeAssumption ==
  /\ BufferSize \in Nat \ {0}
  /\ PacketsBufferSize \in Nat \ {0}
  /\ QueueSize \in Nat \ {0}
  /\ Size \in [Datagrams -> 0..BufferSize]
  /\ Blank \subseteq {d \in Datagrams : Size[d] > 0}
  /\ Forwarding \in BOOLEAN
  /\ None \notin Datagrams
  /\ None \notin {"listener", "packetLoop", "packetsLoop"}
  /\ Workers \cap {"listener", "packetLoop", "packetsLoop",
                    "forwarder", "stop"} = {}

VARIABLES
  arrivals,        \* history: the datagrams read, in the order of ReadFrom
  message,         \* the datagram in the listener's own buffer, or None
  packet,          \* packetBuffer.packet: datagrams copied so far
  packetLength,    \* packetBuffer.packetLength
  packetMutex,     \* holder of packetBuffer's mutex
  packets,         \* packetsBuffer.packets
  packetsMutex,    \* holder of packetsBuffer.m
  packetsChannel,  \* the channel the packetsBuffer writes to
  packetsIn,       \* the workers' channel when packets are also forwarded
  held,            \* the group the forwarder goroutine has in hand
  working,         \* the group each worker is parsing
  parsed,          \* how often the parser came to each datagram
  skipped,         \* datagrams the parser never came to
  pc,              \* where each goroutine is
  closed           \* the channels and sockets closed by Server.Stop

readVars    == <<arrivals, message>>
packetVars  == <<packet, packetLength, packetMutex>>
packetsVars == <<packets, packetsMutex>>
queueVars   == <<packetsChannel, packetsIn, held>>
parserVars  == <<working, parsed, skipped>>
vars        == <<readVars, packetVars, packetsVars, queueVars, parserVars,
                 pc, closed>>

Flushers   == {"listener", "packetLoop", "packetsLoop"}
Goroutines == Flushers \cup {"forwarder", "stop"} \cup Workers
Groups     == Seq(Seq(Datagrams))

Init ==
  /\ arrivals = <<>>
  /\ message = None
  /\ packet = <<>>
  /\ packetLength = 0
  /\ packetMutex = None
  /\ packets = <<>>
  /\ packetsMutex = None
  /\ packetsChannel = <<>>
  /\ packetsIn = <<>>
  /\ held = <<>>
  /\ working = [w \in Workers |-> <<>>]
  /\ parsed = [d \in Datagrams |-> 0]
  /\ skipped = {}
  /\ pc = [g \in Goroutines |-> CASE g = "listener" -> "read"
                                  [] g = "stop"     -> "running"
                                  [] OTHER          -> "wait"]
  /\ closed = {}

-----------------------------------------------------------------------------
Goto(g, from, to) == pc[g] = from /\ pc' = [pc EXCEPT ![g] = to]

Elements(s) == {s[i] : i \in 1..Len(s)}

(***************************************************************************)
(* UDPListener.Listen: read a datagram, hand it to addMessage.  A read     *)
(* error other than the closed connection only makes the loop go round.    *)
(***************************************************************************)
ReadFrom(d) ==
  /\ Goto("listener", "read", "add")
  /\ "conn" \notin closed
  /\ d \notin Elements(arrivals)
  /\ arrivals' = Append(arrivals, d)
  /\ message' = d
  /\ UNCHANGED <<packetVars, packetsVars, queueVars, parserVars, closed>>

ReadClosed ==
  /\ Goto("listener", "read", "done")
  /\ "conn" \in closed
  /\ UNCHANGED <<readVars, packetVars, packetsVars, queueVars, parserVars, closed>>

(***************************************************************************)
(* packetBuffer.addMessage.  The message starts the packet, is merged      *)
(* behind a separator, or first forces a flush, during which the listener  *)
(* keeps the packetBuffer's mutex.                                         *)
(***************************************************************************)
\* copy(p.packet.buffer, message): an empty datagram leaves no trace.
Copied(d) == IF Size[d] = 0 THEN <<>> ELSE <<d>>

\* A message merged behind others costs one more byte, the separator.
FitsBehind(d) == BufferSize >= Size[d] + packetLength + 1

\* The three ways end with the message in the packet and the mutex free.
Placed(contents, length) ==
  /\ packetMutex' = None
  /\ packet' = contents
  /\ packetLength' = length
  /\ message' = None

StartPacket ==
  /\ Goto("listener", "add", "read")
  /\ packetMutex = None
  /\ packetLength = 0
  /\ Placed(Copied(message), Size[message])
  /\ UNCHANGED <<arrivals, packetsVars, queueVars, parserVars, closed>>

MergeMessage ==
  /\ Goto("listener", "add", "read")
  /\ packetMutex = None
  /\ packetLength > 0
  /\ FitsBehind(message)
  /\ Placed(Append(packet, message), packetLength + Size[message] + 1)
  /\ UNCHANGED <<arrivals, packetsVars, queueVars, parserVars, closed>>

Overflow(holder) ==
  /\ Goto("listener", "add", "append")
  /\ packetMutex = None
  /\ packetLength > 0
  /\ ~FitsBehind(message)
  /\ packetMutex' = holder
  /\ UNCHANGED <<readVars, packet, packetLength, packetsVars, queueVars,
                 parserVars, closed>>

\* Mutant: the mutex is released around the flush.
OverflowUnlocked == Overflow(None)

OverflowPacket == Overflow("listener")

(***************************************************************************)
(* packetBuffer.flushLoop: on a tick, lock and flush what there is.        *)
(***************************************************************************)
TickPacket ==
  /\ Goto("packetLoop", "wait", "lock")
  /\ UNCHANGED <<readVars, packetVars, packetsVars, queueVars, parserVars, closed>>

LockPacketThen(flushing) ==
  /\ packetMutex = None
  /\ \/ /\ ~flushing
        /\ Goto("packetLoop", "lock", "wait")
        /\ packetMutex' = None
     \/ /\ flushing
        /\ Goto("packetLoop", "lock", "append")
        /\ packetMutex' = "packetLoop"
  /\ UNCHANGED <<readVars, packet, packetLength, packetsVars, queueVars,
                 parserVars, closed>>

\* Mutant: the tick does not flush.
LockPacketIdle == LockPacketThen(FALSE)

LockPacket == LockPacketThen(packetLength > 0)

(***************************************************************************)
(* What runs once a flush is over: addMessage starts the new packet with   *)
(* the message that did not fit; the packetBuffer's loop leaves a fresh    *)
(* packet; the packetsBuffer's loop has nothing left to do.                *)
(***************************************************************************)
FlushReturns(g, from) ==
  \/ /\ g = "listener"
     /\ Goto(g, from, "read")
     /\ Placed(Copied(message), Size[message])
  \/ /\ g = "packetLoop"
     /\ Goto(g, from, "wait")
     /\ packetMutex' = None
     /\ packet' = <<>>
     /\ packetLength' = 0
     /\ UNCHANGED message
  \/ /\ g = "packetsLoop"
     /\ Goto(g, from, "wait")
     /\ UNCHANGED <<packetVars, message>>

\* packetsBuffer.append, called by packetBuffer.flush with its mutex held.
Appended(g) ==
  /\ packets' = Append(packets, packet)
  /\ \/ /\ Len(packets) + 1 >= PacketsBufferSize
        /\ Goto(g, "append", "send")
        /\ packetsMutex' = g
        /\ UNCHANGED <<packetVars, message>>
     \/ /\ Len(packets) + 1 < PacketsBufferSize
        /\ FlushReturns(g, "append")
        /\ UNCHANGED packetsMutex
  /\ UNCHANGED <<arrivals, queueVars, parserVars, closed>>

\* Mutant: append does not take the packetsBuffer's mutex.
AppendUnlocked(g) == Appended(g)

AppendPacket(g) == packetsMutex = None /\ Appended(g)

\* packetsBuffer.flush: the send blocks while the channel is full.
SendPackets(g) ==
  /\ Len(packetsChannel) < QueueSize
  /\ packetsChannel' = Append(packetsChannel, packets)
  /\ packets' = <<>>
  /\ packetsMutex' = None
  /\ FlushReturns(g, "send")
  /\ UNCHANGED <<arrivals, packetsIn, held, parserVars, closed>>

(***************************************************************************)
(* packetsBuffer.flushLoop.                                                *)
(***************************************************************************)
TickPackets ==
  /\ Goto("packetsLoop", "wait", "lock")
  /\ UNCHANGED <<readVars, packetVars, packetsVars, queueVars, parserVars, closed>>

LockPacketsThen(flushing) ==
  /\ packetsMutex = None
  /\ \/ /\ ~flushing
        /\ Goto("packetsLoop", "lock", "wait")
        /\ packetsMutex' = None
     \/ /\ flushing
        /\ Goto("packetsLoop", "lock", "send")
        /\ packetsMutex' = "packetsLoop"
  /\ UNCHANGED <<readVars, packetVars, packets, queueVars, parserVars, closed>>

LockPackets == LockPacketsThen(packets # <<>>)

\* Either loop leaves its select when its closeChannel is closed.
ExitLoop(g, channel) ==
  /\ Goto(g, "wait", "done")
  /\ channel \in closed
  /\ UNCHANGED <<readVars, packetVars, packetsVars, queueVars, parserVars, closed>>

(***************************************************************************)
(* Server.forwarder, running only when a forward host is configured: it    *)
(* copies each packet to that host and passes the group on to the workers. *)
(***************************************************************************)
ReceiveToForward ==
  /\ Forwarding
  /\ Goto("forwarder", "wait", "send")
  /\ packetsChannel # <<>>
  /\ held' = Head(packetsChannel)
  /\ packetsChannel' = Tail(packetsChannel)
  /\ UNCHANGED <<readVars, packetVars, packetsVars, packetsIn, parserVars, closed>>

HasRoom == Len(packetsIn) < QueueSize

PassOn ==
  /\ Goto("forwarder", "send", "wait")
  /\ HasRoom
  /\ packetsIn' = Append(packetsIn, held)
  /\ held' = <<>>
  /\ UNCHANGED <<readVars, packetVars, packetsVars, packetsChannel, parserVars,
                 closed>>

ExitForwarder ==
  /\ Forwarding
  /\ Goto("forwarder", "wait", "done")
  /\ "stopChan" \in closed
  /\ UNCHANGED <<readVars, packetVars, packetsVars, queueVars, parserVars, closed>>

(***************************************************************************)
(* Server.worker.  s.packetsIn is the forwarder's output when there is a   *)
(* forwarder, and the packetsBuffer's channel otherwise.                   *)
(***************************************************************************)
ReceivePackets(w) ==
  /\ Goto(w, "wait", "parse")
  /\ \/ /\ Forwarding
        /\ packetsIn # <<>>
        /\ working' = [working EXCEPT ![w] = Head(packetsIn)]
        /\ packetsIn' = Tail(packetsIn)
        /\ UNCHANGED packetsChannel
     \/ /\ ~Forwarding
        /\ packetsChannel # <<>>
        /\ working' = [working EXCEPT ![w] = Head(packetsChannel)]
        /\ packetsChannel' = Tail(packetsChannel)
        /\ UNCHANGED packetsIn
  /\ UNCHANGED <<readVars, packetVars, packetsVars, held, parsed, skipped, closed>>

\* Mutant: the last message of a datagram ends the parsing of the packet.
EndsParsingAlways(d) == TRUE

(***************************************************************************)
(* nextMessage returns nil on an empty line and parsePackets then leaves   *)
(* the packet, whether the empty line is at the front of a datagram, inside*)
(* it, or made by its last newline, or by an empty datagram, together with *)
(* the separator merged behind it.  (The messages of the datagram itself   *)
(* behind its empty line are lost too, merged or not.)                     *)
(***************************************************************************)
EndsParsing(d) == d \in Blank \/ Size[d] = 0

Positions(group) == UNION {{i} \X (1..Len(group[i])) : i \in 1..Len(group)}

ParsedPositions(group) ==
  {p \in Positions(group) :
     \A j \in 1..(p[2] - 1) : ~EndsParsing(group[p[1]][j])}

ParsePackets(w) ==
  LET group    == working[w]
      reached  == ParsedPositions(group)
      Times(d) == Cardinality({p \in reached : group[p[1]][p[2]] = d})
  IN  /\ Goto(w, "parse", "wait")
      /\ parsed' = [d \in Datagrams |-> parsed[d] + Times(d)]
      /\ skipped' = skipped \cup {group[p[1]][p[2]] :
                                    p \in Positions(group) \ reached}
      /\ working' = [working EXCEPT ![w] = <<>>]
      /\ UNCHANGED <<readVars, packetVars, packetsVars, queueVars, closed>>

ExitWorker(w) ==
  /\ Goto(w, "wait", "done")
  /\ "stopChan" \in closed
  /\ UNCHANGED <<readVars, packetVars, packetsVars, queueVars, parserVars, closed>>

(***************************************************************************)
(* Server.Stop: stopChan first, then UDPListener.Stop closes the           *)
(* packetBuffer under its mutex, the packetsBuffer and the connection.     *)
(***************************************************************************)
Close(from, to, channel) ==
  /\ Goto("stop", from, to)
  /\ closed' = closed \cup {channel}
  /\ UNCHANGED <<readVars, packetVars, packetsVars, queueVars, parserVars>>

\* Mutant: packetsBuffer is not closed.
LeavePacketsBuffer == Close("closePackets", "closeConn", "packetBuffer")

Stop               == Close("running", "closePacket", "stopChan")
ClosePacketBuffer  == /\ packetMutex = None
                      /\ Close("closePacket", "closePackets", "packetBuffer")
ClosePacketsBuffer == Close("closePackets", "closeConn", "packetsBuffer")
CloseConn          == Close("closeConn", "stopped", "conn")

-----------------------------------------------------------------------------
Flush(g)    == AppendPacket(g) \/ SendPackets(g)
AddMessage  == StartPacket \/ MergeMessage \/ OverflowPacket \/ Flush("listener")
PacketLoop  == TickPacket \/ LockPacket \/ Flush("packetLoop")
PacketsLoop == TickPackets \/ LockPackets \/ SendPackets("packetsLoop")
ExitLoops   == \/ ExitLoop("packetLoop", "packetBuffer")
               \/ ExitLoop("packetsLoop", "packetsBuffer")
Forwarder   == ReceiveToForward \/ PassOn \/ ExitForwarder
Worker(w)   == ReceivePackets(w) \/ ParsePackets(w) \/ ExitWorker(w)
CloseAll    == ClosePacketBuffer \/ ClosePacketsBuffer \/ CloseConn

Next ==
  \/ \E d \in Datagrams : ReadFrom(d)
  \/ ReadClosed
  \/ AddMessage
  \/ PacketLoop
  \/ PacketsLoop
  \/ ExitLoops
  \/ Forwarder
  \/ \E w \in Workers : Worker(w)
  \/ Stop
  \/ CloseAll

(***************************************************************************)
(* Every goroutine runs.  One waiting for a mutex gets it if the mutex is  *)
(* released again and again (Go hands a mutex over after 1 ms), and the    *)
(* select of a flush loop, whose ticker keeps firing, does not overlook a  *)
(* closed channel forever.  Nothing says that a datagram arrives or that   *)
(* the server is stopped.                                                  *)
(***************************************************************************)
Fairness ==
  /\ WF_vars(ReadClosed)
  /\ SF_vars(AddMessage)
  /\ SF_vars(PacketLoop)
  /\ SF_vars(PacketsLoop)
  /\ SF_vars(ExitLoop("packetLoop", "packetBuffer"))
  /\ SF_vars(ExitLoop("packetsLoop", "packetsBuffer"))
  /\ WF_vars(Forwarder)
  /\ \A w \in Workers : WF_vars(Worker(w))
  /\ SF_vars(CloseAll)

Spec     == Init /\ [][Next]_vars
FairSpec == Spec /\ Fairness

-----------------------------------------------------------------------------
(***************************************************************************)
(* TypeOK: every variable keeps its type; a goroutine only waits where its *)
(* code can block, and only Server.Stop closes channels.                   *)
(***************************************************************************)
Points == {"read", "add", "append", "send", "wait", "lock", "parse", "running",
           "closePacket", "closePackets", "closeConn", "stopped", "done"}

BufferTypeOK ==
  /\ arrivals \in Seq(Datagrams)
  /\ message \in Datagrams \cup {None}
  /\ packet \in Seq(Datagrams)
  /\ packetLength \in 0..BufferSize
  /\ packetMutex \in {"listener", "packetLoop", None}
  /\ packets \in Groups
  /\ packetsMutex \in Flushers \cup {None}

QueueTypeOK ==
  /\ packetsChannel \in Seq(Groups)
  /\ packetsIn \in Seq(Groups)
  /\ held \in Groups

ParserTypeOK ==
  /\ working \in [Workers -> Groups]
  /\ parsed \in [Datagrams -> Nat]
  /\ skipped \subseteq Datagrams

ControlTypeOK ==
  /\ pc \in [Goroutines -> Points]
  /\ closed \subseteq {"stopChan", "packetBuffer", "packetsBuffer", "conn"}

TypeOK == BufferTypeOK /\ QueueTypeOK /\ ParserTypeOK /\ ControlTypeOK

(***************************************************************************)
(* PacketExact: packetLength counts exactly the bytes of the datagrams in  *)
(* the packet and of the separators between them, so that Contents holds   *)
(* whole datagrams, after any mix of merges, overflows and ticker flushes. *)
(***************************************************************************)
PacketBytes(p) ==
  LET upTo[i \in 0..Len(p)] ==
        IF i = 0 THEN 0
        ELSE upTo[i - 1] + Size[p[i]] + (IF i = 1 THEN 0 ELSE 1)
  IN  upTo[Len(p)]

PacketExact == packetLength = PacketBytes(packet)

(***************************************************************************)
(* GroupsWhole: whichever of the three goroutines flushes, no group        *)
(* outgrows the packetsBuffer, a full one is being sent, one goroutine     *)
(* sends at a time, and the ticker never sends an empty group; while a     *)
(* flush of the packetBuffer waits for room in the channel, the packet it  *)
(* appended last, still aliased by packetBuffer.packet, is written to by   *)
(* nobody.                                                                 *)
(***************************************************************************)
GroupsWhole ==
  /\ Len(packets) <= PacketsBufferSize
  /\ Len(packets) = PacketsBufferSize => \E g \in Flushers : pc[g] = "send"
  /\ \A g \in Flushers : pc[g] = "send" =>
       /\ packets # <<>>
       /\ \A h \in Flushers \ {g} : pc[h] # "send"
       /\ g # "packetsLoop" => /\ Len(packets) = PacketsBufferSize
                               /\ packets[Len(packets)] = packet

(***************************************************************************)
(* The locking discipline behind it: a goroutine holds the packetBuffer's  *)
(* mutex exactly while it flushes the packet, and the packetsBuffer's      *)
(* exactly while it sends; the listener has a message until it is placed.  *)
(***************************************************************************)
Locking ==
  /\ \A g \in {"listener", "packetLoop"} :
       packetMutex = g <=> pc[g] \in {"append", "send"}
  /\ \A g \in Flushers : packetsMutex = g <=> pc[g] = "send"
  /\ pc["packetsLoop"] # "append"
  /\ message \in Datagrams <=> pc["listener"] \in {"add", "append", "send"}

\* GroupsWhole in terms of the mutex.
WholeUnderMutex ==
  /\ Len(packets) <= PacketsBufferSize
  /\ Len(packets) = PacketsBufferSize =>
       packetsMutex # None /\ pc[packetsMutex] = "send"
  /\ packetsMutex # None => packets # <<>>
  /\ packetsMutex \in {"listener", "packetLoop"} =>
       Len(packets) = PacketsBufferSize /\ packets[Len(packets)] = packet

IInv == TypeOK /\ Locking /\ WholeUnderMutex

(***************************************************************************)
(* While the holder of the packetBuffer's mutex is sending, its packet is  *)
(* already a member of packets: p.packet is an alias until flush returns.  *)
(***************************************************************************)
Pending ==
  IF packetMutex # None /\ pc[packetMutex] = "send" THEN <<>> ELSE packet

\* Everything on its way to the workers, oldest first.
Pipeline ==
  packetsIn \o <<held>> \o packetsChannel \o
    <<packets, <<Pending>>, <<IF message = None THEN <<>> ELSE <<message>>>>>>

Places == UNION {{k} \X Positions(Pipeline[k]) : k \in 1..Len(Pipeline)}

At(p) == Pipeline[p[1]][p[2][1]][p[2][2]]

(***************************************************************************)
(* ExactlyOnce: a datagram that was read is in exactly one place of the    *)
(* intake, in the hands of exactly one worker, or was given to the parser  *)
(* exactly once; none is lost or duplicated by a flush of the listener     *)
(* racing the flush of a ticker, or by a shutdown in the middle of either. *)
(***************************************************************************)
Copies(d) ==
  Cardinality({p \in Places : At(p) = d})
    + Cardinality({p \in UNION {{w} \X Positions(working[w]) : w \in Workers} :
                     working[p[1]][p[2][1]][p[2][2]] = d})
    + parsed[d]
    + (IF d \in skipped THEN 1 ELSE 0)

ExactlyOnce ==
  \A d \in Datagrams : Size[d] > 0 =>
    Copies(d) = IF d \in Elements(arrivals) THEN 1 ELSE 0

(***************************************************************************)
(* InArrivalOrder: the workers are offered the datagrams in the order in   *)
(* which the socket delivered them, across packets, groups and both        *)
(* channels, although three goroutines flush.                              *)
(***************************************************************************)
Arrival(d) == CHOOSE i \in 1..Len(arrivals) : arrivals[i] = d

Before(p, q) ==
  \/ p[1] < q[1]
  \/ p[1] = q[1] /\ p[2][1] < q[2][1]
  \/ p[1] = q[1] /\ p[2][1] = q[2][1] /\ p[2][2] < q[2][2]

InArrivalOrder ==
  \A p, q \in Places : Before(p, q) => Arrival(At(p)) < Arrival(At(q))

(***************************************************************************)
(* IntakeExact: the flushes of three goroutines keep every byte, every     *)
(* datagram and the order of the datagrams.                                *)
(***************************************************************************)
IntakeExact == PacketExact /\ ExactlyOnce /\ InArrivalOrder

(***************************************************************************)
(* SkippedBehindBlank: merging datagrams into packets hides none of them   *)
(* from the parser, except behind one that has an empty line somewhere, or *)
(* was empty, and came before: nextMessage takes it for the packet's end.  *)
(***************************************************************************)
SkippedBehindBlank ==
  \A d \in skipped : \E i \in 1..(Arrival(d) - 1) :
    arrivals[i] \in Blank \/ Size[arrivals[i]] = 0

(***************************************************************************)
(* The inductive form of the two properties above.  ReadBefore orders the  *)
(* datagrams read; the stages of the intake are in that order, each in     *)
(* itself and one behind the other.  Since the order is strict, nothing is *)
(* at two places of the stages.                                            *)
(***************************************************************************)
ReadBefore ==
  {p \in Datagrams \X Datagrams :
     \E l \in 1..Len(arrivals) :
       arrivals[l] = p[2] /\ \E k \in 1..(l - 1) : arrivals[k] = p[1]}

Ahead(A, B, order) == \A a \in A, b \in B : <<a, b>> \in order

InGroup(group) == UNION {Elements(group[i]) : i \in 1..Len(group)}
InQueue(queue) == UNION {InGroup(queue[k]) : k \in 1..Len(queue)}

PacketInOrder(p, order) ==
  \A j \in 1..Len(p) : \A i \in 1..(j - 1) : <<p[i], p[j]>> \in order

GroupInOrder(group, order) ==
  \A j \in 1..Len(group) :
    /\ PacketInOrder(group[j], order)
    /\ \A i \in 1..(j - 1) : Ahead(Elements(group[i]), Elements(group[j]), order)

QueueInOrder(queue, order) ==
  \A l \in 1..Len(queue) :
    /\ GroupInOrder(queue[l], order)
    /\ \A k \in 1..(l - 1) : Ahead(InGroup(queue[k]), InGroup(queue[l]), order)

EachInOrder ==
  /\ QueueInOrder(packetsIn, ReadBefore)
  /\ GroupInOrder(held, ReadBefore)
  /\ QueueInOrder(packetsChannel, ReadBefore)
  /\ GroupInOrder(packets, ReadBefore)
  /\ PacketInOrder(packet, ReadBefore)
  /\ \A w \in Workers : GroupInOrder(working[w], ReadBefore)

\* One stage behind the other, given the contents of each.
Lined(in, hand, channel, group, pending, last, order) ==
  /\ Ahead(in, hand \cup channel \cup group \cup pending \cup last, order)
  /\ Ahead(hand, channel \cup group \cup pending \cup last, order)
  /\ Ahead(channel, group \cup pending \cup last, order)
  /\ Ahead(group, pending \cup last, order)
  /\ Ahead(pending, last, order)

Unplaced == {message} \ {None}

StagesLined ==
  Lined(InQueue(packetsIn), InGroup(held), InQueue(packetsChannel),
        InGroup(packets), Elements(Pending), Unplaced, ReadBefore)

Waiting == InQueue(packetsIn) \cup InGroup(held) \cup InQueue(packetsChannel)
             \cup InGroup(packets) \cup Elements(Pending) \cup Unplaced
Taken   == UNION {InGroup(working[w]) : w \in Workers}
Seen    == {d \in Datagrams : parsed[d] > 0} \cup skipped

\* A datagram waits, is taken by one worker, or was seen by the parser once.
Apart ==
  /\ Waiting \cap Taken = {} /\ Waiting \cap Seen = {} /\ Taken \cap Seen = {}
  /\ \A v, w \in Workers : v # w => InGroup(working[v]) \cap InGroup(working[w]) = {}
  /\ \A d \in Datagrams : parsed[d] = 0 \/ (parsed[d] = 1 /\ d \notin skipped)

\* What was read is somewhere, and nothing else is.
Complete ==
  /\ Waiting \cup Taken \cup Seen \subseteq Elements(arrivals)
  /\ {d \in Elements(arrivals) : Size[d] > 0} \subseteq Waiting \cup Taken \cup Seen

\* A packet in use has bytes; who waits for a group has none in hand.
HandsEmpty ==
  /\ packet # <<>> => packetLength > 0
  /\ pc["forwarder"] # "send" => held = <<>>
  /\ \A w \in Workers : pc[w] # "parse" => working[w] = <<>>

ReadOnce == \A i, j \in 1..Len(arrivals) : arrivals[i] = arrivals[j] => i = j

SkippedLate ==
  \A d \in skipped : \E e \in Datagrams : <<e, d>> \in ReadBefore /\ EndsParsing(e)

IntakeStages ==
  /\ PacketExact
  /\ StagesLined
  /\ EachInOrder
  /\ Apart
  /\ Complete
  /\ HandsEmpty
  /\ ReadOnce
  /\ SkippedLate

(***************************************************************************)
(* EventuallyParsed: unless the server is stopped, every datagram read     *)
(* reaches the parser, a lone one through the two flush tickers.  (Both    *)
(* sides of the implication last once they hold, and the datagrams are     *)
(* finitely many: this is one leads-to for each of them.)                  *)
(***************************************************************************)
EventuallyParsed ==
  []<>(\A d \in Datagrams :
         d \in Elements(arrivals) /\ Size[d] > 0
           => parsed[d] > 0 \/ d \in skipped \/ "stopChan" \in closed)

(***************************************************************************)
(* StopReturnsUnlessFull: the only thing that keeps Server.Stop from       *)
(* returning, and the listener and both loops from ending, is a flush left *)
(* blocked on a full channel after every reader of that channel has gone,  *)
(* or is itself left blocked on a full channel without readers.            *)
(***************************************************************************)
Stopped == pc["stop"] = "stopped"

Readers == IF Forwarding THEN {"forwarder"} ELSE Workers

ForwarderStuck ==
  pc["forwarder"] = "send" /\ ~HasRoom /\ \A w \in Workers : pc[w] = "done"

StuckOnFullChannel ==
  /\ Len(packetsChannel) = QueueSize
  /\ \E g \in Flushers : pc[g] = "send"
  /\ \A r \in Readers : pc[r] = "done" \/ (r = "forwarder" /\ ForwarderStuck)

StopReturnsUnlessFull ==
  "stopChan" \in closed ~>
    \/ Stopped /\ \A g \in Flushers : pc[g] = "done"
    \/ StuckOnFullChannel
=============================================================================
