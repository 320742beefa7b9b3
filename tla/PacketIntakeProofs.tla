------------------------- MODULE PacketIntakeProofs -------------------------
(***************************************************************************)
(* Proofs about PacketIntake for every set of datagrams and workers, every *)
(* buffer size and every queue size, with or without the forwarder.        *)
(***************************************************************************)
EXTENDS PacketIntake, FiniteSetTheorems, WellFoundedInduction, TLAPS

\* Appending an element of S to a sequence over S gives a sequence over S.
LEMMA AppendType ==
  ASSUME NEW S, NEW q \in Seq(S), NEW e \in S
  PROVE  Append(q, e) \in Seq(S) /\ Len(Append(q, e)) = Len(q) + 1
  OBVIOUS

\* The head and the tail of a sequence over S that is not empty.
LEMMA HeadTailType ==
  ASSUME NEW S, NEW q \in Seq(S), q # <<>>
  PROVE  Head(q) \in S /\ Tail(q) \in Seq(S) /\ Len(Tail(q)) = Len(q) - 1
  OBVIOUS

\* The initial state satisfies the inductive invariant.
LEMMA InitIInv == Init => IInv
  <1> SUFFICES ASSUME Init PROVE IInv
    OBVIOUS
  <1> USE IntakeAssumption DEF IntakeAssumption
  <1>1. TypeOK
    BY DEF Init, TypeOK, BufferTypeOK, QueueTypeOK, ParserTypeOK,
           ControlTypeOK, Goroutines, Groups, Points
  <1>2. Locking
    BY DEF Init, Locking, Goroutines, Flushers
  <1>3. WholeUnderMutex
    BY DEF Init, WholeUnderMutex
  <1> QED BY <1>1, <1>2, <1>3 DEF IInv

\* A goroutine's step moves that goroutine only.
LEMMA GotoMoves ==
  ASSUME ControlTypeOK, NEW g \in Goroutines, NEW from, NEW to \in Points,
         Goto(g, from, to)
  PROVE  /\ pc' \in [Goroutines -> Points]
         /\ pc[g] = from /\ pc'[g] = to
         /\ \A h \in Goroutines \ {g} : pc'[h] = pc[h]
  BY DEF Goto, ControlTypeOK

\* The listener's steps outside a flush.
LEMMA ListenerIInv ==
  ASSUME IInv,
         \/ \E d \in Datagrams : ReadFrom(d)
         \/ ReadClosed \/ StartPacket \/ MergeMessage \/ OverflowPacket
  PROVE  IInv'
  <1> USE IntakeAssumption DEF IntakeAssumption, IInv, TypeOK
  <1>1. PICK from, to \in Points : Goto("listener", from, to)
    BY DEF ReadFrom, ReadClosed, StartPacket, MergeMessage,
           OverflowPacket, Overflow, Points
  <1>2. /\ "listener" \in Goroutines /\ "packetLoop" \in Goroutines
        /\ "packetsLoop" \in Goroutines
    BY DEF Goroutines, Flushers
  <1>3. /\ pc' \in [Goroutines -> Points]
        /\ \A h \in Goroutines \ {"listener"} : pc'[h] = pc[h]
    BY <1>1, <1>2, GotoMoves
  <1>4. UNCHANGED <<packets, packetsMutex, packetsChannel, packetsIn, held,
                    working, parsed, skipped, closed>>
    BY DEF ReadFrom, ReadClosed, StartPacket, MergeMessage,
           OverflowPacket, Overflow, packetsVars, queueVars, parserVars
  <1>5. QueueTypeOK' /\ ParserTypeOK' /\ ControlTypeOK'
    BY <1>3, <1>4 DEF QueueTypeOK, ParserTypeOK, ControlTypeOK
  <1>6. CASE \E d \in Datagrams : ReadFrom(d)
    <2>1. PICK d \in Datagrams : ReadFrom(d)
      BY <1>6
    <2>2. BufferTypeOK'
      BY <2>1, <1>4, AppendType DEF ReadFrom, BufferTypeOK, packetVars
    <2>3. Locking' /\ WholeUnderMutex'
      BY <2>1, <1>2, <1>3, <1>4 DEF ReadFrom, Goto, Locking, WholeUnderMutex,
         packetVars, ControlTypeOK, Flushers, BufferTypeOK
    <2> QED BY <2>2, <2>3, <1>5
  <1>7. CASE ReadClosed
    <2>1. BufferTypeOK'
      BY <1>4, <1>7 DEF ReadClosed, BufferTypeOK, packetVars, readVars
    <2>2. Locking' /\ WholeUnderMutex'
      BY <1>7, <1>2, <1>3, <1>4 DEF ReadClosed, Goto, Locking,
         WholeUnderMutex, packetVars, readVars, ControlTypeOK, Flushers,
         BufferTypeOK
    <2> QED BY <2>1, <2>2, <1>5
  <1>8. CASE StartPacket \/ MergeMessage
    <2>1. message \in Datagrams
      BY <1>8 DEF StartPacket, MergeMessage, Goto, Locking
    <2>2. /\ packet' \in Seq(Datagrams) /\ packetLength' \in 0..BufferSize
          /\ packetMutex' = None /\ message' = None
      <3>1. CASE StartPacket
        BY <2>1, <3>1 DEF StartPacket, Placed, Copied
      <3>2. CASE MergeMessage
        BY <2>1, <3>2, AppendType DEF MergeMessage, Placed,
           FitsBehind, BufferTypeOK
      <3> QED BY <1>8, <3>1, <3>2
    <2>3. BufferTypeOK'
      BY <1>4, <1>8, <2>2 DEF StartPacket, MergeMessage, BufferTypeOK
    <2>4. Locking' /\ WholeUnderMutex'
      BY <1>8, <1>2, <1>3, <1>4, <2>2 DEF StartPacket, MergeMessage,
         Goto, Locking, WholeUnderMutex, ControlTypeOK, Flushers, BufferTypeOK
    <2> QED BY <2>3, <2>4, <1>5
  <1>9. CASE OverflowPacket
    <2>1. BufferTypeOK'
      BY <1>4, <1>9 DEF OverflowPacket, Overflow, BufferTypeOK, readVars
    <2>2. Locking' /\ WholeUnderMutex'
      BY <1>9, <1>2, <1>3, <1>4 DEF OverflowPacket, Overflow, Goto, Locking,
         WholeUnderMutex, readVars, ControlTypeOK, Flushers, BufferTypeOK
    <2> QED BY <2>1, <2>2, <1>5
  <1> QED BY <1>6, <1>7, <1>8, <1>9

\* The flush loops outside a flush: ticks, locks and the end of a loop.
LEMMA LoopIInv ==
  ASSUME IInv,
         \/ TickPacket \/ LockPacket \/ TickPackets \/ LockPackets
         \/ ExitLoops
  PROVE  IInv'
  <1> USE IntakeAssumption DEF IntakeAssumption, IInv, TypeOK
  <1> USE DEF TickPacket, LockPacket, LockPacketThen, TickPackets,
              LockPackets, LockPacketsThen, ExitLoops, ExitLoop
  <1>1. PICK g \in {"packetLoop", "packetsLoop"}, from, to \in Points :
          Goto(g, from, to)
    BY DEF Points
  <1>2. /\ "listener" \in Goroutines /\ "packetLoop" \in Goroutines
        /\ "packetsLoop" \in Goroutines
    BY DEF Goroutines, Flushers
  <1>3. pc' \in [Goroutines -> Points]
    BY <1>1, <1>2, GotoMoves
  <1>4. UNCHANGED <<arrivals, message, packet, packetLength, packets,
                    packetsChannel, packetsIn, held, working, parsed,
                    skipped, closed>>
    BY DEF readVars, packetVars, packetsVars, queueVars, parserVars
  <1>5. /\ packetMutex' \in {packetMutex, "packetLoop"}
        /\ packetsMutex' \in {packetsMutex, "packetsLoop"}
    BY DEF packetVars, packetsVars
  <1>6. TypeOK'
    BY <1>3, <1>4, <1>5 DEF BufferTypeOK, QueueTypeOK, ParserTypeOK,
                            ControlTypeOK, Flushers
  <1>7. Locking'
    <2>1. CASE TickPacket \/ LockPacket
      BY <2>1, <1>2, <1>4 DEF Goto, Locking, packetsVars, packetVars,
         ControlTypeOK, Flushers, BufferTypeOK
    <2>2. CASE TickPackets \/ LockPackets
      BY <2>2, <1>2, <1>4 DEF Goto, Locking, packetsVars, packetVars,
         ControlTypeOK, Flushers, BufferTypeOK
    <2>3. CASE ExitLoops
      BY <2>3, <1>2, <1>4 DEF Goto, Locking, packetsVars, packetVars,
         ControlTypeOK, Flushers, BufferTypeOK
    <2> QED BY <2>1, <2>2, <2>3
  <1>8. WholeUnderMutex'
    <2>1. Len(packets) = PacketsBufferSize =>
            packetsMutex' = packetsMutex /\ pc'[packetsMutex] = "send"
      BY <1>1, <1>2 DEF WholeUnderMutex, Locking, Goto, ControlTypeOK,
                        BufferTypeOK, packetsVars, Flushers
    <2>2. /\ packetsMutex' # None => packets # <<>>
          /\ packetsMutex' \in {"listener", "packetLoop"} =>
               packetsMutex' = packetsMutex
      BY DEF WholeUnderMutex, packetsVars
    <2>3. packetsMutex' \in {"listener", "packetLoop"} =>
            Len(packets) = PacketsBufferSize /\ packets[Len(packets)] = packet
      BY <2>2 DEF WholeUnderMutex
    <2>4. Len(packets) = PacketsBufferSize => packetsMutex # None
      BY DEF WholeUnderMutex
    <2>5. Len(packets) <= PacketsBufferSize
      BY DEF WholeUnderMutex
    <2> QED BY <1>4, <2>1, <2>2, <2>3, <2>4, <2>5 DEF WholeUnderMutex
  <1> QED BY <1>6, <1>7, <1>8

(***************************************************************************)
(* FlushReturns gives the packetBuffer's mutex back, with the packet       *)
(* reset or restarted by the waiting message.                              *)
(***************************************************************************)
LEMMA FlushReturnsTypes ==
  ASSUME IInv, NEW g \in Flushers, NEW from \in {"append", "send"},
         FlushReturns(g, from)
  PROVE  /\ pc[g] = from
         /\ pc' = [pc EXCEPT ![g] = IF g = "listener" THEN "read" ELSE "wait"]
         /\ message' = IF g = "listener" THEN None ELSE message
         /\ packetMutex' = IF g = "packetsLoop" THEN packetMutex ELSE None
         /\ packet' \in Seq(Datagrams)
         /\ packetLength' \in 0..BufferSize
  <1> USE IntakeAssumption DEF IntakeAssumption, IInv, TypeOK
  <1>1. CASE g = "listener"
    <2>1. message \in Datagrams
      BY <1>1 DEF FlushReturns, Goto, Locking
    <2>2. Copied(message) \in Seq(Datagrams) /\ Size[message] \in 0..BufferSize
      BY <2>1 DEF Copied
    <2>3. Goto(g, from, "read") /\ Placed(Copied(message), Size[message])
      BY <1>1 DEF FlushReturns
    <2> QED BY <1>1, <2>2, <2>3 DEF Goto, Placed
  <1>2. CASE g = "packetLoop"
    BY <1>2 DEF FlushReturns, Goto
  <1>3. CASE g = "packetsLoop"
    BY <1>3 DEF FlushReturns, Goto, packetVars, BufferTypeOK
  <1> QED BY <1>1, <1>2, <1>3 DEF Flushers

\* packetsBuffer.append: the group is full, and stays locked, or has room.
LEMMA AppendPacketIInv ==
  ASSUME IInv, NEW g \in {"listener", "packetLoop"}, AppendPacket(g)
  PROVE  IInv'
  <1> USE IntakeAssumption DEF IntakeAssumption, IInv, TypeOK
  <1>1. /\ "listener" \in Goroutines /\ "packetLoop" \in Goroutines
        /\ "packetsLoop" \in Goroutines
    BY DEF Goroutines, Flushers
  <1>2. /\ packets' = Append(packets, packet)
        /\ packets' \in Groups /\ Len(packets') = Len(packets) + 1
        /\ Len(packets) \in Nat
    BY AppendType DEF AppendPacket, Appended, BufferTypeOK, Groups
  <1>3. UNCHANGED <<arrivals, packetsChannel, packetsIn, held, working,
                    parsed, skipped, closed>>
    BY DEF AppendPacket, Appended, queueVars, parserVars
  <1>4. packetsMutex = None /\ Len(packets) < PacketsBufferSize
    BY <1>2 DEF AppendPacket, Appended, WholeUnderMutex
  <1>5. CASE /\ Len(packets) + 1 >= PacketsBufferSize
             /\ Goto(g, "append", "send")
             /\ packetsMutex' = g
             /\ UNCHANGED <<packetVars, message>>
    <2>1. TypeOK'
      BY <1>1, <1>2, <1>3, <1>5 DEF Goto, packetVars, BufferTypeOK,
         QueueTypeOK, ParserTypeOK, ControlTypeOK, Flushers, Points
    <2>2. Locking'
      BY <1>1, <1>4, <1>5 DEF Goto, packetVars, Locking, ControlTypeOK,
         Flushers
    <2>3. WholeUnderMutex'
      <3>1. Len(packets') = PacketsBufferSize
        BY <1>2, <1>4, <1>5
      <3>2. packets'[Len(packets')] = packet' /\ packets' # <<>>
        <4>1. packets \in Seq(Seq(Datagrams)) /\ packet \in Seq(Datagrams)
          BY DEF BufferTypeOK, Groups
        <4>2. packet' = packet
          BY <1>5 DEF packetVars
        <4>3. /\ Append(packets, packet)[Len(packets) + 1] = packet
              /\ Append(packets, packet) # <<>>
          BY <4>1
        <4> QED BY <1>2, <4>2, <4>3
      <3>3. packetsMutex' # None /\ pc'[packetsMutex'] = "send"
        BY <1>1, <1>5 DEF Goto, ControlTypeOK
      <3> QED BY <3>1, <3>2, <3>3 DEF WholeUnderMutex
    <2> QED BY <2>1, <2>2, <2>3
  <1>6. CASE /\ Len(packets) + 1 < PacketsBufferSize
             /\ FlushReturns(g, "append")
             /\ UNCHANGED packetsMutex
    <2>1. g \in Flushers
      BY DEF Flushers
    <2>2. /\ pc[g] = "append"
          /\ pc' = [pc EXCEPT ![g] = IF g = "listener" THEN "read" ELSE "wait"]
          /\ message' = IF g = "listener" THEN None ELSE message
          /\ packetMutex' = None
          /\ packet' \in Seq(Datagrams)
          /\ packetLength' \in 0..BufferSize
      BY <1>6, <2>1, FlushReturnsTypes
    <2>3. TypeOK'
      BY <1>1, <1>2, <1>3, <1>6, <2>2 DEF BufferTypeOK, QueueTypeOK,
         ParserTypeOK, ControlTypeOK, Points
    <2>4. Locking'
      BY <1>1, <1>4, <1>6, <2>2 DEF Locking, ControlTypeOK, Flushers
    <2>5. WholeUnderMutex'
      BY <1>2, <1>3, <1>6 DEF WholeUnderMutex
    <2> QED BY <2>3, <2>4, <2>5
  <1> QED BY <1>5, <1>6 DEF AppendPacket, Appended

\* packetsBuffer.flush: the group leaves, both buffers are free again.
LEMMA SendPacketsIInv ==
  ASSUME IInv, NEW g \in Flushers, SendPackets(g)
  PROVE  IInv'
  <1> USE IntakeAssumption DEF IntakeAssumption, IInv, TypeOK
  <1>1. /\ "listener" \in Goroutines /\ "packetLoop" \in Goroutines
        /\ "packetsLoop" \in Goroutines
    BY DEF Goroutines, Flushers
  <1>2. /\ pc[g] = "send"
        /\ pc' = [pc EXCEPT ![g] = IF g = "listener" THEN "read" ELSE "wait"]
        /\ message' = IF g = "listener" THEN None ELSE message
        /\ packetMutex' = IF g = "packetsLoop" THEN packetMutex ELSE None
        /\ packet' \in Seq(Datagrams)
        /\ packetLength' \in 0..BufferSize
    BY FlushReturnsTypes DEF SendPackets
  <1>3. /\ packetsChannel' \in Seq(Groups)
        /\ Len(packetsChannel') = Len(packetsChannel) + 1
        /\ Len(packetsChannel) < QueueSize
        /\ Len(packetsChannel) \in Nat
        /\ packets' = <<>> /\ packetsMutex' = None
        /\ UNCHANGED <<arrivals, packetsIn, held, working, parsed, skipped,
                       closed>>
    BY AppendType DEF SendPackets, BufferTypeOK, QueueTypeOK,
       parserVars
  <1>4. TypeOK'
    <2>1. <<>> \in Groups
      BY DEF Groups
    <2> QED BY <1>1, <1>2, <1>3, <2>1 DEF BufferTypeOK, QueueTypeOK,
               ParserTypeOK, ControlTypeOK, Points, Flushers
  <1>5. packetsMutex = g
    BY <1>2 DEF Locking
  <1>6. Locking'
    <2>1. /\ \A h \in Flushers \ {g} : pc'[h] = pc[h] /\ pc[h] # "send"
          /\ pc'[g] \in {"read", "wait"}
      BY <1>1, <1>2, <1>5 DEF Locking, ControlTypeOK, Flushers
    <2>2. \A h \in Flushers : packetsMutex' = h <=> pc'[h] = "send"
      BY <1>3, <2>1 DEF Flushers
    <2>3. \A h \in {"listener", "packetLoop"} :
            packetMutex' = h <=> pc'[h] \in {"append", "send"}
      BY <1>2, <1>5, <2>1 DEF Locking, Flushers
    <2>4. message' \in Datagrams <=> pc'["listener"] \in {"add", "append", "send"}
      BY <1>1, <1>2, <2>1 DEF Locking, Flushers, ControlTypeOK
    <2>5. pc'["packetsLoop"] # "append"
      BY <1>1, <1>2, <2>1 DEF Locking, Flushers
    <2> QED BY <2>2, <2>3, <2>4, <2>5 DEF Locking
  <1>7. WholeUnderMutex'
    BY <1>3 DEF WholeUnderMutex
  <1> QED BY <1>4, <1>6, <1>7

\* Parsing a group counts its datagrams and nothing else.
LEMMA ParseTypes ==
  ASSUME QueueTypeOK, ParserTypeOK, NEW w \in Workers, ParsePackets(w)
  PROVE  ParserTypeOK'
  <1> DEFINE group    == working[w]
             reached  == ParsedPositions(group)
             Times(d) == Cardinality({p \in reached : group[p[1]][p[2]] = d})
  <1>1. group \in Seq(Seq(Datagrams))
    BY DEF ParserTypeOK, Groups
  <1>2. \A i \in 1..Len(group) : group[i] \in Seq(Datagrams)
    BY <1>1
  <1>3. \A p \in Positions(group) :
          /\ p[1] \in 1..Len(group) /\ p[2] \in 1..Len(group[p[1]])
          /\ group[p[1]][p[2]] \in Datagrams
    BY <1>2 DEF Positions
  <1>4. IsFiniteSet(Positions(group))
    <2>1. \A i \in 1..Len(group) : IsFiniteSet({i} \X (1..Len(group[i])))
      <3> TAKE i \in 1..Len(group)
      <3>1. Len(group[i]) \in Nat
        BY <1>2
      <3>2. IsFiniteSet(1..Len(group[i]))
        BY <3>1, FS_Interval
      <3>3. IsFiniteSet({i})
        BY FS_Singleton
      <3> QED BY <3>2, <3>3, FS_Product
    <2>2. IsFiniteSet({{i} \X (1..Len(group[i])) : i \in 1..Len(group)})
      <3>1. Len(group) \in Nat
        BY <1>1
      <3>2. IsFiniteSet(1..Len(group))
        BY <3>1, FS_Interval
      <3> DEFINE cells == {{i} \X (1..Len(group[i])) : i \in 1..Len(group)}
                 row   == [i \in 1..Len(group) |-> {i} \X (1..Len(group[i]))]
      <3>3. row \in Surjection(1..Len(group), cells)
        BY DEF Surjection
      <3> HIDE DEF cells, row
      <3>4. IsFiniteSet(cells)
        BY <3>2, <3>3, FS_Surjection
      <3> QED BY <3>4 DEF cells
    <2> QED BY <2>1, <2>2, FS_UNION DEF Positions
  <1>5. \A d \in Datagrams : Times(d) \in Nat
    <2> TAKE d \in Datagrams
    <2>1. {p \in reached : group[p[1]][p[2]] = d} \subseteq Positions(group)
      BY DEF ParsedPositions
    <2> QED BY <1>4, <2>1, FS_Subset, FS_CardinalityType
  <1>6. parsed' = [d \in Datagrams |-> parsed[d] + Times(d)]
    BY DEF ParsePackets
  <1> HIDE DEF Times
  <1>7. parsed' \in [Datagrams -> Nat]
    BY <1>5, <1>6 DEF ParserTypeOK
  <1>8. skipped' \subseteq Datagrams
    BY <1>3 DEF ParsePackets, ParserTypeOK
  <1>9. working' \in [Workers -> Groups]
    <2>1. <<>> \in Groups
      BY DEF Groups
    <2> QED BY <2>1 DEF ParsePackets, ParserTypeOK
  <1> QED BY <1>7, <1>8, <1>9 DEF ParserTypeOK

\* The forwarder, the workers and Server.Stop do not touch the buffers.
LEMMA ReaderIInv ==
  ASSUME IInv, Forwarder \/ \E w \in Workers : Worker(w)
  PROVE  IInv'
  <1> USE IntakeAssumption DEF IntakeAssumption, IInv, TypeOK
  <1>1. /\ "listener" \in Goroutines /\ "packetLoop" \in Goroutines
        /\ "packetsLoop" \in Goroutines
    BY DEF Goroutines, Flushers
  <1>2. PICK g \in Goroutines \ Flushers, from, to \in Points : Goto(g, from, to)
    <2>1. CASE Forwarder
      BY <2>1 DEF Forwarder, ReceiveToForward, PassOn,
         ExitForwarder, Goroutines, Flushers, Points
    <2>2. CASE \E w \in Workers : Worker(w)
      <3>1. PICK w \in Workers : Worker(w)
        BY <2>2
      <3>2. w \in Goroutines \ Flushers
        BY DEF Goroutines, Flushers
      <3> QED BY <3>1, <3>2 DEF Worker, ReceivePackets, ParsePackets,
                 ExitWorker, Points
    <2> QED BY <2>1, <2>2
  <1>3. /\ pc' \in [Goroutines -> Points]
        /\ \A h \in Flushers : pc'[h] = pc[h]
    BY <1>1, <1>2, GotoMoves DEF Flushers
  <1>4. /\ UNCHANGED <<arrivals, message, packet, packetLength, packetMutex,
                       packets, packetsMutex>>
        /\ UNCHANGED closed
    BY DEF Forwarder, ReceiveToForward, PassOn, ExitForwarder,
           Worker, ReceivePackets, ParsePackets, ExitWorker, readVars,
           packetVars, packetsVars
  <1>5. Locking'
    BY <1>1, <1>3, <1>4 DEF Locking, Flushers
  <1>6. /\ QueueTypeOK' /\ ParserTypeOK'
    <2>1. CASE ReceiveToForward
      BY <2>1, HeadTailType DEF ReceiveToForward, QueueTypeOK, ParserTypeOK,
         WholeUnderMutex, parserVars
    <2>2. CASE PassOn
      <3>1. <<>> \in Groups
        BY DEF Groups
      <3> QED BY <2>2, <3>1, AppendType DEF PassOn, HasRoom,
                 QueueTypeOK, ParserTypeOK, WholeUnderMutex, parserVars
    <2>3. CASE ExitForwarder \/ \E w \in Workers : ExitWorker(w)
      BY <2>3 DEF ExitForwarder, ExitWorker, QueueTypeOK, ParserTypeOK,
         WholeUnderMutex, queueVars, parserVars
    <2>4. ASSUME NEW w \in Workers, ReceivePackets(w)
          PROVE  /\ QueueTypeOK' /\ ParserTypeOK'
      <3>1. CASE Forwarding
        <4>1. /\ packetsIn \in Seq(Groups) /\ packetsIn # <<>>
              /\ working' = [working EXCEPT ![w] = Head(packetsIn)]
              /\ packetsIn' = Tail(packetsIn)
              /\ UNCHANGED <<packetsChannel, held, parsed, skipped>>
          BY <2>4, <3>1 DEF ReceivePackets, QueueTypeOK
        <4>2. /\ Head(packetsIn) \in Groups /\ Tail(packetsIn) \in Seq(Groups)
              /\ Len(Tail(packetsIn)) = Len(packetsIn) - 1
          BY <4>1, HeadTailType
        <4> QED BY <4>1, <4>2 DEF QueueTypeOK, ParserTypeOK, WholeUnderMutex
      <3>2. CASE ~Forwarding
        <4>1. /\ packetsChannel \in Seq(Groups) /\ packetsChannel # <<>>
              /\ working' = [working EXCEPT ![w] = Head(packetsChannel)]
              /\ packetsChannel' = Tail(packetsChannel)
              /\ UNCHANGED <<packetsIn, held, parsed, skipped>>
          BY <2>4, <3>2 DEF ReceivePackets, QueueTypeOK
        <4>2. /\ Head(packetsChannel) \in Groups
              /\ Tail(packetsChannel) \in Seq(Groups)
              /\ Len(Tail(packetsChannel)) = Len(packetsChannel) - 1
          BY <4>1, HeadTailType
        <4> QED BY <4>1, <4>2 DEF QueueTypeOK, ParserTypeOK, WholeUnderMutex
      <3> QED BY <3>1, <3>2
    <2>5. ASSUME NEW w \in Workers, ParsePackets(w)
          PROVE  /\ QueueTypeOK' /\ ParserTypeOK'
      BY <2>5, ParseTypes DEF ParsePackets, QueueTypeOK, WholeUnderMutex,
         queueVars
    <2> QED BY <2>1, <2>2, <2>3, <2>4, <2>5 DEF Forwarder, Worker
  <1>7. TypeOK'
    BY <1>3, <1>4, <1>6 DEF BufferTypeOK, ControlTypeOK
  <1>8. WholeUnderMutex'
    BY <1>3, <1>4, <1>6 DEF WholeUnderMutex, BufferTypeOK
  <1> QED BY <1>5, <1>7, <1>8

\* Server.Stop and the closes it makes.
LEMMA StopIInv ==
  ASSUME IInv, Stop \/ CloseAll
  PROVE  IInv'
  <1> USE IntakeAssumption DEF IntakeAssumption, IInv, TypeOK
  <1>1. PICK from, to \in Points,
             c \in {"stopChan", "packetBuffer", "packetsBuffer", "conn"} :
          Close(from, to, c)
    BY DEF Stop, CloseAll, ClosePacketBuffer, ClosePacketsBuffer, CloseConn,
           Points
  <1>2. /\ "listener" \in Goroutines /\ "packetLoop" \in Goroutines
        /\ "packetsLoop" \in Goroutines /\ "stop" \in Goroutines
    BY DEF Goroutines, Flushers
  <1>3. /\ pc' \in [Goroutines -> Points]
        /\ \A h \in Flushers : pc'[h] = pc[h]
    BY <1>1, <1>2, GotoMoves DEF Flushers, Close
  <1>4. TypeOK'
    BY <1>1, <1>3 DEF Close, BufferTypeOK, QueueTypeOK, ParserTypeOK,
       ControlTypeOK, readVars, packetVars, packetsVars, queueVars, parserVars
  <1>5. Locking' /\ WholeUnderMutex'
    BY <1>1, <1>3 DEF Close, Locking, WholeUnderMutex, BufferTypeOK, Flushers,
       readVars, packetVars, packetsVars, queueVars
  <1> QED BY <1>4, <1>5

\* Every step, and every stuttering step, preserves the invariant.
LEMMA NextIInv == IInv /\ [Next]_vars => IInv'
  <1> SUFFICES ASSUME IInv, [Next]_vars PROVE IInv'
    OBVIOUS
  <1>1. CASE (\E d \in Datagrams : ReadFrom(d)) \/ ReadClosed
    BY <1>1, ListenerIInv
  <1>2. CASE AddMessage
    <2>1. "listener" \in Flushers
      BY DEF Flushers
    <2> QED BY <1>2, <2>1, ListenerIInv, AppendPacketIInv, SendPacketsIInv
            DEF AddMessage, Flush
  <1>3. CASE PacketLoop
    <2>1. "packetLoop" \in Flushers
      BY DEF Flushers
    <2> QED BY <1>3, <2>1, LoopIInv, AppendPacketIInv, SendPacketsIInv
            DEF PacketLoop, Flush
  <1>4. CASE PacketsLoop
    <2>1. "packetsLoop" \in Flushers
      BY DEF Flushers
    <2> QED BY <1>4, <2>1, LoopIInv, SendPacketsIInv DEF PacketsLoop
  <1>5. CASE ExitLoops
    BY <1>5, LoopIInv
  <1>6. CASE Forwarder \/ \E w \in Workers : Worker(w)
    BY <1>6, ReaderIInv
  <1>7. CASE Stop \/ CloseAll
    BY <1>7, StopIInv
  <1>8. CASE UNCHANGED vars
    BY <1>8 DEF vars, readVars, packetVars, packetsVars, queueVars,
       parserVars, IInv, TypeOK, BufferTypeOK, QueueTypeOK, ParserTypeOK,
       ControlTypeOK, Locking, WholeUnderMutex
  <1> QED BY <1>1, <1>2, <1>3, <1>4, <1>5, <1>6, <1>7, <1>8 DEF Next

(***************************************************************************)
(* The variables of the intake keep their types; a merge never makes the   *)
(* packet longer than its buffer.                                          *)
(***************************************************************************)
THEOREM TypeCorrect == Spec => []TypeOK
  <1>1. IInv => TypeOK
    BY DEF IInv
  <1> QED BY <1>1, InitIInv, NextIInv, PTL DEF Spec

(***************************************************************************)
(* Both mutexes exclude: of the listener and the two flush loops at most   *)
(* one flushes the packet and at most one sends, so that every group is    *)
(* sent whole and no packet is written to while it is sent.                *)
(***************************************************************************)
THEOREM GroupsKept == Spec => []GroupsWhole
  <1>1. IInv => GroupsWhole
    <2> SUFFICES ASSUME IInv PROVE GroupsWhole
      OBVIOUS
    <2> USE IntakeAssumption DEF IntakeAssumption, IInv
    <2>1. \A g \in Flushers : packetsMutex = g <=> pc[g] = "send"
      BY DEF Locking
    <2>2. packetsMutex \in Flushers \cup {None}
      BY DEF TypeOK, BufferTypeOK
    <2>3. \A g \in Flushers : pc[g] = "send" =>
            /\ packets # <<>>
            /\ \A h \in Flushers \ {g} : pc[h] # "send"
      BY <2>1 DEF WholeUnderMutex, Flushers
    <2>4. \A g \in Flushers : pc[g] = "send" /\ g # "packetsLoop" =>
            Len(packets) = PacketsBufferSize /\ packets[Len(packets)] = packet
      BY <2>1 DEF WholeUnderMutex, Flushers
    <2> QED BY <2>1, <2>2, <2>3, <2>4 DEF WholeUnderMutex, GroupsWhole
  <1> QED BY <1>1, InitIInv, NextIInv, PTL DEF Spec

-----------------------------------------------------------------------------
\* A set of natural numbers that is not empty has a least element.
LEMMA LeastNumber ==
  ASSUME NEW T \in SUBSET Nat, T # {}
  PROVE  \E n \in T : \A m \in T : ~(m < n)
  <1> DEFINE less == OpToRel(<, Nat)
  <1>1. IsWellFoundedOn(less, Nat)
    BY NatLessThanWellFounded, Zenon
  <1>2. PICK n \in T : \A m \in T : ~(<<m, n>> \in less)
    <2> HIDE DEF less
    <2> QED BY <1>1, WFMin
  <1>3. ASSUME NEW m \in T, m < n PROVE <<m, n>> \in less
    BY <1>3, Zenon DEF OpToRel
  <1> QED BY <1>2, <1>3

\* Induction: a set of natural numbers that contains 0 and, up to a bound,
\* with a number its successor, contains all numbers up to the bound.
LEMMA InductionUpTo ==
  ASSUME NEW bound \in Nat, NEW T, 0 \in T,
         \A n \in 0..bound : n \in T /\ n # bound => n + 1 \in T
  PROVE  0..bound \subseteq T
  <1> DEFINE missing == {n \in 0..bound : n \notin T}
  <1> SUFFICES ASSUME missing # {} PROVE FALSE
    OBVIOUS
  <1>1. missing \in SUBSET Nat
    OBVIOUS
  <1>2. PICK n \in missing : \A m \in missing : ~(m < n)
    <2> HIDE DEF missing
    <2> QED BY <1>1, LeastNumber
  <1>3. PICK m : m = n - 1
    OBVIOUS
  <1>4. m \in 0..bound /\ m # bound /\ m < n /\ n = m + 1
    BY <1>2, <1>3
  <1>5. m \in T
    BY <1>2, <1>4
  <1> QED BY <1>2, <1>4, <1>5

-----------------------------------------------------------------------------
\* Bytes copied up to a position, as a function that satisfies the equation
\* of PacketBytes.
BytesStep(p, f, i) ==
  IF i = 0 THEN 0 ELSE f[i - 1] + Size[p[i]] + (IF i = 1 THEN 0 ELSE 1)

CountsBytes(p, f, n) == f = [i \in 0..n |-> BytesStep(p, f, i)]

\* The equation at a position.
LEMMA CountsAt ==
  ASSUME NEW p, NEW f, NEW n \in Nat, CountsBytes(p, f, n), NEW i \in 0..n
  PROVE  f[i] = BytesStep(p, f, i)
  BY DEF CountsBytes

\* Two functions that satisfy the equation agree.
LEMMA BytesUnique ==
  ASSUME NEW p, NEW f, NEW g, NEW n \in Nat, NEW m \in Nat, n <= m,
         CountsBytes(p, f, n), CountsBytes(p, g, m)
  PROVE  f[n] = g[n]
  <1> DEFINE same == {i \in 0..n : f[i] = g[i]}
  <1>1. \A i \in 0..n : f[i] = BytesStep(p, f, i) /\ g[i] = BytesStep(p, g, i)
    BY CountsAt
  <1>2. 0 \in same
    <2>1. 0 \in 0..n
      OBVIOUS
    <2>2. f[0] = BytesStep(p, f, 0) /\ g[0] = BytesStep(p, g, 0)
      BY <1>1, <2>1
    <2>3. BytesStep(p, f, 0) = 0 /\ BytesStep(p, g, 0) = 0
      BY DEF BytesStep
    <2> QED BY <2>1, <2>2, <2>3
  <1>3. ASSUME NEW i \in 0..n, i \in same, i # n PROVE i + 1 \in same
    <2>1. PICK j : j = i + 1
      OBVIOUS
    <2>2. j \in 0..n /\ j # 0 /\ j - 1 = i
      BY <2>1, <1>3
    <2>3. f[j] = BytesStep(p, f, j) /\ g[j] = BytesStep(p, g, j)
      BY <1>1, <2>2
    <2>4. f[j] = g[j]
      BY <2>2, <2>3, <1>3 DEF BytesStep
    <2> QED BY <2>1, <2>2, <2>4
  <1>4. 0..n \subseteq same
    <2> HIDE DEF same
    <2> QED BY <1>2, <1>3, InductionUpTo
  <1> QED BY <1>4

\* There is such a function.
LEMMA BytesExists ==
  ASSUME NEW p \in Seq(Datagrams)
  PROVE  \E f \in [0..Len(p) -> Nat] : CountsBytes(p, f, Len(p))
  <1> USE IntakeAssumption DEF IntakeAssumption
  <1> DEFINE done == {n \in 0..Len(p) :
                        \E f \in [0..n -> Nat] : CountsBytes(p, f, n)}
  <1>1. 0 \in done
    <2>1. [i \in 0..0 |-> 0] \in [0..0 -> Nat]
      OBVIOUS
    <2>2. CountsBytes(p, [i \in 0..0 |-> 0], 0)
      BY DEF CountsBytes, BytesStep
    <2> QED BY <2>1, <2>2
  <1>2. ASSUME NEW n \in 0..Len(p), n \in done, n # Len(p) PROVE n + 1 \in done
    <2>1. PICK f \in [0..n -> Nat] : CountsBytes(p, f, n)
      BY <1>2
    <2>2. PICK m : m = n + 1
      OBVIOUS
    <2>3. m \in 1..Len(p) /\ m # 0 /\ m - 1 = n /\ p[m] \in Datagrams
      BY <1>2, <2>2
    <2> DEFINE last == f[n] + Size[p[m]] + (IF m = 1 THEN 0 ELSE 1)
    <2> DEFINE g == [i \in 0..m |-> IF i = m THEN last ELSE f[i]]
    <2>4. last \in Nat
      BY <2>3
    <2>5. g \in [0..m -> Nat]
      BY <2>4, <2>2, <2>3
    <2>6. ASSUME NEW i \in 0..m PROVE g[i] = BytesStep(p, g, i)
      <3>1. CASE i = m
        BY <3>1, <2>3 DEF BytesStep
      <3>2. CASE i # m
        <4>1. i \in 0..n
          BY <3>2, <2>2, <2>3
        <4>2. f[i] = BytesStep(p, f, i)
          BY <4>1, <2>1 DEF CountsBytes
        <4>3. i # 0 => g[i - 1] = f[i - 1]
          BY <4>1, <2>2
        <4> QED BY <4>1, <4>2, <4>3, <3>2 DEF BytesStep
      <3> QED BY <3>1, <3>2
    <2>7. CountsBytes(p, g, m)
      BY <2>5, <2>6 DEF CountsBytes
    <2> HIDE DEF g
    <2>8. \E h \in [0..m -> Nat] : CountsBytes(p, h, m)
      BY <2>5, <2>7
    <2>9. m \in 0..Len(p)
      BY <2>3
    <2>10. m \in done
      BY <2>8, <2>9
    <2> QED BY <2>2, <2>10
  <1>3. PICK bound \in Nat : bound = Len(p)
    OBVIOUS
  <1>4. 0..bound \subseteq done
    <2>1. \A n \in 0..bound : n \in done /\ n # bound => n + 1 \in done
      BY <1>2, <1>3
    <2> HIDE DEF done
    <2> QED BY <1>1, <2>1, InductionUpTo
  <1>5. Len(p) \in done
    BY <1>3, <1>4
  <1> QED BY <1>5

\* What PacketBytes is.
LEMMA BytesIs ==
  ASSUME NEW p \in Seq(Datagrams), NEW f, CountsBytes(p, f, Len(p))
  PROVE  PacketBytes(p) = f[Len(p)]
  <1> DEFINE g == CHOOSE h : CountsBytes(p, h, Len(p))
  <1>1. CountsBytes(p, g, Len(p))
    OBVIOUS
  <1>2. PacketBytes(p) = g[Len(p)]
    BY DEF PacketBytes, CountsBytes, BytesStep
  <1> HIDE DEF g
  <1>3. g[Len(p)] = f[Len(p)]
    BY <1>1, BytesUnique
  <1> QED BY <1>2, <1>3

\* The bytes of the empty packet.
LEMMA BytesEmpty == PacketBytes(<<>>) = 0
  <1>1. PICK p : p = <<>>
    OBVIOUS
  <1>2. p \in Seq(Datagrams) /\ Len(p) = 0 /\ 0 \in 0..0
    BY <1>1
  <1>3. PICK f : CountsBytes(p, f, 0)
    BY <1>2, BytesExists
  <1>4. PacketBytes(p) = f[0]
    BY <1>2, <1>3, BytesIs
  <1>5. f[0] = BytesStep(p, f, 0)
    BY <1>2, <1>3, CountsAt
  <1> QED BY <1>1, <1>4, <1>5 DEF BytesStep

\* The bytes of a packet with one more datagram.
LEMMA BytesAppend ==
  ASSUME NEW p \in Seq(Datagrams), NEW d \in Datagrams
  PROVE  PacketBytes(Append(p, d))
           = PacketBytes(p) + Size[d] + (IF p = <<>> THEN 0 ELSE 1)
  <1>1. PICK q : q = Append(p, d)
    OBVIOUS
  <1>2. PICK n : n = Len(p)
    OBVIOUS
  <1>3. PICK m : m = n + 1
    OBVIOUS
  <1>4. /\ q \in Seq(Datagrams) /\ Len(q) = m /\ n \in Nat /\ m \in Nat
        /\ n <= m /\ m - 1 = n /\ m # 0 /\ q[m] = d
        /\ \A i \in 1..n : q[i] = p[i]
    BY <1>1, <1>2, <1>3
  <1>5. PICK g \in [0..m -> Nat] : CountsBytes(q, g, m)
    BY <1>4, BytesExists
  <1>6. PICK f \in [0..n -> Nat] : CountsBytes(p, f, n)
    BY <1>2, BytesExists
  <1>7. PacketBytes(q) = g[m] /\ PacketBytes(p) = f[n]
    BY <1>2, <1>4, <1>5, <1>6, BytesIs
  <1>8. CountsBytes(q, f, n)
    <2>1. \A i \in 0..n : BytesStep(p, f, i) = BytesStep(q, f, i)
      BY <1>4 DEF BytesStep
    <2> QED BY <2>1, <1>6 DEF CountsBytes
  <1>9. f[n] = g[n]
    <2>1. n \in Nat /\ m \in Nat /\ n <= m
      BY <1>4
    <2> QED BY <2>1, <1>5, <1>8, BytesUnique
  <1>10. g[m] = g[n] + Size[d] + (IF m = 1 THEN 0 ELSE 1)
    <2>1. g[m] = BytesStep(q, g, m)
      <3>1. m \in 0..m
        BY <1>4
      <3> QED BY <3>1, <1>4, <1>5, CountsAt
    <2> QED BY <2>1, <1>4 DEF BytesStep
  <1>11. m = 1 <=> p = <<>>
    BY <1>2, <1>3, <1>4
  <1> QED BY <1>1, <1>7, <1>9, <1>10, <1>11

\* The elements of a sequence with one more.
LEMMA AppendElements ==
  ASSUME NEW q \in Seq(Datagrams), NEW e \in Datagrams
  PROVE  Elements(Append(q, e)) = Elements(q) \cup {e}
  <1>1. PICK a : a = Append(q, e)
    OBVIOUS
  <1>2. /\ Len(a) = Len(q) + 1 /\ a[Len(q) + 1] = e
        /\ \A i \in 1..Len(q) : a[i] = q[i]
    BY <1>1
  <1>3. Elements(a) \subseteq Elements(q) \cup {e}
    BY <1>2 DEF Elements
  <1>4. Elements(q) \subseteq Elements(a) /\ e \in Elements(a)
    BY <1>2 DEF Elements
  <1> QED BY <1>1, <1>3, <1>4

\* The datagrams of a group that grows by a packet.
LEMMA GroupAppend ==
  ASSUME NEW g \in Groups, NEW p \in Seq(Datagrams)
  PROVE  InGroup(Append(g, p)) = InGroup(g) \cup Elements(p)
  <1>1. PICK a : a = Append(g, p)
    OBVIOUS
  <1>2. /\ Len(a) = Len(g) + 1 /\ a[Len(g) + 1] = p
        /\ \A i \in 1..Len(g) : a[i] = g[i]
    BY <1>1 DEF Groups
  <1>3. InGroup(a) \subseteq InGroup(g) \cup Elements(p)
    BY <1>2 DEF InGroup, Groups
  <1>4. InGroup(g) \subseteq InGroup(a)
    BY <1>2 DEF InGroup, Groups
  <1>5. Elements(p) \subseteq InGroup(a)
    <2>1. Len(g) + 1 \in 1..Len(a)
      BY <1>2 DEF Groups
    <2> QED BY <1>2, <2>1 DEF InGroup
  <1> QED BY <1>1, <1>3, <1>4, <1>5

\* The datagrams of a queue that grows by a group.
LEMMA QueueAppend ==
  ASSUME NEW q \in Seq(Groups), NEW g \in Groups
  PROVE  InQueue(Append(q, g)) = InQueue(q) \cup InGroup(g)
  <1>1. PICK a : a = Append(q, g)
    OBVIOUS
  <1>2. /\ Len(a) = Len(q) + 1 /\ a[Len(q) + 1] = g
        /\ \A i \in 1..Len(q) : a[i] = q[i]
    BY <1>1
  <1>3. InQueue(a) \subseteq InQueue(q) \cup InGroup(g)
    BY <1>2 DEF InQueue
  <1>4. InQueue(q) \subseteq InQueue(a) /\ InGroup(g) \subseteq InQueue(a)
    BY <1>2 DEF InQueue
  <1> QED BY <1>1, <1>3, <1>4

\* The datagrams of an empty packet, group or queue.
LEMMA NothingInEmpty ==
  Elements(<<>>) = {} /\ InGroup(<<>>) = {} /\ InQueue(<<>>) = {}
  BY DEF Elements, InGroup, InQueue

\* A queue is its head and its tail.
LEMMA QueueHead ==
  ASSUME NEW q \in Seq(Groups), q # <<>>
  PROVE  InQueue(q) = InGroup(Head(q)) \cup InQueue(Tail(q))
  <1>1. PICK t : t = Tail(q)
    OBVIOUS
  <1>2. /\ Len(t) = Len(q) - 1 /\ Head(q) = q[1] /\ Len(q) \in Nat \ {0}
        /\ \A i \in 1..Len(t) : t[i] = q[i + 1]
    BY <1>1
  <1>3. ASSUME NEW i \in 1..Len(q)
        PROVE  q[i] = q[1] \/ \E j \in 1..Len(t) : q[i] = t[j]
    <2>1. CASE i = 1
      BY <2>1
    <2>2. CASE i # 1
      <3>1. PICK j : j = i - 1
        OBVIOUS
      <3>2. j \in 1..Len(t) /\ i = j + 1
        BY <1>2, <2>2, <3>1
      <3> QED BY <1>2, <3>2
    <2> QED BY <2>1, <2>2
  <1>4. InQueue(q) \subseteq InGroup(q[1]) \cup InQueue(t)
    BY <1>3 DEF InQueue
  <1>5. InGroup(q[1]) \subseteq InQueue(q)
    BY <1>2 DEF InQueue
  <1>6. InQueue(t) \subseteq InQueue(q)
    <2>1. \A j \in 1..Len(t) : j + 1 \in 1..Len(q)
      BY <1>2
    <2> QED BY <1>2, <2>1 DEF InQueue
  <1> QED BY <1>1, <1>2, <1>4, <1>5, <1>6

\* A packet in order with one more datagram, read after the others.
LEMMA PacketOrderAppend ==
  ASSUME NEW p \in Seq(Datagrams), NEW d \in Datagrams, NEW R,
         PacketInOrder(p, R), Ahead(Elements(p), {d}, R)
  PROVE  PacketInOrder(Append(p, d), R)
  <1>1. PICK a : a = Append(p, d)
    OBVIOUS
  <1>2. /\ Len(a) = Len(p) + 1 /\ a[Len(p) + 1] = d
        /\ \A i \in 1..Len(p) : a[i] = p[i]
    BY <1>1
  <1>3. ASSUME NEW j \in 1..Len(a), NEW i \in 1..(j - 1)
        PROVE  <<a[i], a[j]>> \in R
    <2>0. i \in 1..Len(p)
      BY <1>2
    <2>1. CASE j = Len(p) + 1
      BY <1>2, <2>0, <2>1 DEF Ahead, Elements
    <2>2. CASE j # Len(p) + 1
      <3>1. j \in 1..Len(p)
        BY <1>2, <2>2
      <3> QED BY <1>2, <2>0, <3>1 DEF PacketInOrder
    <2> QED BY <2>1, <2>2
  <1>4. PacketInOrder(a, R)
    BY <1>3 DEF PacketInOrder
  <1> QED BY <1>1, <1>4

\* The same for a packet behind a group.
LEMMA GroupOrderAppend ==
  ASSUME NEW g \in Groups, NEW p \in Seq(Datagrams), NEW R,
         GroupInOrder(g, R), PacketInOrder(p, R), Ahead(InGroup(g), Elements(p), R)
  PROVE  GroupInOrder(Append(g, p), R)
  <1>1. PICK a : a = Append(g, p)
    OBVIOUS
  <1>2. /\ Len(a) = Len(g) + 1 /\ a[Len(g) + 1] = p /\ Len(g) \in Nat
        /\ \A i \in 1..Len(g) : a[i] = g[i]
    BY <1>1 DEF Groups
  <1>3. ASSUME NEW j \in 1..Len(a)
        PROVE  /\ PacketInOrder(a[j], R)
               /\ \A i \in 1..(j - 1) : Ahead(Elements(a[i]), Elements(a[j]), R)
    <2>1. CASE j = Len(g) + 1
      <3>1. ASSUME NEW i \in 1..(j - 1) PROVE Ahead(Elements(a[i]), Elements(p), R)
        <4>1. i \in 1..Len(g) /\ a[i] = g[i]
          BY <1>2, <2>1
        <4>2. Elements(g[i]) \subseteq InGroup(g)
          BY <4>1 DEF InGroup
        <4> QED BY <4>1, <4>2 DEF Ahead
      <3> QED BY <1>2, <2>1, <3>1
    <2>2. CASE j # Len(g) + 1
      <3>1. j \in 1..Len(g) /\ a[j] = g[j] /\ \A i \in 1..(j - 1) : a[i] = g[i]
        BY <1>2, <2>2
      <3> QED BY <3>1 DEF GroupInOrder
    <2> QED BY <2>1, <2>2
  <1>4. GroupInOrder(a, R)
    BY <1>3 DEF GroupInOrder
  <1> QED BY <1>1, <1>4

\* The same for a group behind a queue.
LEMMA QueueOrderAppend ==
  ASSUME NEW q \in Seq(Groups), NEW g \in Groups, NEW R,
         QueueInOrder(q, R), GroupInOrder(g, R), Ahead(InQueue(q), InGroup(g), R)
  PROVE  QueueInOrder(Append(q, g), R)
  <1>1. PICK a : a = Append(q, g)
    OBVIOUS
  <1>2. /\ Len(a) = Len(q) + 1 /\ a[Len(q) + 1] = g /\ Len(q) \in Nat
        /\ \A i \in 1..Len(q) : a[i] = q[i]
    BY <1>1
  <1>3. ASSUME NEW j \in 1..Len(a)
        PROVE  /\ GroupInOrder(a[j], R)
               /\ \A i \in 1..(j - 1) : Ahead(InGroup(a[i]), InGroup(a[j]), R)
    <2>1. CASE j = Len(q) + 1
      <3>1. ASSUME NEW i \in 1..(j - 1) PROVE Ahead(InGroup(a[i]), InGroup(g), R)
        <4>1. i \in 1..Len(q) /\ a[i] = q[i]
          BY <1>2, <2>1
        <4>2. InGroup(q[i]) \subseteq InQueue(q)
          BY <4>1 DEF InQueue
        <4> QED BY <4>1, <4>2 DEF Ahead
      <3> QED BY <1>2, <2>1, <3>1
    <2>2. CASE j # Len(q) + 1
      <3>1. j \in 1..Len(q) /\ a[j] = q[j] /\ \A i \in 1..(j - 1) : a[i] = q[i]
        BY <1>2, <2>2
      <3> QED BY <3>1 DEF QueueInOrder
    <2> QED BY <2>1, <2>2
  <1>4. QueueInOrder(a, R)
    BY <1>3 DEF QueueInOrder
  <1> QED BY <1>1, <1>4

\* The head of a queue in order is ahead of the tail.
LEMMA QueueOrderHead ==
  ASSUME NEW q \in Seq(Groups), q # <<>>, NEW R, QueueInOrder(q, R)
  PROVE  /\ GroupInOrder(Head(q), R)
         /\ QueueInOrder(Tail(q), R)
         /\ Ahead(InGroup(Head(q)), InQueue(Tail(q)), R)
  <1>1. PICK t : t = Tail(q)
    OBVIOUS
  <1>2. /\ Len(t) = Len(q) - 1 /\ Head(q) = q[1] /\ Len(q) \in Nat \ {0}
        /\ \A i \in 1..Len(t) : t[i] = q[i + 1]
    BY <1>1
  <1>3. GroupInOrder(Head(q), R)
    BY <1>2 DEF QueueInOrder
  <1>4. ASSUME NEW l \in 1..Len(t)
        PROVE  /\ GroupInOrder(t[l], R)
               /\ \A k \in 1..(l - 1) : Ahead(InGroup(t[k]), InGroup(t[l]), R)
               /\ Ahead(InGroup(q[1]), InGroup(t[l]), R)
    <2>1. PICK m : m = l + 1
      OBVIOUS
    <2>2. m \in 1..Len(q) /\ t[l] = q[m] /\ 1 \in 1..(m - 1)
      BY <1>2, <2>1
    <2>3. ASSUME NEW k \in 1..(l - 1) PROVE Ahead(InGroup(t[k]), InGroup(t[l]), R)
      <3>1. PICK n : n = k + 1
        OBVIOUS
      <3>2. n \in 1..(m - 1) /\ t[k] = q[n]
        BY <1>2, <2>1, <3>1
      <3> QED BY <2>2, <3>2 DEF QueueInOrder
    <2> QED BY <2>2, <2>3 DEF QueueInOrder
  <1>5. QueueInOrder(t, R)
    BY <1>4 DEF QueueInOrder
  <1>6. Ahead(InGroup(q[1]), InQueue(t), R)
    BY <1>4 DEF InQueue, Ahead
  <1> QED BY <1>1, <1>2, <1>3, <1>5, <1>6

\* What is in order stays so when the order grows.
LEMMA OrderGrows ==
  ASSUME NEW R, NEW T, R \subseteq T
  PROVE  /\ \A p : PacketInOrder(p, R) => PacketInOrder(p, T)
         /\ \A A, B : Ahead(A, B, R) => Ahead(A, B, T)
         /\ \A g : GroupInOrder(g, R) => GroupInOrder(g, T)
         /\ \A q : QueueInOrder(q, R) => QueueInOrder(q, T)
  <1>1. \A p : PacketInOrder(p, R) => PacketInOrder(p, T)
    BY DEF PacketInOrder
  <1>2. \A A, B : Ahead(A, B, R) => Ahead(A, B, T)
    BY DEF Ahead
  <1>3. \A g : GroupInOrder(g, R) => GroupInOrder(g, T)
    BY <1>1, <1>2 DEF GroupInOrder
  <1>4. \A q : QueueInOrder(q, R) => QueueInOrder(q, T)
    BY <1>2, <1>3 DEF QueueInOrder
  <1> QED BY <1>1, <1>2, <1>3, <1>4

-----------------------------------------------------------------------------
\* Moves between the stages that keep them one behind the other: a message
\* is placed in the packet, or vanishes if it is empty,
LEMMA LinedPlace ==
  ASSUME NEW a, NEW b, NEW c, NEW d, NEW e, NEW m, NEW R, NEW x, x \subseteq m,
         Lined(a, b, c, d, e, m, R)
  PROVE  Lined(a, b, c, d, e \cup x, {}, R)
  BY DEF Lined, Ahead

\* a packet is appended to the group,
LEMMA LinedAppend ==
  ASSUME NEW a, NEW b, NEW c, NEW d, NEW e, NEW m, NEW R,
         Lined(a, b, c, d, e, m, R)
  PROVE  Lined(a, b, c, d \cup e, {}, m, R)
  BY DEF Lined, Ahead

\* a group is sent to the channel,
LEMMA LinedSend ==
  ASSUME NEW a, NEW b, NEW c, NEW d, NEW e, NEW m, NEW R,
         Lined(a, b, c, d, e, m, R)
  PROVE  Lined(a, b, c \cup d, {}, e, m, R)
  BY DEF Lined, Ahead

\* the forwarder receives a group,
LEMMA LinedForward ==
  ASSUME NEW a, NEW h, NEW c, NEW d, NEW e, NEW m, NEW R,
         Lined(a, {}, h \cup c, d, e, m, R), Ahead(h, c, R)
  PROVE  Lined(a, h, c, d, e, m, R)
  BY DEF Lined, Ahead

\* and passes it on,
LEMMA LinedPass ==
  ASSUME NEW a, NEW b, NEW c, NEW d, NEW e, NEW m, NEW R,
         Lined(a, b, c, d, e, m, R)
  PROVE  Lined(a \cup b, {}, c, d, e, m, R)
  BY DEF Lined, Ahead

\* a worker takes a group.
LEMMA LinedTake ==
  ASSUME NEW a, NEW b, NEW c, NEW d, NEW e, NEW m, NEW R, NEW a2, NEW c2,
         Lined(a, b, c, d, e, m, R), a2 \subseteq a, c2 \subseteq c
  PROVE  Lined(a2, b, c2, d, e, m, R)
  BY DEF Lined, Ahead

\* A datagram is read: it comes after all that were read before.
LEMMA LinedRead ==
  ASSUME NEW a, NEW b, NEW c, NEW d, NEW e, NEW R, NEW T, NEW x,
         Lined(a, b, c, d, e, {}, R), R \subseteq T,
         \A y \in a \cup b \cup c \cup d \cup e : <<y, x>> \in T
  PROVE  Lined(a, b, c, d, e, {x}, T)
  BY DEF Lined, Ahead

\* Steps that read nothing and skip nothing keep the order of arrival.
LEMMA ArrivalsKept ==
  ASSUME IntakeStages, UNCHANGED <<arrivals, skipped>>
  PROVE  ReadBefore' = ReadBefore /\ ReadOnce' /\ SkippedLate'
  <1>1. ReadBefore' = ReadBefore
    BY DEF ReadBefore
  <1>2. ReadOnce'
    BY DEF IntakeStages, ReadOnce
  <1>3. SkippedLate'
    BY <1>1 DEF IntakeStages, SkippedLate, EndsParsing
  <1> QED BY <1>1, <1>2, <1>3

\* What waits stays apart from the rest while it is moved along, even when
\* an empty datagram vanishes.
LEMMA ApartKept ==
  ASSUME IntakeStages, UNCHANGED <<arrivals, working, parsed, skipped>>,
         Waiting' \subseteq Waiting,
         {d \in Waiting : Size[d] > 0} \subseteq Waiting'
  PROVE  Apart' /\ Complete'
  <1>1. Taken' = Taken /\ Seen' = Seen
    BY DEF Taken, Seen
  <1>2. Apart'
    BY <1>1 DEF IntakeStages, Apart
  <1>3. Complete'
    <2>1. Elements(arrivals)' = Elements(arrivals)
      OBVIOUS
    <2>2. Waiting' \cup Taken' \cup Seen' \subseteq Elements(arrivals)'
      BY <1>1, <2>1 DEF IntakeStages, Complete
    <2>3. ASSUME NEW d \in Elements(arrivals)', Size[d] > 0
          PROVE  d \in Waiting' \cup Taken' \cup Seen'
      <3>1. d \in Waiting \cup Taken \cup Seen
        BY <2>1, <2>3 DEF IntakeStages, Complete
      <3> QED BY <1>1, <2>3, <3>1
    <2> QED BY <2>2, <2>3 DEF Complete
  <1> QED BY <1>2, <1>3

\* Steps that move no datagram.
LEMMA StagesKept ==
  ASSUME IntakeStages, HandsEmpty', Elements(Pending)' = Elements(Pending),
         UNCHANGED <<arrivals, message, packet, packetLength, packets,
                     packetsChannel, packetsIn, held, working, parsed, skipped>>
  PROVE  IntakeStages'
  <1>1. ReadBefore' = ReadBefore /\ ReadOnce' /\ SkippedLate'
    BY ArrivalsKept
  <1>2. PacketExact'
    BY DEF IntakeStages, PacketExact
  <1>3. StagesLined' /\ Waiting' = Waiting
    BY <1>1 DEF IntakeStages, StagesLined, Waiting, Unplaced
  <1>4. EachInOrder'
    BY <1>1 DEF IntakeStages, EachInOrder
  <1>5. Apart' /\ Complete'
    BY <1>3, ApartKept
  <1> QED BY <1>1, <1>2, <1>3, <1>4, <1>5 DEF IntakeStages

\* The packet while no flush of it has reached packets.
LEMMA PendingIs ==
  ASSUME IInv
  PROVE  /\ packetMutex = None => Pending = packet
         /\ \A g \in {"listener", "packetLoop"} :
              /\ pc[g] = "append" => Pending = packet
              /\ pc[g] = "send" => Pending = <<>>
  BY IntakeAssumption DEF IntakeAssumption, IInv, Locking, Pending, TypeOK, BufferTypeOK

\* The steps of the listener and the loops that move no datagram.
LEMMA QuietStages ==
  ASSUME IInv, IntakeStages,
         \/ ReadClosed \/ OverflowPacket
         \/ TickPacket \/ LockPacket \/ TickPackets \/ LockPackets \/ ExitLoops
  PROVE  IntakeStages'
  <1> USE IntakeAssumption DEF IntakeAssumption
  <1> USE DEF ReadClosed, OverflowPacket, Overflow, TickPacket, LockPacket,
              LockPacketThen, TickPackets, LockPackets, LockPacketsThen,
              ExitLoops, ExitLoop
  <1>1. UNCHANGED <<arrivals, message, packet, packetLength, packets,
                    packetsChannel, packetsIn, held, working, parsed, skipped>>
    BY DEF readVars, packetVars, packetsVars, queueVars, parserVars
  <1>2. PICK g \in Flushers, from \in Points, to \in Points : Goto(g, from, to)
    BY DEF Flushers, Points
  <1>3. /\ pc'["forwarder"] = pc["forwarder"]
        /\ \A w \in Workers : pc'[w] = pc[w]
    BY <1>2 DEF Goto, IInv, TypeOK, ControlTypeOK, Goroutines, Flushers
  <1>4. HandsEmpty'
    BY <1>1, <1>3 DEF IntakeStages, HandsEmpty
  <1>5. Pending' = Pending
    <2>1. CASE OverflowPacket
      <3>1. pc'["listener"] = "append" /\ packetMutex = None
        BY <2>1 DEF Goto, IInv, TypeOK, ControlTypeOK, Goroutines, Flushers
      <3>2. packetMutex' = "listener"
        BY <2>1
      <3> QED BY <3>1, <3>2, <1>1, PendingIs DEF Pending
    <2>2. CASE LockPacket
      <3>1. packetMutex = None
        BY <2>2
      <3>2. \/ packetMutex' = None
            \/ packetMutex' = "packetLoop" /\ pc'["packetLoop"] = "append"
        BY <2>2 DEF Goto, IInv, TypeOK, ControlTypeOK, Goroutines, Flushers
      <3> QED BY <3>1, <3>2, <1>1, PendingIs DEF Pending
    <2>3. CASE ReadClosed \/ TickPacket \/ TickPackets \/ LockPackets \/ ExitLoops
      <3>1. UNCHANGED packetMutex
        BY <2>3 DEF packetVars
      <3>2. \A h \in {"listener", "packetLoop"} : pc[h] = "send" <=> pc'[h] = "send"
        BY <2>3 DEF Goto, IInv, TypeOK, ControlTypeOK, Goroutines, Flushers
      <3> QED BY <3>1, <3>2, <1>1 DEF Pending, IInv, TypeOK, BufferTypeOK
    <2> QED BY <2>1, <2>2, <2>3
  <1> QED BY <1>1, <1>4, <1>5, StagesKept

\* The steps of the readers and of Stop that move no datagram.
LEMMA ExitStages ==
  ASSUME IInv, IntakeStages,
         \/ ExitForwarder \/ (\E w \in Workers : ExitWorker(w)) \/ Stop \/ CloseAll
  PROVE  IntakeStages'
  <1> USE IntakeAssumption DEF IntakeAssumption
  <1> USE DEF ExitForwarder, ExitWorker, Stop, CloseAll, ClosePacketBuffer,
              ClosePacketsBuffer, CloseConn, Close
  <1>1. UNCHANGED <<arrivals, message, packet, packetLength, packetMutex, packets,
                    packetsChannel, packetsIn, held, working, parsed, skipped>>
    BY DEF readVars, packetVars, packetsVars, queueVars, parserVars
  <1>2. PICK g \in {"forwarder", "stop"} \cup Workers,
             from \in Points \ {"send", "parse"}, to \in Points :
               Goto(g, from, to)
    BY DEF Points
  <1>3. g \in Goroutines /\ g \notin Flushers
    BY DEF Goroutines, Flushers
  <1>4. pc' = [pc EXCEPT ![g] = to] /\ pc \in [Goroutines -> Points] /\ pc[g] = from
    BY <1>2 DEF Goto, IInv, TypeOK, ControlTypeOK
  <1>5. HandsEmpty'
    BY <1>1, <1>3, <1>4 DEF IntakeStages, HandsEmpty, Goroutines
  <1>6. Pending' = Pending
    BY <1>1, <1>3, <1>4 DEF Pending, IInv, TypeOK, BufferTypeOK, Flushers, Goroutines
  <1> QED BY <1>1, <1>5, <1>6, StagesKept

\* The listener reads a datagram: it comes behind all that are on the way.
LEMMA ReadFromStages ==
  ASSUME IInv, IntakeStages, NEW d \in Datagrams, ReadFrom(d)
  PROVE  IntakeStages'
  <1> USE IntakeAssumption DEF IntakeAssumption
  <1>1. UNCHANGED <<packet, packetLength, packetMutex, packets,
                    packetsChannel, packetsIn, held, working, parsed, skipped>>
    BY DEF ReadFrom, packetVars, packetsVars, queueVars, parserVars
  <1>2. /\ arrivals \in Seq(Datagrams) /\ arrivals' = Append(arrivals, d)
        /\ message = None /\ message' = d /\ d # None
        /\ d \notin Elements(arrivals)
    BY DEF ReadFrom, Goto, IInv, Locking, TypeOK, BufferTypeOK
  <1>3. /\ Len(arrivals') = Len(arrivals) + 1 /\ Len(arrivals) \in Nat
        /\ arrivals'[Len(arrivals) + 1] = d
        /\ \A i \in 1..Len(arrivals) : arrivals'[i] = arrivals[i]
    BY <1>2
  <1>4. ReadBefore \subseteq ReadBefore'
    BY <1>3 DEF ReadBefore
  <1>5. \A e \in Elements(arrivals) : <<e, d>> \in ReadBefore'
    <2>1. SUFFICES ASSUME NEW k \in 1..Len(arrivals) PROVE <<arrivals[k], d>> \in ReadBefore'
      BY DEF Elements
    <2>2. PICK l : l = Len(arrivals) + 1
      OBVIOUS
    <2>3. /\ l \in 1..Len(arrivals') /\ k \in 1..(l - 1) /\ arrivals'[l] = d
          /\ arrivals'[k] = arrivals[k] /\ arrivals[k] \in Datagrams
      BY <1>2, <1>3, <2>2
    <2> QED BY <2>3 DEF ReadBefore
  <1>6. Unplaced = {} /\ Unplaced' = {d}
    BY <1>2 DEF Unplaced
  <1>7. UNCHANGED Pending
    <2>1. pc' = [pc EXCEPT !["listener"] = "add"] /\ pc["listener"] = "read"
          /\ pc \in [Goroutines -> Points] /\ "listener" \in Goroutines
      BY DEF ReadFrom, Goto, IInv, TypeOK, ControlTypeOK, Goroutines, Flushers
    <2> QED BY <1>1, <2>1 DEF Pending, IInv, TypeOK, BufferTypeOK
  <1>8. HandsEmpty'
    <2>1. /\ pc'["forwarder"] = pc["forwarder"]
          /\ \A w \in Workers : pc'[w] = pc[w]
      BY DEF ReadFrom, Goto, IInv, TypeOK, ControlTypeOK, Goroutines, Flushers
    <2> QED BY <1>1, <2>1 DEF IntakeStages, HandsEmpty
  <1>9. Waiting' = Waiting \cup {d} /\ Taken' = Taken /\ Seen' = Seen
    <2>1. Taken' = Taken /\ Seen' = Seen
      BY <1>1 DEF Taken, Seen
    <2>2. PICK rest : rest = InQueue(packetsIn) \cup InGroup(held) \cup InQueue(packetsChannel)
                               \cup InGroup(packets) \cup Elements(Pending)
      OBVIOUS
    <2>3. Waiting = rest \cup Unplaced
      BY <2>2 DEF Waiting
    <2>4. Waiting' = rest \cup Unplaced'
      BY <1>1, <1>7, <2>2 DEF Waiting
    <2> QED BY <1>6, <2>1, <2>3, <2>4
  <1>10. Elements(arrivals)' = Elements(arrivals) \cup {d}
    <2>1. Elements(Append(arrivals, d)) = Elements(arrivals) \cup {d}
      BY <1>2, AppendElements
    <2> QED BY <1>2, <2>1
  <1>11. Waiting \cup Taken \cup Seen \subseteq Elements(arrivals)
    BY DEF IntakeStages, Complete
  <1>12. Complete'
    <2>1. {e \in Elements(arrivals) : Size[e] > 0} \subseteq Waiting \cup Taken \cup Seen
      BY DEF IntakeStages, Complete
    <2> QED BY <1>9, <1>10, <1>11, <2>1 DEF Complete
  <1>13. Apart'
    <2>1. d \notin Taken /\ d \notin Seen
      BY <1>2, <1>11
    <2> QED BY <1>1, <1>9, <2>1 DEF IntakeStages, Apart
  <1>14. StagesLined'
    <2>1. PICK order : order = ReadBefore'
      OBVIOUS
    <2>2. \A e \in InQueue(packetsIn) \cup InGroup(held) \cup InQueue(packetsChannel)
                     \cup InGroup(packets) \cup Elements(Pending) : <<e, d>> \in order
      BY <1>5, <1>11, <2>1 DEF Waiting
    <2>3. Lined(InQueue(packetsIn), InGroup(held), InQueue(packetsChannel),
                InGroup(packets), Elements(Pending), {}, ReadBefore)
      BY <1>6 DEF IntakeStages, StagesLined
    <2>4. Lined(InQueue(packetsIn), InGroup(held), InQueue(packetsChannel),
                InGroup(packets), Elements(Pending), {d}, order)
      BY <1>4, <2>1, <2>2, <2>3, LinedRead
    <2> QED BY <1>1, <1>6, <1>7, <2>1, <2>4 DEF StagesLined
  <1>15. EachInOrder'
    <2>1. PICK order : order = ReadBefore'
      OBVIOUS
    <2>2. ReadBefore \subseteq order
      BY <1>4, <2>1
    <2> QED BY <1>1, <2>1, <2>2, OrderGrows DEF IntakeStages, EachInOrder
  <1>16. PacketExact'
    BY <1>1 DEF IntakeStages, PacketExact
  <1>17. ReadOnce'
    <2>1. \A i \in 1..Len(arrivals) : arrivals[i] # d
      BY <1>2 DEF Elements
    <2>2. ASSUME NEW i \in 1..Len(arrivals'), NEW j \in 1..Len(arrivals'),
                 arrivals'[i] = arrivals'[j]
          PROVE  i = j
      <3>1. \A k \in 1..Len(arrivals') : k # Len(arrivals) + 1 => k \in 1..Len(arrivals)
        BY <1>3
      <3>2. CASE i = Len(arrivals) + 1
        BY <3>1, <3>2, <2>1, <2>2, <1>3
      <3>3. CASE j = Len(arrivals) + 1
        BY <3>1, <3>3, <2>1, <2>2, <1>3
      <3>4. CASE i # Len(arrivals) + 1 /\ j # Len(arrivals) + 1
        BY <3>1, <3>4, <2>2, <1>3 DEF IntakeStages, ReadOnce
      <3> QED BY <3>2, <3>3, <3>4
    <2> QED BY <2>2 DEF ReadOnce
  <1>18. SkippedLate'
    BY <1>1, <1>4 DEF IntakeStages, SkippedLate, EndsParsing
  <1> QED BY <1>8, <1>12, <1>13, <1>14, <1>15, <1>16, <1>17, <1>18 DEF IntakeStages

\* A datagram copied into a fresh packet.
LEMMA FreshPacket ==
  ASSUME NEW d \in Datagrams, NEW order
  PROVE  /\ Copied(d) \in Seq(Datagrams)
         /\ Elements(Copied(d)) \subseteq {d}
         /\ Size[d] > 0 => Elements(Copied(d)) = {d}
         /\ PacketInOrder(Copied(d), order)
         /\ Size[d] = PacketBytes(Copied(d))
         /\ Copied(d) # <<>> => Size[d] > 0
  <1> USE IntakeAssumption DEF IntakeAssumption
  <1>1. CASE Size[d] = 0
    BY <1>1, BytesEmpty DEF Copied, Elements, PacketInOrder
  <1>2. CASE Size[d] # 0
    <2>1. Copied(d) = <<d>> /\ Size[d] > 0
      BY <1>2 DEF Copied
    <2>2. /\ <<d>> \in Seq(Datagrams) /\ Elements(<<d>>) = {d}
          /\ PacketInOrder(<<d>>, order)
      BY DEF Elements, PacketInOrder
    <2>3. PacketBytes(<<d>>) = Size[d]
      <3>1. PICK empty : empty = <<>>
        OBVIOUS
      <3>2. empty \in Seq(Datagrams) /\ Append(empty, d) = <<d>>
        BY <3>1
      <3>3. PacketBytes(<<d>>)
              = PacketBytes(empty) + Size[d] + (IF empty = <<>> THEN 0 ELSE 1)
        BY <3>2, BytesAppend
      <3> QED BY <3>1, <3>3, BytesEmpty
    <2> QED BY <2>1, <2>2, <2>3
  <1> QED BY <1>1, <1>2

\* What a step that ends with the message placed needs to show: the stages
\* up to the packets, and what became of the packet.
LEMMA PlacedStages ==
  ASSUME IntakeStages, NEW packet2, NEW last2,
         UNCHANGED <<arrivals, working, parsed, skipped>>,
         packet2 = Elements(Pending)', last2 = Unplaced',
         Lined(InQueue(packetsIn)', InGroup(held)', InQueue(packetsChannel)',
               InGroup(packets)', packet2, last2, ReadBefore),
         QueueInOrder(packetsIn, ReadBefore)', GroupInOrder(held, ReadBefore)',
         QueueInOrder(packetsChannel, ReadBefore)',
         GroupInOrder(packets, ReadBefore)', PacketInOrder(packet, ReadBefore)',
         Waiting' \subseteq Waiting,
         {d \in Waiting : Size[d] > 0} \subseteq Waiting',
         PacketExact', HandsEmpty'
  PROVE  IntakeStages'
  <1>1. ReadBefore' = ReadBefore /\ ReadOnce' /\ SkippedLate'
    BY ArrivalsKept
  <1>2. Apart' /\ Complete'
    BY ApartKept
  <1>3. EachInOrder'
    BY <1>1 DEF IntakeStages, EachInOrder
  <1>4. StagesLined'
    BY <1>1 DEF StagesLined
  <1> QED BY <1>1, <1>2, <1>3, <1>4 DEF IntakeStages

\* The message starts a packet, or is merged behind others.
LEMMA AddStages ==
  ASSUME IInv, IntakeStages, StartPacket \/ MergeMessage
  PROVE  IntakeStages'
  <1> USE IntakeAssumption DEF IntakeAssumption
  <1>1. UNCHANGED <<arrivals, packets, packetsChannel, packetsIn, held, working,
                    parsed, skipped>>
    BY DEF StartPacket, MergeMessage, packetsVars, queueVars, parserVars
  <1>2. /\ packetMutex = None /\ packetMutex' = None
        /\ message \in Datagrams /\ message # None /\ message' = None
        /\ pc["listener"] = "add" /\ pc' = [pc EXCEPT !["listener"] = "read"]
    BY DEF StartPacket, MergeMessage, Placed, Goto, IInv, Locking
  <1>3. Pending = packet /\ Pending' = packet'
    BY <1>2, PendingIs DEF Pending
  <1>4. Unplaced = {message} /\ Unplaced' = {}
    BY <1>2 DEF Unplaced
  <1>5. packet \in Seq(Datagrams) /\ packetLength \in Nat
    BY DEF IInv, TypeOK, BufferTypeOK
  <1>6. /\ Elements(packet') \subseteq Elements(packet) \cup {message}
        /\ Elements(packet) \subseteq Elements(packet')
        /\ Size[message] > 0 => message \in Elements(packet')
        /\ PacketInOrder(packet', ReadBefore)
        /\ packetLength' = PacketBytes(packet')
        /\ packet' # <<>> => packetLength' > 0
    <2>1. CASE StartPacket
      <3>1. packet = <<>>
        BY <2>1 DEF StartPacket, IntakeStages, HandsEmpty
      <3>2. packet' = Copied(message) /\ packetLength' = Size[message]
        BY <2>1 DEF StartPacket, Placed
      <3> QED BY <1>2, <3>1, <3>2, FreshPacket, NothingInEmpty
    <2>2. CASE MergeMessage
      <3>1. /\ packet' = Append(packet, message) /\ packetLength > 0
            /\ packetLength' = packetLength + Size[message] + 1
        BY <2>2 DEF MergeMessage, Placed
      <3>2. packet # <<>>
        BY <3>1, BytesEmpty DEF IntakeStages, PacketExact
      <3>3. packetLength' = PacketBytes(packet')
        <4>1. PacketBytes(Append(packet, message)) = PacketBytes(packet) + Size[message] + 1
          BY <1>2, <1>5, <3>2, BytesAppend
        <4>2. PacketBytes(packet) = packetLength
          BY DEF IntakeStages, PacketExact
        <4> QED BY <3>1, <4>1, <4>2
      <3>4. Elements(packet') = Elements(packet) \cup {message}
        <4>1. Elements(Append(packet, message)) = Elements(packet) \cup {message}
          BY <1>2, <1>5, AppendElements
        <4> QED BY <3>1, <4>1
      <3>5. Ahead(Elements(packet), {message}, ReadBefore)
        BY <1>3, <1>4 DEF IntakeStages, StagesLined, Lined
      <3>6. PacketInOrder(packet', ReadBefore)
        BY <1>2, <1>5, <3>1, <3>5, PacketOrderAppend DEF IntakeStages, EachInOrder
      <3>7. packetLength' > 0
        BY <1>2, <1>5, <3>1
      <3> QED BY <3>3, <3>4, <3>6, <3>7
    <2> QED BY <2>1, <2>2
  <1>7. PICK packet2 : packet2 = Elements(packet')
    OBVIOUS
  <1>8. ReadBefore' = ReadBefore
    BY <1>1, ArrivalsKept
  <1>9. Lined(InQueue(packetsIn), InGroup(held), InQueue(packetsChannel),
              InGroup(packets), packet2, {}, ReadBefore)
    <2>1. PICK x : x = packet2 \ Elements(packet)
      OBVIOUS
    <2>2. x \subseteq Unplaced /\ packet2 = Elements(packet) \cup x
      BY <1>4, <1>6, <1>7, <2>1
    <2> QED BY <1>3, <2>2, LinedPlace DEF IntakeStages, StagesLined
  <1>10. HandsEmpty'
    <2>1. /\ pc'["forwarder"] = pc["forwarder"]
          /\ \A w \in Workers : pc'[w] = pc[w]
      BY <1>2 DEF IInv, TypeOK, ControlTypeOK, Goroutines, Flushers
    <2> QED BY <1>1, <1>6, <2>1 DEF IntakeStages, HandsEmpty
  <1>11. /\ Waiting' \subseteq Waiting
         /\ {d \in Waiting : Size[d] > 0} \subseteq Waiting'
    BY <1>1, <1>3, <1>4, <1>6 DEF Waiting
  <1>12. PacketExact'
    BY <1>6 DEF PacketExact
  <1>13. /\ QueueInOrder(packetsIn, ReadBefore)' /\ GroupInOrder(held, ReadBefore)'
         /\ QueueInOrder(packetsChannel, ReadBefore)'
         /\ GroupInOrder(packets, ReadBefore)' /\ PacketInOrder(packet, ReadBefore)'
    BY <1>1, <1>6, <1>8 DEF IntakeStages, EachInOrder
  <1> QED BY <1>1, <1>3, <1>4, <1>7, <1>9, <1>10, <1>11, <1>12, <1>13, PlacedStages

\* When a flush of the packet returns, the message starts the new packet, or
\* the new packet is empty.
LEMMA FlushReturnsStages ==
  ASSUME IInv, IntakeStages, NEW g \in {"listener", "packetLoop"},
         NEW from \in {"append", "send"}, FlushReturns(g, from)
  PROVE  /\ Pending' = packet'
         /\ \/ Elements(packet') \subseteq Unplaced /\ Unplaced' = {}
            \/ Elements(packet') = {} /\ Unplaced' = Unplaced
         /\ {d \in Unplaced : Size[d] > 0} \subseteq Elements(packet') \cup Unplaced'
         /\ PacketInOrder(packet', ReadBefore)
         /\ packetLength' = PacketBytes(packet')
         /\ packet' # <<>> => packetLength' > 0
         /\ pc'["forwarder"] = pc["forwarder"]
         /\ \A w \in Workers : pc'[w] = pc[w]
  <1> USE IntakeAssumption DEF IntakeAssumption
  <1>1. Goto(g, from, "read") \/ Goto(g, from, "wait")
    BY DEF FlushReturns
  <1>2. pc[g] = from /\ pc'["forwarder"] = pc["forwarder"] /\ \A w \in Workers : pc'[w] = pc[w]
    BY <1>1 DEF Goto, IInv, TypeOK, ControlTypeOK, Goroutines, Flushers
  <1>3. packetMutex' = None
    BY DEF FlushReturns, Placed
  <1>4. Pending' = packet'
    BY <1>3 DEF Pending
  <1>5. CASE g = "listener"
    <2>1. /\ message \in Datagrams /\ message' = None /\ message # None
          /\ packet' = Copied(message) /\ packetLength' = Size[message]
      BY <1>2, <1>5 DEF FlushReturns, Placed, IInv, Locking
    <2>2. Unplaced = {message} /\ Unplaced' = {}
      BY <2>1 DEF Unplaced
    <2> QED BY <1>2, <1>4, <2>1, <2>2, FreshPacket
  <1>6. CASE g = "packetLoop"
    <2>1. packet' = <<>> /\ packetLength' = 0 /\ message' = message
      BY <1>6 DEF FlushReturns
    <2>2. Unplaced' = Unplaced /\ Elements(packet') = {}
      BY <2>1, NothingInEmpty DEF Unplaced
    <2>3. PacketInOrder(packet', ReadBefore) /\ packetLength' = PacketBytes(packet')
      BY <2>1, BytesEmpty DEF PacketInOrder
    <2> QED BY <1>2, <1>4, <2>1, <2>2, <2>3
  <1> QED BY <1>5, <1>6

\* Then the stages are still one behind the other.
LEMMA LinedReturns ==
  ASSUME NEW a, NEW b, NEW c, NEW d, NEW m, NEW e2, NEW m2, NEW R,
         Lined(a, b, c, d, {}, m, R),
         \/ e2 \subseteq m /\ m2 = {}
         \/ e2 = {} /\ m2 = m
  PROVE  Lined(a, b, c, d, e2, m2, R)
  BY DEF Lined, Ahead

\* A packet is appended to packets, by the listener or the packetBuffer's loop.
LEMMA AppendPacketStages ==
  ASSUME IInv, IntakeStages, NEW g \in {"listener", "packetLoop"}, AppendPacket(g)
  PROVE  IntakeStages'
  <1> USE IntakeAssumption DEF IntakeAssumption
  <1>1. /\ UNCHANGED <<arrivals, packetsChannel, packetsIn, held, working,
                       parsed, skipped>>
        /\ packets' = Append(packets, packet)
    BY DEF AppendPacket, Appended, queueVars, parserVars
  <1>2. /\ pc[g] = "append"
        /\ \/ /\ Goto(g, "append", "send") /\ UNCHANGED <<packet, packetLength, packetMutex, message>>
           \/ FlushReturns(g, "append")
    BY DEF AppendPacket, Appended, FlushReturns, Goto, packetVars
  <1>3. packet \in Seq(Datagrams) /\ packets \in Groups /\ Pending = packet
    BY <1>2, PendingIs DEF IInv, TypeOK, BufferTypeOK
  <1>4. InGroup(packets') = InGroup(packets) \cup Elements(packet)
    BY <1>1, <1>3, GroupAppend
  <1>5. ReadBefore' = ReadBefore
    BY <1>1, ArrivalsKept
  <1>6. Ahead(InGroup(packets), Elements(packet), ReadBefore)
    BY <1>3 DEF IntakeStages, StagesLined, Lined, Ahead
  <1>7. GroupInOrder(packets', ReadBefore)
    BY <1>1, <1>3, <1>6, GroupOrderAppend DEF IntakeStages, EachInOrder
  <1>8. Lined(InQueue(packetsIn), InGroup(held), InQueue(packetsChannel),
              InGroup(packets'), {}, Unplaced, ReadBefore)
    BY <1>3, <1>4, LinedAppend DEF IntakeStages, StagesLined
  <1>9. PICK packet2 : packet2 = Elements(Pending')
    OBVIOUS
  <1>10. PICK last2 : last2 = Unplaced'
    OBVIOUS
  <1>11. /\ \/ packet2 \subseteq Unplaced /\ last2 = {}
            \/ packet2 = {} /\ last2 = Unplaced
         /\ {d \in Unplaced : Size[d] > 0} \subseteq packet2 \cup last2
         /\ PacketInOrder(packet', ReadBefore)
         /\ packetLength' = PacketBytes(packet')
         /\ packet' # <<>> => packetLength' > 0
         /\ pc'["forwarder"] = pc["forwarder"]
         /\ \A w \in Workers : pc'[w] = pc[w]
    <2>1. CASE FlushReturns(g, "append")
      BY <2>1, <1>9, <1>10, FlushReturnsStages
    <2>2. CASE Goto(g, "append", "send") /\ UNCHANGED <<packet, packetLength, packetMutex, message>>
      <3>1. /\ pc'[g] = "send" /\ packetMutex = g
            /\ pc'["forwarder"] = pc["forwarder"]
            /\ \A w \in Workers : pc'[w] = pc[w]
        BY <1>2, <2>2 DEF Goto, IInv, Locking, TypeOK, ControlTypeOK, Goroutines, Flushers
      <3>2. Pending' = <<>>
        BY <3>1, <2>2 DEF Pending
      <3>3. packet2 = {} /\ last2 = Unplaced
        BY <3>2, <2>2, <1>9, <1>10, NothingInEmpty DEF Unplaced
      <3>4. /\ PacketInOrder(packet', ReadBefore)
            /\ packetLength' = PacketBytes(packet')
            /\ packet' # <<>> => packetLength' > 0
        BY <2>2 DEF IntakeStages, EachInOrder, PacketExact, HandsEmpty
      <3> QED BY <3>1, <3>3, <3>4
    <2> QED BY <1>2, <2>1, <2>2
  <1>12. Lined(InQueue(packetsIn), InGroup(held), InQueue(packetsChannel),
               InGroup(packets'), packet2, last2, ReadBefore)
    BY <1>8, <1>11, LinedReturns
  <1>13. HandsEmpty'
    BY <1>1, <1>11 DEF IntakeStages, HandsEmpty
  <1>14. PICK before : before = InQueue(packetsIn) \cup InGroup(held) \cup InQueue(packetsChannel)
    OBVIOUS
  <1>15. Waiting = before \cup InGroup(packets) \cup Elements(packet) \cup Unplaced
    BY <1>3, <1>14 DEF Waiting
  <1>16. Waiting' = before \cup InGroup(packets) \cup Elements(packet) \cup packet2 \cup last2
    BY <1>1, <1>4, <1>9, <1>10, <1>14 DEF Waiting
  <1>17. Waiting' \subseteq Waiting /\ {d \in Waiting : Size[d] > 0} \subseteq Waiting'
    BY <1>11, <1>15, <1>16
  <1>18. PacketExact'
    BY <1>11 DEF PacketExact
  <1>19. /\ QueueInOrder(packetsIn, ReadBefore)' /\ GroupInOrder(held, ReadBefore)'
         /\ QueueInOrder(packetsChannel, ReadBefore)'
         /\ GroupInOrder(packets, ReadBefore)' /\ PacketInOrder(packet, ReadBefore)'
    BY <1>1, <1>5, <1>7, <1>11 DEF IntakeStages, EachInOrder
  <1> QED BY <1>1, <1>9, <1>10, <1>12, <1>13, <1>17, <1>18, <1>19, PlacedStages

\* A group is sent, by any of the three goroutines that flush.
LEMMA SendPacketsStages ==
  ASSUME IInv, IntakeStages, NEW g \in Flushers, SendPackets(g)
  PROVE  IntakeStages'
  <1> USE IntakeAssumption DEF IntakeAssumption
  <1>1. /\ UNCHANGED <<arrivals, packetsIn, held, working, parsed, skipped>>
        /\ packetsChannel' = Append(packetsChannel, packets) /\ packets' = <<>>
        /\ FlushReturns(g, "send")
    BY DEF SendPackets, parserVars
  <1>2. packetsChannel \in Seq(Groups) /\ packets \in Groups
    BY DEF IInv, TypeOK, BufferTypeOK, QueueTypeOK
  <1>3. /\ InQueue(packetsChannel') = InQueue(packetsChannel) \cup InGroup(packets)
        /\ InGroup(packets') = {}
    BY <1>1, <1>2, QueueAppend, NothingInEmpty
  <1>4. ReadBefore' = ReadBefore
    BY <1>1, ArrivalsKept
  <1>5. Ahead(InQueue(packetsChannel), InGroup(packets), ReadBefore)
    BY DEF IntakeStages, StagesLined, Lined, Ahead
  <1>6. QueueInOrder(packetsChannel', ReadBefore)
    BY <1>1, <1>2, <1>5, QueueOrderAppend DEF IntakeStages, EachInOrder
  <1>7. GroupInOrder(packets', ReadBefore)
    BY <1>1 DEF GroupInOrder
  <1>8. Lined(InQueue(packetsIn), InGroup(held), InQueue(packetsChannel'),
              InGroup(packets'), Elements(Pending), Unplaced, ReadBefore)
    BY <1>3, LinedSend DEF IntakeStages, StagesLined
  <1>9. PICK packet2 : packet2 = Elements(Pending')
    OBVIOUS
  <1>10. PICK last2 : last2 = Unplaced'
    OBVIOUS
  <1>11. /\ \/ packet2 = Elements(Pending) /\ last2 = Unplaced
            \/ Elements(Pending) = {} /\ packet2 \subseteq Unplaced /\ last2 = {}
            \/ Elements(Pending) = {} /\ packet2 = {} /\ last2 = Unplaced
         /\ {d \in Elements(Pending) \cup Unplaced : Size[d] > 0} \subseteq packet2 \cup last2
         /\ PacketInOrder(packet', ReadBefore)
         /\ packetLength' = PacketBytes(packet')
         /\ packet' # <<>> => packetLength' > 0
         /\ pc'["forwarder"] = pc["forwarder"]
         /\ \A w \in Workers : pc'[w] = pc[w]
    <2>1. CASE g \in {"listener", "packetLoop"}
      <3>1. Elements(Pending) = {}
        <4>1. pc[g] = "send"
          BY <1>1, <2>1 DEF FlushReturns, Goto
        <4>2. Pending = <<>>
          BY <4>1, <2>1, PendingIs
        <4> QED BY <4>2, NothingInEmpty
      <3> QED BY <3>1, <2>1, <1>1, <1>9, <1>10, FlushReturnsStages
    <2>2. CASE g = "packetsLoop"
      <3>1. /\ Goto(g, "send", "wait") /\ UNCHANGED <<packet, packetLength, packetMutex, message>>
        BY <1>1, <2>2 DEF FlushReturns, packetVars
      <3>2. \A h \in Goroutines : h # g => pc'[h] = pc[h]
        BY <3>1 DEF Goto, IInv, TypeOK, ControlTypeOK
      <3>3. /\ pc'["forwarder"] = pc["forwarder"]
            /\ \A w \in Workers : pc'[w] = pc[w]
        BY <3>2, <2>2 DEF Goroutines
      <3>4. Pending' = Pending
        BY <3>1, <3>2, <2>2 DEF Pending, IInv, TypeOK, BufferTypeOK, Goroutines, Flushers
      <3>5. packet2 = Elements(Pending) /\ last2 = Unplaced
        BY <3>1, <3>4, <1>9, <1>10 DEF Unplaced
      <3>6. /\ PacketInOrder(packet', ReadBefore)
            /\ packetLength' = PacketBytes(packet')
            /\ packet' # <<>> => packetLength' > 0
        BY <3>1 DEF IntakeStages, EachInOrder, PacketExact, HandsEmpty
      <3> QED BY <3>3, <3>5, <3>6
    <2> QED BY <2>1, <2>2 DEF Flushers
  <1>12. Lined(InQueue(packetsIn), InGroup(held), InQueue(packetsChannel'),
               InGroup(packets'), packet2, last2, ReadBefore)
    BY <1>8, <1>11, LinedReturns
  <1>13. HandsEmpty'
    BY <1>1, <1>11 DEF IntakeStages, HandsEmpty
  <1>14. PICK before : before = InQueue(packetsIn) \cup InGroup(held) \cup InQueue(packetsChannel)
                                  \cup InGroup(packets)
    OBVIOUS
  <1>15. Waiting = before \cup Elements(Pending) \cup Unplaced
    BY <1>14 DEF Waiting
  <1>16. Waiting' = before \cup packet2 \cup last2
    BY <1>1, <1>3, <1>9, <1>10, <1>14 DEF Waiting
  <1>17. Waiting' \subseteq Waiting /\ {d \in Waiting : Size[d] > 0} \subseteq Waiting'
    BY <1>11, <1>15, <1>16
  <1>18. PacketExact'
    BY <1>11 DEF PacketExact
  <1>19. /\ QueueInOrder(packetsIn, ReadBefore)' /\ GroupInOrder(held, ReadBefore)'
         /\ QueueInOrder(packetsChannel, ReadBefore)'
         /\ GroupInOrder(packets, ReadBefore)' /\ PacketInOrder(packet, ReadBefore)'
    BY <1>1, <1>4, <1>6, <1>7, <1>11 DEF IntakeStages, EachInOrder
  <1> QED BY <1>1, <1>9, <1>10, <1>12, <1>13, <1>17, <1>18, <1>19, PlacedStages

\* A step of a goroutine that does not flush leaves the packet pending.
LEMMA PendingKept ==
  ASSUME IInv, NEW g \in Goroutines \ Flushers, NEW from, NEW to, Goto(g, from, to),
         UNCHANGED <<packet, packetMutex>>
  PROVE  Pending' = Pending
  <1>1. \A h \in {"listener", "packetLoop"} : pc'[h] = pc[h]
    BY DEF Goto, IInv, TypeOK, ControlTypeOK, Goroutines, Flushers
  <1> QED BY <1>1 DEF Pending, IInv, TypeOK, BufferTypeOK

\* The forwarder receives a group.
LEMMA ReceiveToForwardStages ==
  ASSUME IInv, IntakeStages, ReceiveToForward
  PROVE  IntakeStages'
  <1> USE IntakeAssumption DEF IntakeAssumption
  <1>1. /\ UNCHANGED <<arrivals, message, packet, packetLength, packetMutex, packets,
                       packetsIn, working, parsed, skipped>>
        /\ packetsChannel # <<>> /\ held' = Head(packetsChannel)
        /\ packetsChannel' = Tail(packetsChannel)
        /\ Goto("forwarder", "wait", "send")
    BY DEF ReceiveToForward, readVars, packetVars, packetsVars, parserVars
  <1>2. packetsChannel \in Seq(Groups)
    BY DEF IInv, TypeOK, QueueTypeOK
  <1>3. InGroup(held) = {}
    BY <1>1, NothingInEmpty DEF Goto, IntakeStages, HandsEmpty
  <1>4. Pending' = Pending
    BY <1>1, PendingKept DEF Goroutines, Flushers
  <1>5. ReadBefore' = ReadBefore
    BY <1>1, ArrivalsKept
  <1>6. PICK packet2 : packet2 = Elements(Pending)
    OBVIOUS
  <1>7. InQueue(packetsChannel) = InGroup(held') \cup InQueue(packetsChannel')
    BY <1>1, <1>2, QueueHead
  <1>8. /\ GroupInOrder(held', ReadBefore) /\ QueueInOrder(packetsChannel', ReadBefore)
        /\ Ahead(InGroup(held'), InQueue(packetsChannel'), ReadBefore)
    BY <1>1, <1>2, QueueOrderHead DEF IntakeStages, EachInOrder
  <1>9. Lined(InQueue(packetsIn), InGroup(held'), InQueue(packetsChannel'),
              InGroup(packets), packet2, Unplaced, ReadBefore)
    BY <1>3, <1>6, <1>7, <1>8, LinedForward DEF IntakeStages, StagesLined
  <1>10. Unplaced' = Unplaced
    BY <1>1 DEF Unplaced
  <1>11. Waiting' = Waiting
    BY <1>1, <1>3, <1>4, <1>7, <1>10 DEF Waiting
  <1>12. HandsEmpty'
    <2>1. pc'["forwarder"] = "send" /\ \A w \in Workers : pc'[w] = pc[w]
      BY <1>1 DEF Goto, IInv, TypeOK, ControlTypeOK, Goroutines
    <2> QED BY <1>1, <2>1 DEF IntakeStages, HandsEmpty
  <1>13. PacketExact'
    BY <1>1 DEF IntakeStages, PacketExact
  <1>14. /\ QueueInOrder(packetsIn, ReadBefore)' /\ GroupInOrder(held, ReadBefore)'
         /\ QueueInOrder(packetsChannel, ReadBefore)'
         /\ GroupInOrder(packets, ReadBefore)' /\ PacketInOrder(packet, ReadBefore)'
    BY <1>1, <1>5, <1>8 DEF IntakeStages, EachInOrder
  <1> QED BY <1>1, <1>4, <1>6, <1>9, <1>10, <1>11, <1>12, <1>13, <1>14, PlacedStages

\* The forwarder passes a group on.
LEMMA PassOnStages ==
  ASSUME IInv, IntakeStages, PassOn
  PROVE  IntakeStages'
  <1> USE IntakeAssumption DEF IntakeAssumption
  <1>1. /\ UNCHANGED <<arrivals, message, packet, packetLength, packetMutex, packets,
                       packetsChannel, working, parsed, skipped>>
        /\ packetsIn' = Append(packetsIn, held) /\ held' = <<>>
        /\ Goto("forwarder", "send", "wait")
    BY DEF PassOn, readVars, packetVars, packetsVars, parserVars
  <1>2. packetsIn \in Seq(Groups) /\ held \in Groups
    BY DEF IInv, TypeOK, QueueTypeOK
  <1>3. Pending' = Pending
    BY <1>1, PendingKept DEF Goroutines, Flushers
  <1>4. ReadBefore' = ReadBefore
    BY <1>1, ArrivalsKept
  <1>5. PICK packet2 : packet2 = Elements(Pending)
    OBVIOUS
  <1>6. InQueue(packetsIn') = InQueue(packetsIn) \cup InGroup(held) /\ InGroup(held') = {}
    BY <1>1, <1>2, QueueAppend, NothingInEmpty
  <1>7. Ahead(InQueue(packetsIn), InGroup(held), ReadBefore)
    BY DEF IntakeStages, StagesLined, Lined, Ahead
  <1>8. QueueInOrder(packetsIn', ReadBefore) /\ GroupInOrder(held', ReadBefore)
    <2>1. QueueInOrder(packetsIn', ReadBefore)
      BY <1>1, <1>2, <1>7, QueueOrderAppend DEF IntakeStages, EachInOrder
    <2>2. GroupInOrder(held', ReadBefore)
      BY <1>1 DEF GroupInOrder
    <2> QED BY <2>1, <2>2
  <1>9. Lined(InQueue(packetsIn'), InGroup(held'), InQueue(packetsChannel),
              InGroup(packets), packet2, Unplaced, ReadBefore)
    BY <1>5, <1>6, LinedPass DEF IntakeStages, StagesLined
  <1>10. Unplaced' = Unplaced
    BY <1>1 DEF Unplaced
  <1>11. Waiting' = Waiting
    BY <1>1, <1>3, <1>6, <1>10 DEF Waiting
  <1>12. HandsEmpty'
    <2>1. \A w \in Workers : pc'[w] = pc[w]
      BY <1>1 DEF Goto, IInv, TypeOK, ControlTypeOK, Goroutines
    <2> QED BY <1>1, <2>1 DEF IntakeStages, HandsEmpty
  <1>13. PacketExact'
    BY <1>1 DEF IntakeStages, PacketExact
  <1>14. /\ QueueInOrder(packetsIn, ReadBefore)' /\ GroupInOrder(held, ReadBefore)'
         /\ QueueInOrder(packetsChannel, ReadBefore)'
         /\ GroupInOrder(packets, ReadBefore)' /\ PacketInOrder(packet, ReadBefore)'
    BY <1>1, <1>4, <1>8 DEF IntakeStages, EachInOrder
  <1> QED BY <1>1, <1>3, <1>5, <1>9, <1>10, <1>11, <1>12, <1>13, <1>14, PlacedStages

\* Every group of the family but one keeps its datagrams.
LEMMA TakenBy ==
  ASSUME NEW f \in [Workers -> Groups], NEW w \in Workers, NEW g
  PROVE  UNION {InGroup([f EXCEPT ![w] = g][v]) : v \in Workers}
           = InGroup(g) \cup UNION {InGroup(f[v]) : v \in Workers \ {w}}
  <1>1. PICK h : h = [f EXCEPT ![w] = g]
    OBVIOUS
  <1>2. h[w] = g /\ \A v \in Workers \ {w} : h[v] = f[v]
    BY <1>1
  <1>3. UNION {InGroup(h[v]) : v \in Workers}
           = InGroup(g) \cup UNION {InGroup(f[v]) : v \in Workers \ {w}}
    BY <1>2
  <1> QED BY <1>1, <1>3

\* A worker takes a group.
LEMMA ReceivePacketsStages ==
  ASSUME IInv, IntakeStages, NEW w \in Workers, ReceivePackets(w)
  PROVE  IntakeStages'
  <1> USE IntakeAssumption DEF IntakeAssumption
  <1>1. /\ UNCHANGED <<arrivals, message, packet, packetLength, packetMutex, packets,
                       held, parsed, skipped>>
        /\ Goto(w, "wait", "parse")
    BY DEF ReceivePackets, readVars, packetVars, packetsVars
  <1>2. packetsChannel \in Seq(Groups) /\ packetsIn \in Seq(Groups) /\ working \in [Workers -> Groups]
    BY DEF IInv, TypeOK, QueueTypeOK, ParserTypeOK
  <1>3. w \in Goroutines \ Flushers
    BY DEF Goroutines, Flushers
  <1>4. Pending' = Pending
    BY <1>1, <1>3, PendingKept
  <1>5. ReadBefore' = ReadBefore /\ ReadOnce' /\ SkippedLate'
    BY <1>1, ArrivalsKept
  <1>6. working[w] = <<>>
    BY <1>1 DEF Goto, IntakeStages, HandsEmpty
  <1>7. PICK g : /\ working' = [working EXCEPT ![w] = g]
                 /\ GroupInOrder(g, ReadBefore)
                 /\ QueueInOrder(packetsIn', ReadBefore)
                 /\ QueueInOrder(packetsChannel', ReadBefore)
                 /\ Lined(InQueue(packetsIn'), InGroup(held), InQueue(packetsChannel'),
                          InGroup(packets), Elements(Pending), Unplaced, ReadBefore)
                 /\ InQueue(packetsIn) \cup InQueue(packetsChannel)
                      = InGroup(g) \cup InQueue(packetsIn') \cup InQueue(packetsChannel')
                 /\ InGroup(g) \cap (InQueue(packetsIn') \cup InGroup(held)
                      \cup InQueue(packetsChannel') \cup InGroup(packets)
                      \cup Elements(Pending) \cup Unplaced) = {}
    <2>1. /\ QueueInOrder(packetsIn, ReadBefore)
          /\ QueueInOrder(packetsChannel, ReadBefore)
          /\ Lined(InQueue(packetsIn), InGroup(held), InQueue(packetsChannel),
                   InGroup(packets), Elements(Pending), Unplaced, ReadBefore)
      BY DEF IntakeStages, EachInOrder, StagesLined
    <2>2. \A x : <<x, x>> \notin ReadBefore
      BY DEF IntakeStages, ReadOnce, ReadBefore
    <2>3. CASE packetsIn # <<>> /\ Forwarding
      <3>1. /\ working' = [working EXCEPT ![w] = Head(packetsIn)]
            /\ packetsIn' = Tail(packetsIn) /\ packetsChannel' = packetsChannel
        BY <2>3 DEF ReceivePackets
      <3>2. PICK g : g = Head(packetsIn)
        OBVIOUS
      <3>3. /\ InQueue(packetsIn) = InGroup(g) \cup InQueue(packetsIn')
            /\ GroupInOrder(g, ReadBefore) /\ QueueInOrder(packetsIn', ReadBefore)
            /\ Ahead(InGroup(g), InQueue(packetsIn'), ReadBefore)
        BY <2>1, <2>3, <3>1, <3>2, <1>2, QueueHead, QueueOrderHead
      <3>4. Lined(InQueue(packetsIn'), InGroup(held), InQueue(packetsChannel'),
                  InGroup(packets), Elements(Pending), Unplaced, ReadBefore)
        BY <2>1, <3>1, <3>3, LinedTake
      <3>5. InGroup(g) \cap (InQueue(packetsIn') \cup InGroup(held)
                      \cup InQueue(packetsChannel') \cup InGroup(packets)
                      \cup Elements(Pending) \cup Unplaced) = {}
        BY <2>1, <2>2, <3>1, <3>3 DEF Lined, Ahead
      <3> QED BY <2>1, <3>1, <3>2, <3>3, <3>4, <3>5
    <2>4. CASE packetsChannel # <<>> /\ ~Forwarding
      <3>1. /\ working' = [working EXCEPT ![w] = Head(packetsChannel)]
            /\ packetsChannel' = Tail(packetsChannel) /\ packetsIn' = packetsIn
        BY <2>4 DEF ReceivePackets
      <3>2. PICK g : g = Head(packetsChannel)
        OBVIOUS
      <3>3. /\ InQueue(packetsChannel) = InGroup(g) \cup InQueue(packetsChannel')
            /\ GroupInOrder(g, ReadBefore) /\ QueueInOrder(packetsChannel', ReadBefore)
            /\ Ahead(InGroup(g), InQueue(packetsChannel'), ReadBefore)
        BY <2>1, <2>4, <3>1, <3>2, <1>2, QueueHead, QueueOrderHead
      <3>4. Lined(InQueue(packetsIn'), InGroup(held), InQueue(packetsChannel'),
                  InGroup(packets), Elements(Pending), Unplaced, ReadBefore)
        BY <2>1, <3>1, <3>3, LinedTake
      <3>5. InGroup(g) \cap (InQueue(packetsIn') \cup InGroup(held)
                      \cup InQueue(packetsChannel') \cup InGroup(packets)
                      \cup Elements(Pending) \cup Unplaced) = {}
        BY <2>1, <2>2, <3>1, <3>3 DEF Lined, Ahead
      <3> QED BY <2>1, <3>1, <3>2, <3>3, <3>4, <3>5
    <2> QED BY <2>3, <2>4 DEF ReceivePackets
  <1>8. Unplaced' = Unplaced /\ Seen' = Seen
    BY <1>1 DEF Unplaced, Seen
  <1>9. PICK rest : rest = InGroup(held) \cup InGroup(packets) \cup Elements(Pending) \cup Unplaced
    OBVIOUS
  <1>10. Waiting' = InQueue(packetsIn') \cup InQueue(packetsChannel') \cup rest
    BY <1>1, <1>4, <1>8, <1>9 DEF Waiting
  <1>11. Waiting = InGroup(g) \cup Waiting' /\ InGroup(g) \cap Waiting' = {}
    <2>1. Waiting = InQueue(packetsIn) \cup InQueue(packetsChannel) \cup rest
      BY <1>9 DEF Waiting
    <2> QED BY <1>7, <1>9, <1>10, <2>1
  <1>12. Taken' = InGroup(g) \cup Taken
    <2>1. PICK others : others = UNION {InGroup(working[v]) : v \in Workers \ {w}}
      OBVIOUS
    <2>2. Taken' = InGroup(g) \cup others
      BY <1>2, <1>7, <2>1, TakenBy DEF Taken
    <2>3. InGroup(working[w]) = {}
      BY <1>6, NothingInEmpty
    <2>4. Taken = others
      BY <2>1, <2>3 DEF Taken
    <2> QED BY <2>2, <2>4
  <1>13. Apart'
    <2>1. Waiting' \cap Taken' = {} /\ Waiting' \cap Seen' = {} /\ Taken' \cap Seen' = {}
      BY <1>8, <1>11, <1>12 DEF IntakeStages, Apart
    <2>2. \A v \in Workers \ {w} : InGroup(working[v]) \cap InGroup(g) = {}
      BY <1>11 DEF IntakeStages, Apart, Taken
    <2>3. working'[w] = g /\ \A v \in Workers \ {w} : working'[v] = working[v]
      BY <1>2, <1>7
    <2>4. \A u, v \in Workers : u # v => InGroup(working'[u]) \cap InGroup(working'[v]) = {}
      <3> SUFFICES ASSUME NEW u \in Workers, NEW v \in Workers, u # v
                   PROVE  InGroup(working'[u]) \cap InGroup(working'[v]) = {}
        OBVIOUS
      <3>1. CASE u = w
        BY <3>1, <2>2, <2>3
      <3>2. CASE v = w
        BY <3>2, <2>2, <2>3
      <3>3. CASE u # w /\ v # w
        BY <3>3, <2>3 DEF IntakeStages, Apart
      <3> QED BY <3>1, <3>2, <3>3
    <2>5. (\A d \in Datagrams : parsed[d] = 0 \/ (parsed[d] = 1 /\ d \notin skipped))'
      BY <1>1 DEF IntakeStages, Apart
    <2> QED BY <2>1, <2>4, <2>5 DEF Apart
  <1>14. Complete'
    <2>1. Waiting' \cup Taken' \cup Seen' = Waiting \cup Taken \cup Seen
      BY <1>8, <1>11, <1>12
    <2> QED BY <1>1, <2>1 DEF IntakeStages, Complete
  <1>15. HandsEmpty'
    <2>1. /\ pc'[w] = "parse" /\ pc'["forwarder"] = pc["forwarder"]
          /\ \A v \in Workers \ {w} : pc'[v] = pc[v] /\ working'[v] = working[v]
      BY <1>1, <1>2, <1>7 DEF Goto, IInv, TypeOK, ControlTypeOK, Goroutines
    <2>2. \A v \in Workers : pc'[v] # "parse" => working'[v] = <<>>
      BY <2>1 DEF IntakeStages, HandsEmpty
    <2> QED BY <1>1, <2>1, <2>2 DEF IntakeStages, HandsEmpty
  <1>16. PacketExact'
    BY <1>1 DEF IntakeStages, PacketExact
  <1>17. EachInOrder'
    <2>1. \A v \in Workers : GroupInOrder(working'[v], ReadBefore)
      BY <1>2, <1>7 DEF IntakeStages, EachInOrder
    <2> QED BY <1>1, <1>5, <1>7, <2>1 DEF IntakeStages, EachInOrder
  <1>18. StagesLined'
    BY <1>1, <1>4, <1>5, <1>7, <1>8 DEF StagesLined
  <1> QED BY <1>5, <1>13, <1>14, <1>15, <1>16, <1>17, <1>18 DEF IntakeStages

\* A set without two different elements.
LEMMA AtMostOne ==
  ASSUME NEW S, \A x, y \in S : x = y
  PROVE  Cardinality(S) = IF S = {} THEN 0 ELSE 1
  <1>1. CASE S = {}
    BY <1>1, FS_EmptySet
  <1>2. CASE S # {}
    <2>1. PICK x \in S : S = {x}
      BY <1>2
    <2>2. Cardinality({x}) = 1
      BY FS_Singleton
    <2> QED BY <1>2, <2>1, <2>2
  <1> QED BY <1>1, <1>2

\* The positions of a group.
LEMMA PositionsAre ==
  ASSUME NEW g
  PROVE  /\ \A p \in Positions(g) : /\ p = <<p[1], p[2]>>
                                    /\ p[1] \in 1..Len(g) /\ p[2] \in 1..Len(g[p[1]])
                                    /\ g[p[1]][p[2]] \in InGroup(g)
         /\ \A d \in InGroup(g) : \E p \in Positions(g) : g[p[1]][p[2]] = d
  <1>1. \A p \in Positions(g) : /\ p = <<p[1], p[2]>>
                                /\ p[1] \in 1..Len(g) /\ p[2] \in 1..Len(g[p[1]])
    BY DEF Positions
  <1>2. \A p \in Positions(g) : g[p[1]][p[2]] \in InGroup(g)
    BY <1>1 DEF InGroup, Elements
  <1>3. ASSUME NEW d \in InGroup(g) PROVE \E p \in Positions(g) : g[p[1]][p[2]] = d
    <2>1. PICK i \in 1..Len(g) : d \in Elements(g[i])
      BY <1>3 DEF InGroup
    <2>2. PICK j \in 1..Len(g[i]) : d = g[i][j]
      BY <2>1 DEF Elements
    <2>3. <<i, j>> \in Positions(g)
      BY DEF Positions
    <2> QED BY <2>2, <2>3
  <1> QED BY <1>1, <1>2, <1>3

\* A datagram is at one position of a group in order.
LEMMA PositionOnce ==
  ASSUME NEW g \in Groups, NEW R, \A x : <<x, x>> \notin R, GroupInOrder(g, R),
         NEW p \in Positions(g), NEW q \in Positions(g),
         g[p[1]][p[2]] = g[q[1]][q[2]]
  PROVE  p = q
  <1>1. PICK i, j, k, l : i = p[1] /\ j = p[2] /\ k = q[1] /\ l = q[2]
    OBVIOUS
  <1>2. /\ p = <<i, j>> /\ q = <<k, l>> /\ g[i][j] = g[k][l]
        /\ i \in 1..Len(g) /\ j \in 1..Len(g[i])
        /\ k \in 1..Len(g) /\ l \in 1..Len(g[k])
        /\ Len(g[i]) \in Nat /\ Len(g[k]) \in Nat
    BY <1>1, PositionsAre DEF Groups
  <1>3. g[i][j] \in Elements(g[i]) /\ g[k][l] \in Elements(g[k])
    BY <1>2 DEF Elements
  <1>4. /\ i < k => Ahead(Elements(g[i]), Elements(g[k]), R)
        /\ k < i => Ahead(Elements(g[k]), Elements(g[i]), R)
    <2>1. Len(g) \in Nat
      BY DEF Groups
    <2>2. (i < k => i \in 1..(k - 1)) /\ (k < i => k \in 1..(i - 1))
      BY <1>2, <2>1
    <2> QED BY <1>2, <2>2 DEF GroupInOrder
  <1>5. i = k
    <2>1. ~(i < k) /\ ~(k < i)
      BY <1>2, <1>3, <1>4 DEF Ahead
    <2>2. Len(g) \in Nat
      BY DEF Groups
    <2> QED BY <1>2, <2>1, <2>2
  <1>6. ~(j < l) /\ ~(l < j)
    <2>1. PICK n : n = g[i]
      OBVIOUS
    <2>2. PacketInOrder(n, R)
      BY <1>2, <2>1 DEF GroupInOrder
    <2>3. /\ j \in 1..Len(n) /\ l \in 1..Len(n) /\ Len(n) \in Nat /\ n[j] = n[l]
      BY <1>2, <1>5, <2>1
    <2>4. (j < l => j \in 1..(l - 1)) /\ (l < j => l \in 1..(j - 1))
      BY <2>3
    <2> QED BY <2>2, <2>3, <2>4 DEF PacketInOrder
  <1> QED BY <1>2, <1>5, <1>6

\* The order of arrival is strict.
LEMMA ReadBeforeStrict == ReadOnce => \A x : <<x, x>> \notin ReadBefore
  BY DEF ReadOnce, ReadBefore

\* A worker parses its group.
LEMMA ParsePacketsStages ==
  ASSUME IInv, IntakeStages, NEW w \in Workers, ParsePackets(w)
  PROVE  IntakeStages'
  <1> USE IntakeAssumption DEF IntakeAssumption
  <1> DEFINE group     == working[w]
             reached   == ParsedPositions(group)
             Times(d)  == Cardinality({p \in reached : group[p[1]][p[2]] = d})
             unreached == {group[p[1]][p[2]] : p \in Positions(group) \ reached}
             found     == {group[p[1]][p[2]] : p \in reached}
  <1>1. /\ UNCHANGED <<arrivals, message, packet, packetLength, packetMutex, packets,
                       packetsChannel, packetsIn, held>>
        /\ Goto(w, "parse", "wait")
        /\ working' = [working EXCEPT ![w] = <<>>]
        /\ parsed' = [d \in Datagrams |-> parsed[d] + Times(d)]
        /\ skipped' = skipped \cup unreached
    BY DEF ParsePackets, readVars, packetVars, packetsVars, queueVars
  <1>2. /\ working \in [Workers -> Groups] /\ group \in Groups
        /\ parsed \in [Datagrams -> Nat] /\ skipped \subseteq Datagrams
        /\ GroupInOrder(group, ReadBefore)
    BY DEF IInv, TypeOK, ParserTypeOK, IntakeStages, EachInOrder
  <1>3. w \in Goroutines \ Flushers
    BY DEF Goroutines, Flushers
  <1>4. Pending' = Pending
    BY <1>1, <1>3, PendingKept
  <1>5. ReadBefore' = ReadBefore /\ ReadOnce'
    BY <1>1 DEF IntakeStages, ReadBefore, ReadOnce
  <1>6. \A x : <<x, x>> \notin ReadBefore
    BY ReadBeforeStrict DEF IntakeStages
  <1>7. \A p, q \in Positions(group) : group[p[1]][p[2]] = group[q[1]][q[2]] => p = q
    BY <1>2, <1>6, PositionOnce
  <1>8. reached \subseteq Positions(group)
    BY DEF ParsedPositions
  <1>9. found \cap unreached = {} /\ found \cup unreached = InGroup(group)
    <2>1. found \cap unreached = {}
      BY <1>7, <1>8
    <2>2. found \cup unreached = InGroup(group)
      BY <1>8, PositionsAre
    <2> QED BY <2>1, <2>2
  <1>10. \A d : Times(d) = IF d \in found THEN 1 ELSE 0
    <2> TAKE d
    <2>1. \A p, q \in {r \in reached : group[r[1]][r[2]] = d} : p = q
      BY <1>7, <1>8
    <2>2. {r \in reached : group[r[1]][r[2]] = d} # {} <=> d \in found
      OBVIOUS
    <2> QED BY <2>1, <2>2, AtMostOne
  <1>11. \A d \in Datagrams : parsed'[d] = parsed[d] + (IF d \in found THEN 1 ELSE 0)
    BY <1>1, <1>10
  <1>12. InGroup(group) \subseteq Taken /\ InGroup(group) \subseteq Datagrams
    <2>1. InGroup(group) \subseteq Taken
      BY DEF Taken
    <2>2. InGroup(group) \subseteq Datagrams
      BY <1>2 DEF InGroup, Elements, Groups
    <2> QED BY <2>1, <2>2
  <1> HIDE DEF group, reached, Times, unreached, found
  <1>13. \A d \in InGroup(group) : parsed[d] = 0 /\ d \notin skipped
    BY <1>2, <1>12 DEF IntakeStages, Apart, Seen
  <1>14. Seen' = Seen \cup InGroup(group)
    <2>1. {d \in Datagrams : parsed'[d] > 0} = {d \in Datagrams : parsed[d] > 0} \cup found
      BY <1>2, <1>9, <1>11, <1>12
    <2> QED BY <1>1, <1>9, <2>1 DEF Seen
  <1>15. Waiting' = Waiting /\ StagesLined'
    <2>1. Unplaced' = Unplaced
      BY <1>1 DEF Unplaced
    <2> QED BY <1>1, <1>4, <1>5, <2>1 DEF Waiting, IntakeStages, StagesLined
  <1>16. Taken = InGroup(group) \cup Taken' /\ InGroup(group) \cap Taken' = {}
    <2>1. PICK others : others = UNION {InGroup(working[v]) : v \in Workers \ {w}}
      OBVIOUS
    <2>2. Taken' = InGroup(<<>>) \cup others
      BY <1>1, <1>2, <2>1, TakenBy DEF Taken
    <2>3. Taken' = others
      BY <2>2, NothingInEmpty
    <2>4. Taken = InGroup(group) \cup others
      BY <2>1 DEF Taken, group
    <2>5. InGroup(group) \cap others = {}
      BY <2>1 DEF IntakeStages, Apart, group
    <2> QED BY <2>3, <2>4, <2>5
  <1>17. Apart'
    <2>1. Waiting' \cap Taken' = {} /\ Waiting' \cap Seen' = {} /\ Taken' \cap Seen' = {}
      BY <1>14, <1>15, <1>16 DEF IntakeStages, Apart
    <2>2. working'[w] = <<>> /\ \A v \in Workers \ {w} : working'[v] = working[v]
      BY <1>1, <1>2
    <2>3. \A u, v \in Workers : u # v => InGroup(working'[u]) \cap InGroup(working'[v]) = {}
      BY <2>2, NothingInEmpty DEF IntakeStages, Apart
    <2>4. ASSUME NEW d \in Datagrams
          PROVE  parsed'[d] = 0 \/ (parsed'[d] = 1 /\ d \notin skipped')
      <3>1. parsed[d] = 0 \/ (parsed[d] = 1 /\ d \notin skipped)
        BY DEF IntakeStages, Apart
      <3>2. CASE d \in InGroup(group)
        BY <3>2, <1>1, <1>9, <1>11, <1>13
      <3>3. CASE d \notin InGroup(group)
        BY <3>1, <3>3, <1>1, <1>2, <1>9, <1>11
      <3> QED BY <3>2, <3>3
    <2> QED BY <2>1, <2>3, <2>4 DEF Apart
  <1>18. Complete'
    <2>1. Waiting' \cup Taken' \cup Seen' = Waiting \cup Taken \cup Seen
      BY <1>14, <1>15, <1>16
    <2> QED BY <1>1, <2>1 DEF IntakeStages, Complete
  <1>19. HandsEmpty'
    <2>1. /\ working'[w] = <<>> /\ pc'["forwarder"] = pc["forwarder"]
          /\ \A v \in Workers \ {w} : pc'[v] = pc[v] /\ working'[v] = working[v]
      BY <1>1, <1>2 DEF Goto, IInv, TypeOK, ControlTypeOK, Goroutines
    <2>2. \A v \in Workers : pc'[v] # "parse" => working'[v] = <<>>
      BY <2>1 DEF IntakeStages, HandsEmpty
    <2> QED BY <1>1, <2>1, <2>2 DEF IntakeStages, HandsEmpty
  <1>20. PacketExact'
    BY <1>1 DEF IntakeStages, PacketExact
  <1>21. EachInOrder'
    <2>1. GroupInOrder(<<>>, ReadBefore)
      BY DEF GroupInOrder
    <2>2. \A v \in Workers : GroupInOrder(working'[v], ReadBefore)
      BY <1>1, <1>2, <2>1 DEF IntakeStages, EachInOrder
    <2> QED BY <1>1, <1>5, <2>2 DEF IntakeStages, EachInOrder
  <1>22. SkippedLate'
    <2>1. ASSUME NEW d \in unreached
          PROVE  \E e \in Datagrams : <<e, d>> \in ReadBefore /\ EndsParsing(e)
      <3>1. PICK p \in Positions(group) \ reached : d = group[p[1]][p[2]]
        BY <2>1 DEF unreached
      <3>2. PICK i, k : i = p[1] /\ k = p[2]
        OBVIOUS
      <3>3. i \in 1..Len(group) /\ k \in 1..Len(group[i]) /\ d = group[i][k]
        BY <3>1, <3>2, PositionsAre
      <3>4. PICK j \in 1..(k - 1) : EndsParsing(group[i][j])
        BY <3>1, <3>2 DEF reached, ParsedPositions
      <3>5. <<group[i][j], d>> \in ReadBefore
        BY <1>2, <3>3, <3>4 DEF GroupInOrder, PacketInOrder
      <3>6. group[i][j] \in Datagrams
        BY <3>5 DEF ReadBefore
      <3> QED BY <3>4, <3>5, <3>6
    <2> QED BY <1>1, <1>5, <2>1 DEF IntakeStages, SkippedLate, EndsParsing
  <1> QED BY <1>5, <1>15, <1>17, <1>18, <1>19, <1>20, <1>21, <1>22 DEF IntakeStages

\* At the start nothing was read.
LEMMA InitStages == Init => IntakeStages
  <1> SUFFICES ASSUME Init PROVE IntakeStages
    OBVIOUS
  <1> USE IntakeAssumption DEF IntakeAssumption
  <1>1. /\ InQueue(packetsIn) = {} /\ InGroup(held) = {} /\ InQueue(packetsChannel) = {}
        /\ InGroup(packets) = {} /\ Elements(packet) = {} /\ Elements(arrivals) = {}
        /\ \A w \in Workers : working[w] = <<>> /\ InGroup(working[w]) = {}
    BY NothingInEmpty DEF Init
  <1>2. Elements(Pending) = {}
    BY <1>1 DEF Init, Pending
  <1>3. Unplaced = {}
    BY DEF Init, Unplaced
  <1>4. Waiting = {} /\ Taken = {} /\ Seen = {}
    BY <1>1, <1>2, <1>3 DEF Waiting, Taken, Seen, Init
  <1>5. StagesLined
    BY <1>1, <1>2, <1>3 DEF StagesLined, Lined, Ahead
  <1>6. EachInOrder
    BY <1>1 DEF EachInOrder, QueueInOrder, GroupInOrder, PacketInOrder, Init
  <1>7. Apart
    BY <1>1, <1>4 DEF Apart, Init
  <1>8. Complete
    BY <1>1, <1>4 DEF Complete
  <1>9. HandsEmpty
    BY <1>1 DEF HandsEmpty, Init, Goroutines
  <1>10. PacketExact
    BY BytesEmpty DEF PacketExact, Init
  <1>11. ReadOnce /\ SkippedLate
    BY DEF ReadOnce, SkippedLate, Init
  <1> QED BY <1>5, <1>6, <1>7, <1>8, <1>9, <1>10, <1>11 DEF IntakeStages

\* Every step keeps the stages in order.
LEMMA NextStages == IInv /\ IntakeStages /\ [Next]_vars => IntakeStages'
  <1> SUFFICES ASSUME IInv, IntakeStages, [Next]_vars PROVE IntakeStages'
    OBVIOUS
  <1>1. CASE \E d \in Datagrams : ReadFrom(d)
    BY <1>1, ReadFromStages
  <1>2. CASE ReadClosed
    BY <1>2, QuietStages
  <1>3. CASE AddMessage
    <2>1. "listener" \in Flushers /\ "listener" \in {"listener", "packetLoop"}
      BY DEF Flushers
    <2> QED BY <1>3, <2>1, AddStages, QuietStages, AppendPacketStages, SendPacketsStages
            DEF AddMessage, Flush
  <1>4. CASE PacketLoop
    <2>1. "packetLoop" \in Flushers /\ "packetLoop" \in {"listener", "packetLoop"}
      BY DEF Flushers
    <2> QED BY <1>4, <2>1, QuietStages, AppendPacketStages, SendPacketsStages
            DEF PacketLoop, Flush
  <1>5. CASE PacketsLoop
    <2>1. "packetsLoop" \in Flushers
      BY DEF Flushers
    <2> QED BY <1>5, <2>1, QuietStages, SendPacketsStages DEF PacketsLoop
  <1>6. CASE ExitLoops
    BY <1>6, QuietStages
  <1>7. CASE Forwarder
    BY <1>7, ReceiveToForwardStages, PassOnStages, ExitStages DEF Forwarder
  <1>8. CASE \E w \in Workers : Worker(w)
    BY <1>8, ReceivePacketsStages, ParsePacketsStages, ExitStages DEF Worker
  <1>9. CASE Stop \/ CloseAll
    BY <1>9, ExitStages
  <1>10. CASE UNCHANGED vars
    <2>1. UNCHANGED <<arrivals, message, packet, packetLength, packetMutex, packets,
                      packetsChannel, packetsIn, held, working, parsed, skipped, pc>>
      BY <1>10 DEF vars, readVars, packetVars, packetsVars, queueVars, parserVars
    <2>2. Pending' = Pending
      BY <2>1 DEF Pending
    <2>3. HandsEmpty'
      BY <2>1 DEF IntakeStages, HandsEmpty
    <2> QED BY <2>1, <2>2, <2>3, StagesKept
  <1> QED BY <1>1, <1>2, <1>3, <1>4, <1>5, <1>6, <1>7, <1>8, <1>9, <1>10 DEF Next

\* Where a datagram arrived, when none arrived twice.
LEMMA ArrivalIs ==
  ASSUME ReadOnce, NEW l \in 1..Len(arrivals)
  PROVE  Arrival(arrivals[l]) = l
  <1>1. \A i \in 1..Len(arrivals) : arrivals[i] = arrivals[l] => i = l
    BY DEF ReadOnce
  <1> QED BY <1>1 DEF Arrival

\* The order of arrival in terms of Arrival.
LEMMA ArrivalOrder ==
  ASSUME IInv, ReadOnce, NEW d, NEW e, <<d, e>> \in ReadBefore
  PROVE  /\ Arrival(e) \in 1..Len(arrivals) /\ Arrival(d) \in 1..(Arrival(e) - 1)
         /\ arrivals[Arrival(d)] = d
  <1>1. PICK l \in 1..Len(arrivals) :
          arrivals[l] = e /\ \E k \in 1..(l - 1) : arrivals[k] = d
    BY DEF ReadBefore
  <1>2. PICK k \in 1..(l - 1) : arrivals[k] = d
    BY <1>1
  <1>3. k \in 1..Len(arrivals)
    <2>1. Len(arrivals) \in Nat
      BY DEF IInv, TypeOK, BufferTypeOK
    <2> QED BY <2>1
  <1>4. Arrival(e) = l /\ Arrival(d) = k
    BY <1>1, <1>2, <1>3, ArrivalIs
  <1> QED BY <1>1, <1>2, <1>4

\* The datagrams of two queues in one, and their order.
LEMMA QueueConcat ==
  ASSUME NEW q \in Seq(Groups), NEW r \in Seq(Groups), NEW R,
         QueueInOrder(q, R), QueueInOrder(r, R), Ahead(InQueue(q), InQueue(r), R)
  PROVE  /\ InQueue(q \o r) = InQueue(q) \cup InQueue(r)
         /\ QueueInOrder(q \o r, R)
  <1>1. PICK s, m, n : s = q \o r /\ m = Len(q) /\ n = Len(r)
    OBVIOUS
  <1>2. /\ Len(s) = m + n /\ m \in Nat /\ n \in Nat
        /\ \A i \in 1..m : i \in 1..Len(s) /\ s[i] = q[i]
        /\ \A i \in 1..n : i + m \in 1..Len(s) /\ s[i + m] = r[i]
    BY <1>1
  <1>3. ASSUME NEW i \in 1..Len(s), ~(i \in 1..m)
        PROVE  \E j \in 1..n : i = j + m
    <2>1. i - m \in 1..n /\ i = (i - m) + m
      BY <1>2, <1>3
    <2> QED BY <2>1
  <1>4. InQueue(s) \subseteq InQueue(q) \cup InQueue(r)
    <2> SUFFICES ASSUME NEW i \in 1..Len(s)
                 PROVE  InGroup(s[i]) \subseteq InQueue(q) \cup InQueue(r)
      BY DEF InQueue
    <2>1. CASE i \in 1..m
      BY <1>1, <1>2, <2>1 DEF InQueue
    <2>2. CASE ~(i \in 1..m)
      <3>1. PICK j \in 1..n : i = j + m
        BY <1>3, <2>2
      <3> QED BY <1>1, <1>2, <3>1 DEF InQueue
    <2> QED BY <2>1, <2>2
  <1>5. InQueue(q) \cup InQueue(r) \subseteq InQueue(s)
    <2>1. InQueue(q) \subseteq InQueue(s)
      BY <1>1, <1>2 DEF InQueue
    <2>2. ASSUME NEW i \in 1..Len(r) PROVE InGroup(r[i]) \subseteq InQueue(s)
      <3>1. PICK k \in 1..Len(s) : s[k] = r[i]
        BY <1>1, <1>2
      <3> QED BY <3>1 DEF InQueue
    <2>3. InQueue(r) \subseteq InQueue(s)
      BY <2>2 DEF InQueue
    <2> QED BY <2>1, <2>3
  <1>6. ASSUME NEW l \in 1..Len(s)
        PROVE  /\ GroupInOrder(s[l], R)
               /\ \A k \in 1..(l - 1) : Ahead(InGroup(s[k]), InGroup(s[l]), R)
    <2>1. CASE l \in 1..m
      <3>1. s[l] = q[l] /\ \A k \in 1..(l - 1) : s[k] = q[k]
        BY <1>2, <2>1
      <3> QED BY <1>1, <2>1, <3>1 DEF QueueInOrder
    <2>2. CASE ~(l \in 1..m)
      <3>1. PICK j \in 1..n : l = j + m
        BY <1>3, <2>2
      <3>2. s[l] = r[j]
        BY <1>2, <3>1
      <3>3. ASSUME NEW k \in 1..(l - 1) PROVE Ahead(InGroup(s[k]), InGroup(r[j]), R)
        <4>1. CASE k \in 1..m
          <5>1. InGroup(s[k]) \subseteq InQueue(q) /\ InGroup(r[j]) \subseteq InQueue(r)
            BY <1>1, <1>2, <4>1 DEF InQueue
          <5> QED BY <5>1 DEF Ahead
        <4>2. CASE ~(k \in 1..m)
          <5>1. k \in 1..Len(s)
            BY <1>2
          <5>2. PICK h \in 1..n : k = h + m
            BY <1>3, <4>2, <5>1
          <5>3. h \in 1..(j - 1) /\ s[k] = r[h]
            BY <1>2, <3>1, <5>2
          <5> QED BY <1>1, <5>3 DEF QueueInOrder
        <4> QED BY <4>1, <4>2
      <3>4. GroupInOrder(r[j], R)
        BY <1>1 DEF QueueInOrder
      <3> QED BY <3>2, <3>3, <3>4
    <2> QED BY <2>1, <2>2
  <1>7. QueueInOrder(s, R)
    BY <1>6 DEF QueueInOrder
  <1> QED BY <1>1, <1>4, <1>5, <1>7

\* A group of one packet.
LEMMA OnePacket ==
  ASSUME NEW p \in Seq(Datagrams), NEW R, PacketInOrder(p, R)
  PROVE  <<p>> \in Groups /\ InGroup(<<p>>) = Elements(p) /\ GroupInOrder(<<p>>, R)
  <1>1. PICK g : g = <<p>>
    OBVIOUS
  <1>2. g \in Groups /\ Len(g) = 1 /\ g[1] = p /\ 1..1 = {1} /\ 1..(1 - 1) = {}
    BY <1>1 DEF Groups
  <1>3. InGroup(g) = Elements(p)
    BY <1>2 DEF InGroup
  <1>4. GroupInOrder(g, R)
    BY <1>2 DEF GroupInOrder
  <1> QED BY <1>1, <1>2, <1>3, <1>4

\* The pipeline holds what waits, in order.
LEMMA PipelineInOrder ==
  ASSUME IInv, IntakeStages
  PROVE  /\ Pipeline \in Seq(Groups)
         /\ InQueue(Pipeline) = Waiting
         /\ QueueInOrder(Pipeline, ReadBefore)
  <1> USE IntakeAssumption DEF IntakeAssumption
  <1>1. PICK x : x = IF message = None THEN <<>> ELSE <<message>>
    OBVIOUS
  <1>2. /\ packetsIn \in Seq(Groups) /\ held \in Groups /\ packetsChannel \in Seq(Groups)
        /\ packets \in Groups /\ Pending \in Seq(Datagrams) /\ x \in Seq(Datagrams)
    BY <1>1 DEF IInv, TypeOK, BufferTypeOK, QueueTypeOK, Pending
  <1>3. Elements(x) = Unplaced /\ PacketInOrder(x, ReadBefore) /\ PacketInOrder(Pending, ReadBefore)
    <2>1. Elements(x) = Unplaced
      BY <1>1 DEF Elements, Unplaced
    <2>2. PacketInOrder(x, ReadBefore)
      BY <1>1 DEF PacketInOrder
    <2>3. PacketInOrder(Pending, ReadBefore)
      BY DEF IntakeStages, EachInOrder, Pending, PacketInOrder
    <2> QED BY <2>1, <2>2, <2>3
  <1>4. PICK e, f : e = <<Pending>> /\ f = <<x>>
    OBVIOUS
  <1>5. /\ e \in Groups /\ InGroup(e) = Elements(Pending) /\ GroupInOrder(e, ReadBefore)
        /\ f \in Groups /\ InGroup(f) = Unplaced /\ GroupInOrder(f, ReadBefore)
    BY <1>2, <1>3, <1>4, OnePacket
  <1>6. PICK s1 : s1 = Append(packetsIn, held)
    OBVIOUS
  <1>7. PICK s2 : s2 = s1 \o packetsChannel
    OBVIOUS
  <1>8. PICK s3 : s3 = Append(s2, packets)
    OBVIOUS
  <1>9. PICK s4 : s4 = Append(s3, e)
    OBVIOUS
  <1>10. PICK s5 : s5 = Append(s4, f)
    OBVIOUS
  <1>11. s1 \in Seq(Groups) /\ s2 \in Seq(Groups) /\ s3 \in Seq(Groups)
         /\ s4 \in Seq(Groups) /\ s5 \in Seq(Groups)
    BY <1>2, <1>5, <1>6, <1>7, <1>8, <1>9, <1>10
  <1>12. Pipeline = s5
    <2>1. packetsIn \o <<held>> = s1
      BY <1>2, <1>6
    <2>2. s2 \o <<packets, e, f>> = s5
      BY <1>2, <1>5, <1>8, <1>9, <1>10, <1>11
    <2>3. Pipeline = packetsIn \o <<held>> \o packetsChannel \o <<packets, e, f>>
      BY <1>1, <1>4 DEF Pipeline
    <2> QED BY <1>7, <2>1, <2>2, <2>3
  <1>13. /\ Lined(InQueue(packetsIn), InGroup(held), InQueue(packetsChannel),
                  InGroup(packets), InGroup(e), InGroup(f), ReadBefore)
         /\ QueueInOrder(packetsIn, ReadBefore) /\ GroupInOrder(held, ReadBefore)
         /\ QueueInOrder(packetsChannel, ReadBefore) /\ GroupInOrder(packets, ReadBefore)
    BY <1>5 DEF IntakeStages, StagesLined, EachInOrder
  <1>14. InQueue(s1) = InQueue(packetsIn) \cup InGroup(held) /\ QueueInOrder(s1, ReadBefore)
    <2>1. Ahead(InQueue(packetsIn), InGroup(held), ReadBefore)
      BY <1>13 DEF Lined, Ahead
    <2> QED BY <1>2, <1>6, <1>13, <2>1, QueueAppend, QueueOrderAppend
  <1>15. InQueue(s2) = InQueue(s1) \cup InQueue(packetsChannel) /\ QueueInOrder(s2, ReadBefore)
    <2>1. Ahead(InQueue(s1), InQueue(packetsChannel), ReadBefore)
      BY <1>13, <1>14 DEF Lined, Ahead
    <2> QED BY <1>2, <1>7, <1>11, <1>13, <1>14, <2>1, QueueConcat
  <1>16. InQueue(s3) = InQueue(s2) \cup InGroup(packets) /\ QueueInOrder(s3, ReadBefore)
    <2>1. Ahead(InQueue(s2), InGroup(packets), ReadBefore)
      BY <1>13, <1>14, <1>15 DEF Lined, Ahead
    <2> QED BY <1>2, <1>8, <1>11, <1>13, <1>15, <2>1, QueueAppend, QueueOrderAppend
  <1>17. InQueue(s4) = InQueue(s3) \cup InGroup(e) /\ QueueInOrder(s4, ReadBefore)
    <2>1. Ahead(InQueue(s3), InGroup(e), ReadBefore)
      BY <1>13, <1>14, <1>15, <1>16 DEF Lined, Ahead
    <2> QED BY <1>5, <1>9, <1>11, <1>16, <2>1, QueueAppend, QueueOrderAppend
  <1>18. InQueue(s5) = InQueue(s4) \cup InGroup(f) /\ QueueInOrder(s5, ReadBefore)
    <2>1. Ahead(InQueue(s4), InGroup(f), ReadBefore)
      BY <1>13, <1>14, <1>15, <1>16, <1>17 DEF Lined, Ahead
    <2> QED BY <1>5, <1>10, <1>11, <1>17, <2>1, QueueAppend, QueueOrderAppend
  <1>19. InQueue(s5) = Waiting
    BY <1>5, <1>14, <1>15, <1>16, <1>17, <1>18 DEF Waiting
  <1> QED BY <1>11, <1>12, <1>18, <1>19

\* The places of the pipeline.
LEMMA PlacesAre ==
  /\ \A p \in Places : /\ p = <<p[1], p[2]>>
                       /\ p[1] \in 1..Len(Pipeline)
                       /\ p[2] \in Positions(Pipeline[p[1]])
                       /\ At(p) \in InGroup(Pipeline[p[1]])
                       /\ At(p) \in InQueue(Pipeline)
  /\ \A d \in InQueue(Pipeline) : \E p \in Places : At(p) = d
  <1>1. \A p \in Places : /\ p = <<p[1], p[2]>>
                          /\ p[1] \in 1..Len(Pipeline)
                          /\ p[2] \in Positions(Pipeline[p[1]])
    BY DEF Places
  <1>2. \A p \in Places : At(p) \in InGroup(Pipeline[p[1]])
    BY <1>1, PositionsAre DEF At
  <1>3. \A p \in Places : At(p) \in InQueue(Pipeline)
    BY <1>1, <1>2 DEF InQueue
  <1>4. ASSUME NEW d \in InQueue(Pipeline) PROVE \E p \in Places : At(p) = d
    <2>1. PICK k \in 1..Len(Pipeline) : d \in InGroup(Pipeline[k])
      BY <1>4 DEF InQueue
    <2>2. PICK r \in Positions(Pipeline[k]) : Pipeline[k][r[1]][r[2]] = d
      BY <2>1, PositionsAre
    <2>3. <<k, r>> \in Places /\ At(<<k, r>>) = d
      BY <2>2 DEF Places, At
    <2> QED BY <2>3
  <1> QED BY <1>1, <1>2, <1>3, <1>4

\* The order of the places is the order of arrival.
LEMMA PlacesInOrder ==
  ASSUME IInv, IntakeStages, NEW p \in Places, NEW q \in Places, Before(p, q)
  PROVE  <<At(p), At(q)>> \in ReadBefore
  <1>1. PICK k, i, j : k = p[1] /\ i = p[2][1] /\ j = p[2][2]
    OBVIOUS
  <1>2. PICK l, m, n : l = q[1] /\ m = q[2][1] /\ n = q[2][2]
    OBVIOUS
  <1>3. /\ Pipeline \in Seq(Groups) /\ QueueInOrder(Pipeline, ReadBefore)
    BY PipelineInOrder
  <1>4. PICK g, h : g = Pipeline[k] /\ h = Pipeline[l]
    OBVIOUS
  <1>5. /\ k \in 1..Len(Pipeline) /\ l \in 1..Len(Pipeline)
        /\ p[2] \in Positions(g) /\ q[2] \in Positions(h)
        /\ At(p) \in InGroup(g) /\ At(q) \in InGroup(h)
        /\ At(p) = g[i][j] /\ At(q) = h[m][n]
    BY <1>1, <1>2, <1>4, PlacesAre DEF At
  <1>6. /\ i \in 1..Len(g) /\ j \in 1..Len(g[i])
        /\ m \in 1..Len(h) /\ n \in 1..Len(h[m])
        /\ g \in Groups /\ h \in Groups /\ Len(Pipeline) \in Nat
    <2>1. i \in 1..Len(g) /\ j \in 1..Len(g[i])
      BY <1>1, <1>5, PositionsAre
    <2>2. m \in 1..Len(h) /\ n \in 1..Len(h[m])
      BY <1>2, <1>5, PositionsAre
    <2>3. g \in Groups /\ h \in Groups /\ Len(Pipeline) \in Nat
      <3>1. PICK s : s = Pipeline
        OBVIOUS
      <3>2. s \in Seq(Groups) /\ k \in 1..Len(s) /\ l \in 1..Len(s)
        BY <1>3, <1>5, <3>1
      <3>3. s[k] \in Groups /\ s[l] \in Groups /\ Len(s) \in Nat
        BY <3>2
      <3> QED BY <1>4, <3>1, <3>3
    <2> QED BY <2>1, <2>2, <2>3
  <1>7. k < l \/ (k = l /\ i < m) \/ (k = l /\ i = m /\ j < n)
    BY <1>1, <1>2 DEF Before
  <1>8. CASE k < l
    <2>1. k \in 1..(l - 1)
      BY <1>5, <1>6, <1>8
    <2>2. Ahead(InGroup(g), InGroup(h), ReadBefore)
      BY <1>3, <1>4, <1>5, <2>1 DEF QueueInOrder
    <2> QED BY <1>5, <2>2 DEF Ahead
  <1>9. CASE k = l /\ i < m
    <2>1. g = h /\ GroupInOrder(h, ReadBefore) /\ Len(h) \in Nat
      BY <1>3, <1>4, <1>5, <1>6, <1>9 DEF QueueInOrder, Groups
    <2>2. i \in 1..(m - 1)
      BY <1>6, <1>9, <2>1
    <2>3. Ahead(Elements(h[i]), Elements(h[m]), ReadBefore)
      BY <1>6, <2>1, <2>2 DEF GroupInOrder
    <2>4. h[i][j] \in Elements(h[i]) /\ h[m][n] \in Elements(h[m])
      BY <1>6, <2>1 DEF Elements
    <2> QED BY <1>5, <2>1, <2>3, <2>4 DEF Ahead
  <1>10. CASE k = l /\ i = m /\ j < n
    <2>1. g = h /\ GroupInOrder(h, ReadBefore) /\ h[m] \in Seq(Datagrams)
      BY <1>3, <1>4, <1>5, <1>6, <1>10 DEF QueueInOrder, Groups
    <2>2. PacketInOrder(h[m], ReadBefore) /\ Len(h[m]) \in Nat
      BY <1>6, <2>1 DEF GroupInOrder
    <2>3. j \in 1..(n - 1)
      BY <1>6, <1>10, <2>1, <2>2
    <2> QED BY <1>5, <1>6, <1>10, <2>1, <2>2, <2>3 DEF PacketInOrder
  <1> QED BY <1>7, <1>8, <1>9, <1>10

\* A datagram is at one place of the pipeline.
LEMMA PlacedOnce ==
  ASSUME IInv, IntakeStages, NEW p \in Places, NEW q \in Places, At(p) = At(q)
  PROVE  p = q
  <1> SUFFICES ASSUME p # q PROVE FALSE
    OBVIOUS
  <1>1. \A x : <<x, x>> \notin ReadBefore
    BY ReadBeforeStrict DEF IntakeStages
  <1>2. PICK k, i, j : k = p[1] /\ i = p[2][1] /\ j = p[2][2]
    OBVIOUS
  <1>3. PICK l, m, n : l = q[1] /\ m = q[2][1] /\ n = q[2][2]
    OBVIOUS
  <1>4. p = <<k, <<i, j>>>> /\ k \in Nat /\ i \in Nat /\ j \in Nat
    <2>1. p = <<k, p[2]>> /\ k \in 1..Len(Pipeline) /\ p[2] \in Positions(Pipeline[k])
      BY <1>2, PlacesAre
    <2>2. p[2] = <<i, j>> /\ i \in 1..Len(Pipeline[k]) /\ j \in 1..Len(Pipeline[k][i])
      BY <1>2, <2>1, PositionsAre
    <2>3. k \in Nat /\ i \in Nat /\ j \in Nat
      BY <2>1, <2>2
    <2> QED BY <2>1, <2>2, <2>3
  <1>5. q = <<l, <<m, n>>>> /\ l \in Nat /\ m \in Nat /\ n \in Nat
    <2>1. q = <<l, q[2]>> /\ l \in 1..Len(Pipeline) /\ q[2] \in Positions(Pipeline[l])
      BY <1>3, PlacesAre
    <2>2. q[2] = <<m, n>> /\ m \in 1..Len(Pipeline[l]) /\ n \in 1..Len(Pipeline[l][m])
      BY <1>3, <2>1, PositionsAre
    <2>3. l \in Nat /\ m \in Nat /\ n \in Nat
      BY <2>1, <2>2
    <2> QED BY <2>1, <2>2, <2>3
  <1>6. Before(p, q) \/ Before(q, p)
    <2>1. k # l \/ i # m \/ j # n
      BY <1>4, <1>5
    <2>2. \/ k < l \/ (k = l /\ i < m) \/ (k = l /\ i = m /\ j < n)
          \/ l < k \/ (l = k /\ m < i) \/ (l = k /\ m = i /\ n < j)
      BY <1>4, <1>5, <2>1
    <2> QED BY <1>2, <1>3, <2>2 DEF Before
  <1> QED BY <1>1, <1>6, PlacesInOrder

\* A worker has a datagram at one position, and only one worker has it.
LEMMA TakenOnce ==
  ASSUME IInv, IntakeStages, NEW d
  PROVE  Cardinality({p \in UNION {{w} \X Positions(working[w]) : w \in Workers} :
                        working[p[1]][p[2][1]][p[2][2]] = d})
           = IF d \in Taken THEN 1 ELSE 0
  <1> DEFINE S == {p \in UNION {{w} \X Positions(working[w]) : w \in Workers} :
                     working[p[1]][p[2][1]][p[2][2]] = d}
  <1>1. \A x : <<x, x>> \notin ReadBefore
    BY ReadBeforeStrict DEF IntakeStages
  <1>2. ASSUME NEW p \in S
        PROVE  /\ p = <<p[1], p[2]>> /\ p[1] \in Workers /\ p[2] \in Positions(working[p[1]])
               /\ working[p[1]][p[2][1]][p[2][2]] = d /\ d \in InGroup(working[p[1]])
    <2>1. /\ p = <<p[1], p[2]>> /\ p[1] \in Workers /\ p[2] \in Positions(working[p[1]])
          /\ working[p[1]][p[2][1]][p[2][2]] = d
      BY <1>2
    <2>2. d \in InGroup(working[p[1]])
      BY <2>1, PositionsAre
    <2> QED BY <2>1, <2>2
  <1>3. ASSUME NEW p \in S, NEW q \in S PROVE p = q
    <2>1. PICK w : w = p[1]
      OBVIOUS
    <2>2. PICK a, b : a = p[2] /\ b = q[2]
      OBVIOUS
    <2>3. /\ w \in Workers /\ q[1] \in Workers /\ a \in Positions(working[w])
          /\ d \in InGroup(working[w]) /\ d \in InGroup(working[q[1]])
          /\ working[w][a[1]][a[2]] = d
          /\ p = <<w, a>> /\ q = <<q[1], b>>
      BY <1>2, <1>3, <2>1, <2>2
    <2>4. q[1] = w
      BY <2>3 DEF IntakeStages, Apart
    <2>5. b \in Positions(working[w]) /\ working[w][b[1]][b[2]] = d
      BY <1>2, <1>3, <2>2, <2>4
    <2>6. working[w] \in Groups /\ GroupInOrder(working[w], ReadBefore)
      BY <2>3 DEF IInv, TypeOK, ParserTypeOK, IntakeStages, EachInOrder
    <2>7. a = b
      BY <1>1, <2>3, <2>5, <2>6, PositionOnce
    <2> QED BY <2>3, <2>4, <2>7
  <1>4. S # {} <=> d \in Taken
    <2>1. S # {} => d \in Taken
      BY <1>2 DEF Taken
    <2>2. ASSUME d \in Taken PROVE S # {}
      <3>1. PICK w \in Workers : d \in InGroup(working[w])
        BY <2>2 DEF Taken
      <3>2. PICK r \in Positions(working[w]) : working[w][r[1]][r[2]] = d
        BY <3>1, PositionsAre
      <3>3. <<w, r>> \in S
        BY <3>2
      <3> QED BY <3>3
    <2> QED BY <2>1, <2>2
  <1> HIDE DEF S
  <1>5. Cardinality(S) = IF d \in Taken THEN 1 ELSE 0
    BY <1>3, <1>4, AtMostOne
  <1> QED BY <1>5 DEF S

\* Every datagram with bytes that was read is in one place.
LEMMA OncePlaced == IInv /\ IntakeStages => ExactlyOnce
  <1> SUFFICES ASSUME IInv, IntakeStages, NEW d \in Datagrams, Size[d] > 0
               PROVE  Copies(d) = IF d \in Elements(arrivals) THEN 1 ELSE 0
    BY DEF ExactlyOnce
  <1>1. Cardinality({p \in Places : At(p) = d}) = IF d \in Waiting THEN 1 ELSE 0
    <2> DEFINE S == {p \in Places : At(p) = d}
    <2>1. \A p, q \in S : p = q
      BY PlacedOnce
    <2>2. S # {} <=> d \in Waiting
      BY PlacesAre, PipelineInOrder
    <2> HIDE DEF S
    <2>3. Cardinality(S) = IF d \in Waiting THEN 1 ELSE 0
      BY <2>1, <2>2, AtMostOne
    <2> QED BY <2>3 DEF S
  <1>2. parsed[d] + (IF d \in skipped THEN 1 ELSE 0) = IF d \in Seen THEN 1 ELSE 0
    BY DEF IntakeStages, Apart, Seen
  <1>3. parsed[d] \in Nat
    BY DEF IInv, TypeOK, ParserTypeOK
  <1>4. PICK a, b, c : /\ a = IF d \in Waiting THEN 1 ELSE 0
                       /\ b = IF d \in Taken THEN 1 ELSE 0
                       /\ c = IF d \in skipped THEN 1 ELSE 0
    OBVIOUS
  <1>5. Copies(d) = a + b + parsed[d] + c
    BY <1>1, <1>4, TakenOnce DEF Copies
  <1>6. d \in Elements(arrivals) <=> d \in Waiting \/ d \in Taken \/ d \in Seen
    BY DEF IntakeStages, Complete
  <1>7. /\ ~(d \in Waiting /\ d \in Taken) /\ ~(d \in Waiting /\ d \in Seen)
        /\ ~(d \in Taken /\ d \in Seen)
    BY DEF IntakeStages, Apart
  <1>8. parsed[d] + c = IF d \in Seen THEN 1 ELSE 0
    BY <1>2, <1>4
  <1> QED BY <1>3, <1>4, <1>5, <1>6, <1>7, <1>8

(***************************************************************************)
(* The flushes of the listener and of the two tickers keep every byte,     *)
(* every datagram and the order of the datagrams, for every buffer size,   *)
(* queue size and number of workers, with or without the forwarder.        *)
(***************************************************************************)
THEOREM IntakeKeepsAll == Spec => []IntakeExact
  <1>1. IInv /\ IntakeStages => IntakeExact
    <2> SUFFICES ASSUME IInv, IntakeStages PROVE IntakeExact
      OBVIOUS
    <2>1. PacketExact
      BY DEF IntakeStages
    <2>2. ExactlyOnce
      BY OncePlaced
    <2>3. ASSUME NEW p \in Places, NEW q \in Places, Before(p, q)
          PROVE  Arrival(At(p)) < Arrival(At(q))
      <3>1. PICK a, b : a = At(p) /\ b = At(q)
        OBVIOUS
      <3>2. <<a, b>> \in ReadBefore
        BY <2>3, <3>1, PlacesInOrder
      <3>3. Arrival(b) \in 1..Len(arrivals) /\ Arrival(a) \in 1..(Arrival(b) - 1)
        BY <3>2, ArrivalOrder DEF IntakeStages
      <3>4. Len(arrivals) \in Nat
        BY DEF IInv, TypeOK, BufferTypeOK
      <3>5. Arrival(a) < Arrival(b)
        BY <3>3, <3>4
      <3> QED BY <3>1, <3>5
    <2>4. InArrivalOrder
      BY <2>3 DEF InArrivalOrder
    <2> QED BY <2>1, <2>2, <2>4 DEF IntakeExact
  <1>2. Init => IInv /\ IntakeStages
    BY InitIInv, InitStages
  <1>3. (IInv /\ IntakeStages) /\ [Next]_vars => (IInv /\ IntakeStages)'
    BY NextIInv, NextStages
  <1> QED BY <1>1, <1>2, <1>3, PTL DEF Spec

(***************************************************************************)
(* A datagram the parser never came to came after one that has an empty    *)
(* line or was empty, whatever was merged with what.                       *)
(***************************************************************************)
THEOREM SkipsExplained == Spec => []SkippedBehindBlank
  <1>1. IInv /\ IntakeStages => SkippedBehindBlank
    <2> SUFFICES ASSUME IInv, IntakeStages, NEW d \in skipped
                 PROVE  \E i \in 1..(Arrival(d) - 1) :
                          arrivals[i] \in Blank \/ Size[arrivals[i]] = 0
      BY DEF SkippedBehindBlank
    <2>1. PICK e \in Datagrams : <<e, d>> \in ReadBefore /\ EndsParsing(e)
      BY DEF IntakeStages, SkippedLate
    <2>2. Arrival(e) \in 1..(Arrival(d) - 1) /\ arrivals[Arrival(e)] = e
      BY <2>1, ArrivalOrder DEF IntakeStages
    <2> QED BY <2>1, <2>2 DEF EndsParsing
  <1>2. Init => IInv /\ IntakeStages
    BY InitIInv, InitStages
  <1>3. (IInv /\ IntakeStages) /\ [Next]_vars => (IInv /\ IntakeStages)'
    BY NextIInv, NextStages
  <1> QED BY <1>1, <1>2, <1>3, PTL DEF Spec

-----------------------------------------------------------------------------
(***************************************************************************)
(* Server.Stop: a flush left on a full channel, for good.                  *)
(***************************************************************************)

\* A goroutine that neither sends nor has ended may go on: those that are
\* stuck, and those that have ended, stay what they are.
LEMMA OthersGoOn ==
  ASSUME ControlTypeOK, StuckOnFullChannel, UNCHANGED <<packetsChannel, packetsIn>>,
         NEW g \in Goroutines, NEW from, NEW to \in Points, Goto(g, from, to),
         from # "done", from # "send"
  PROVE  StuckOnFullChannel'
  <1>1. /\ Readers \subseteq Goroutines /\ Flushers \subseteq Goroutines
        /\ Workers \subseteq Goroutines /\ "forwarder" \in Goroutines
    BY DEF Readers, Goroutines
  <1>2. \A h \in Goroutines : pc[h] \in {"done", "send"} => pc'[h] = pc[h]
    BY GotoMoves
  <1>3. \E h \in Flushers : pc'[h] = "send"
    BY <1>1, <1>2 DEF StuckOnFullChannel
  <1>4. ForwarderStuck => ForwarderStuck'
    BY <1>1, <1>2 DEF ForwarderStuck, HasRoom
  <1>5. \A r \in Readers : pc'[r] = "done" \/ (r = "forwarder" /\ ForwarderStuck')
    BY <1>1, <1>2, <1>4 DEF StuckOnFullChannel
  <1>6. Len(packetsChannel') = QueueSize
    BY DEF StuckOnFullChannel
  <1>7. Readers' = Readers
    BY DEF Readers
  <1> QED BY <1>3, <1>5, <1>6, <1>7 DEF StuckOnFullChannel

\* The listener and the flush loops: the channel has no room for a send.
LEMMA FlushersStuck ==
  ASSUME ControlTypeOK, StuckOnFullChannel,
         \/ \E d \in Datagrams : ReadFrom(d)
         \/ ReadClosed \/ AddMessage \/ PacketLoop \/ PacketsLoop \/ ExitLoops
  PROVE  StuckOnFullChannel'
  <1> USE IntakeAssumption DEF IntakeAssumption
  <1>1. /\ "listener" \in Goroutines /\ "packetLoop" \in Goroutines
        /\ "packetsLoop" \in Goroutines
    BY DEF Goroutines, Flushers
  <1>2. ASSUME NEW g, SendPackets(g) PROVE FALSE
    BY <1>2 DEF SendPackets, StuckOnFullChannel
  <1>3. ASSUME NEW g \in {"listener", "packetLoop"}, AppendPacket(g)
        PROVE  /\ UNCHANGED <<packetsChannel, packetsIn>>
               /\ \E to \in Points : Goto(g, "append", to)
    BY <1>3 DEF AppendPacket, Appended, FlushReturns, queueVars, Points
  <1>4. ASSUME NEW d \in Datagrams, ReadFrom(d) PROVE StuckOnFullChannel'
    BY <1>1, <1>4, OthersGoOn DEF ReadFrom, queueVars, Points
  <1>5. CASE ReadClosed
    BY <1>1, <1>5, OthersGoOn DEF ReadClosed, queueVars, Points
  <1>6. CASE StartPacket \/ MergeMessage \/ OverflowPacket
    <2>1. /\ UNCHANGED <<packetsChannel, packetsIn>>
          /\ \E to \in Points : Goto("listener", "add", to)
      BY <1>6 DEF StartPacket, MergeMessage, OverflowPacket, Overflow,
         queueVars, Points
    <2> QED BY <1>1, <2>1, OthersGoOn
  <1>7. CASE TickPacket \/ LockPacket
    <2>1. /\ UNCHANGED <<packetsChannel, packetsIn>>
          /\ \E from \in {"wait", "lock"}, to \in Points : Goto("packetLoop", from, to)
      BY <1>7 DEF TickPacket, LockPacket, LockPacketThen, queueVars, Points
    <2> QED BY <1>1, <2>1, OthersGoOn
  <1>8. CASE TickPackets \/ LockPackets
    <2>1. /\ UNCHANGED <<packetsChannel, packetsIn>>
          /\ \E from \in {"wait", "lock"}, to \in Points : Goto("packetsLoop", from, to)
      BY <1>8 DEF TickPackets, LockPackets, LockPacketsThen, queueVars, Points
    <2> QED BY <1>1, <2>1, OthersGoOn
  <1>9. CASE ExitLoops
    <2>1. /\ UNCHANGED <<packetsChannel, packetsIn>>
          /\ \E g \in {"packetLoop", "packetsLoop"} : Goto(g, "wait", "done")
      BY <1>9 DEF ExitLoops, ExitLoop, queueVars
    <2>2. "done" \in Points
      BY DEF Points
    <2> QED BY <1>1, <2>1, <2>2, OthersGoOn
  <1>10. ASSUME NEW g \in {"listener", "packetLoop"}, AppendPacket(g)
         PROVE  StuckOnFullChannel'
    BY <1>1, <1>3, <1>10, OthersGoOn
  <1> QED BY <1>2, <1>4, <1>5, <1>6, <1>7, <1>8, <1>9, <1>10
          DEF AddMessage, PacketLoop, PacketsLoop, Flush

\* The readers: those of the full channel have ended or are stuck themselves.
LEMMA ReadersStuck ==
  ASSUME ControlTypeOK, StuckOnFullChannel,
         Forwarder \/ \E w \in Workers : Worker(w)
  PROVE  StuckOnFullChannel'
  <1> USE IntakeAssumption DEF IntakeAssumption
  <1>1. "forwarder" \in Goroutines /\ Workers \subseteq Goroutines
        /\ "forwarder" \notin Workers
    BY DEF Goroutines
  <1>2. /\ Forwarding => pc["forwarder"] = "done" \/ ForwarderStuck
        /\ ~Forwarding => \A w \in Workers : pc[w] = "done"
    BY <1>1 DEF StuckOnFullChannel, Readers
  <1>3. ASSUME ReceiveToForward \/ ExitForwarder PROVE FALSE
    BY <1>2, <1>3 DEF ReceiveToForward, ExitForwarder, Goto, ForwarderStuck
  <1>4. CASE PassOn
    <2>1. ~Forwarding
      BY <1>2, <1>4 DEF PassOn, Goto, ForwarderStuck
    <2>2. /\ UNCHANGED packetsChannel
          /\ \A h \in Goroutines \ {"forwarder"} : pc'[h] = pc[h]
      BY <1>4 DEF PassOn, Goto, ControlTypeOK
    <2>3. Flushers \subseteq Goroutines \ {"forwarder"}
      BY DEF Flushers, Goroutines
    <2>4. /\ Len(packetsChannel') = QueueSize
          /\ \E g \in Flushers : pc'[g] = "send"
          /\ \A w \in Workers : pc'[w] = "done"
      BY <1>1, <1>2, <2>1, <2>2, <2>3 DEF StuckOnFullChannel
    <2> QED BY <2>1, <2>4 DEF StuckOnFullChannel, Readers
  <1>5. ASSUME NEW w \in Workers, ParsePackets(w) PROVE StuckOnFullChannel'
    BY <1>1, <1>5, OthersGoOn DEF ParsePackets, queueVars, Points
  <1>6. ASSUME NEW w \in Workers, ExitWorker(w) PROVE StuckOnFullChannel'
    BY <1>1, <1>6, OthersGoOn DEF ExitWorker, queueVars, Points
  <1>7. ASSUME NEW w \in Workers, ReceivePackets(w) PROVE StuckOnFullChannel'
    <2>1. pc[w] = "wait" /\ w \in Goroutines
      BY <1>1, <1>7 DEF ReceivePackets, Goto
    <2>2. Forwarding /\ pc["forwarder"] = "done"
      BY <1>2, <2>1 DEF ForwarderStuck
    <2>3. UNCHANGED packetsChannel
      BY <1>7, <2>2 DEF ReceivePackets
    <2>4. \A h \in Goroutines \ {w} : pc'[h] = pc[h]
      BY <1>7 DEF ReceivePackets, Goto, ControlTypeOK
    <2>5. Flushers \subseteq Goroutines /\ w \notin Flushers /\ w # "forwarder"
      BY <1>1 DEF Flushers, Goroutines
    <2>6. /\ Len(packetsChannel') = QueueSize
          /\ \E g \in Flushers : pc'[g] = "send"
          /\ pc'["forwarder"] = "done"
      BY <1>1, <2>2, <2>3, <2>4, <2>5 DEF StuckOnFullChannel
    <2> QED BY <2>2, <2>6 DEF StuckOnFullChannel, Readers
  <1> QED BY <1>3, <1>4, <1>5, <1>6, <1>7 DEF Forwarder, Worker

\* No step of anybody makes room in the channel.
LEMMA StaysFull ==
  ASSUME ControlTypeOK, StuckOnFullChannel, [Next]_vars
  PROVE  StuckOnFullChannel'
  <1>1. CASE Stop \/ CloseAll
    <2>1. "stop" \in Goroutines
      BY DEF Goroutines
    <2>2. /\ UNCHANGED <<packetsChannel, packetsIn>>
          /\ \E from \in {"running", "closePacket", "closePackets", "closeConn"},
                to \in Points : Goto("stop", from, to)
      BY <1>1 DEF Stop, CloseAll, ClosePacketBuffer, ClosePacketsBuffer,
         CloseConn, Close, queueVars, Points
    <2> QED BY <2>1, <2>2, OthersGoOn
  <1>2. CASE UNCHANGED vars
    BY <1>2 DEF vars, queueVars, StuckOnFullChannel, ForwarderStuck, HasRoom,
       Readers
  <1> QED BY <1>1, <1>2, FlushersStuck, ReadersStuck DEF Next

\* A flush that Stop leaves on a full channel whose readers have gone never
\* returns: its goroutine stays in the send for ever.
THEOREM StuckForGood ==
  Spec => [](StuckOnFullChannel => [](\E g \in Flushers : pc[g] = "send"))
  <1>1. IInv => ControlTypeOK
    BY DEF IInv, TypeOK
  <1>2. ControlTypeOK /\ StuckOnFullChannel /\ [Next]_vars => StuckOnFullChannel'
    BY StaysFull
  <1>3. StuckOnFullChannel => \E g \in Flushers : pc[g] = "send"
    BY DEF StuckOnFullChannel
  <1>4. Spec => []IInv
    BY InitIInv, NextIInv, PTL DEF Spec
  <1> QED BY <1>1, <1>2, <1>3, <1>4, PTL DEF Spec
=============================================================================
