--------------------------- MODULE LogsAgentProofs ---------------------------
(***************************************************************************)
(* Proofs about LogsAgent for any number of files, lines, tailers and      *)
(* faults, and for every size of the channels and of the batch.            *)
(***************************************************************************)
EXTENDS LogsAgent, TLAPS

-----------------------------------------------------------------------------
(***************************************************************************)
(* Queues of messages and the lines in them.                               *)
(***************************************************************************)

\* Membership in the lines up to an offset.
LEMMA UpToElements ==
  ASSUME NEW g, NEW n, NEW lines
  PROVE  UpTo(g, n) \subseteq lines <=> \A i \in 1..n : <<g, i>> \in lines
  BY DEF UpTo

\* Appending and taking the head, in a queue of messages.
LEMMA QueueType ==
  ASSUME NEW q \in Seq(Messages)
  PROVE  /\ \A m \in Messages :
              Append(q, m) \in Seq(Messages) /\ Len(Append(q, m)) = Len(q) + 1
         /\ q # <<>> => /\ Head(q) \in Messages /\ Tail(q) \in Seq(Messages)
                        /\ Len(Tail(q)) = Len(q) - 1 /\ Len(q) > 0
         /\ Len(q) \in Nat
  OBVIOUS

\* The lines of an empty queue, and an order no message can break.
LEMMA EmptyQueue ==
  /\ LinesOf(<<>>) = {}
  /\ \A lines : Ordered(<<>>, lines)
  BY DEF LinesOf, FirstLines, Ordered

\* The lines of a longer queue.
LEMMA AppendLines ==
  ASSUME NEW q \in Seq(Messages), NEW m \in Messages
  PROVE  /\ LinesOf(Append(q, m)) = LinesOf(q) \cup {LineOf(m)}
         /\ \A i \in 1..Len(q) : FirstLines(Append(q, m), i) = FirstLines(q, i)
  <1>1. /\ \A j \in 1..Len(q) : Append(q, m)[j] = q[j]
        /\ Append(q, m)[Len(q) + 1] = m
        /\ Len(Append(q, m)) = Len(q) + 1 /\ Len(q) \in Nat
    OBVIOUS
  <1>2. \A i \in 0..Len(q) : FirstLines(Append(q, m), i) = FirstLines(q, i)
    <2> SUFFICES ASSUME NEW i \in 0..Len(q)
                 PROVE  FirstLines(Append(q, m), i) = FirstLines(q, i)
      OBVIOUS
    <2>1. \A j \in 1..i : j \in 1..Len(q)
      OBVIOUS
    <2> QED BY <1>1, <2>1 DEF FirstLines
  <1>3. FirstLines(Append(q, m), Len(q) + 1)
          = FirstLines(Append(q, m), Len(q)) \cup {LineOf(m)}
    <2>1. 1..(Len(q) + 1) = (1..Len(q)) \cup {Len(q) + 1}
      BY <1>1
    <2> QED BY <1>1, <2>1 DEF FirstLines
  <1> QED BY <1>1, <1>2, <1>3 DEF LinesOf

\* The lines of a shorter queue.
LEMMA TailLines ==
  ASSUME NEW q \in Seq(Messages), q # <<>>
  PROVE  /\ LinesOf(q) = {LineOf(Head(q))} \cup LinesOf(Tail(q))
         /\ \A i \in 1..Len(Tail(q)) :
              FirstLines(q, i + 1) = {LineOf(Head(q))} \cup FirstLines(Tail(q), i)
  <1>1. \A n \in 1..Len(q) :
          FirstLines(q, n) = {LineOf(Head(q))} \cup FirstLines(Tail(q), n - 1)
    <2> SUFFICES ASSUME NEW n \in 1..Len(q)
                 PROVE  FirstLines(q, n) = {LineOf(Head(q))} \cup FirstLines(Tail(q), n - 1)
      OBVIOUS
    <2>1. /\ Head(q) = q[1]
          /\ \A i \in 1..(n - 1) : Tail(q)[i] = q[i + 1]
          /\ \A i \in 2..n : q[i] = Tail(q)[i - 1] /\ i - 1 \in 1..(n - 1)
      OBVIOUS
    <2> HIDE <2>1
    <2>2. FirstLines(q, n) \subseteq {LineOf(Head(q))} \cup FirstLines(Tail(q), n - 1)
      <3> SUFFICES ASSUME NEW i \in 1..n
                   PROVE  LineOf(q[i]) \in {LineOf(Head(q))} \cup FirstLines(Tail(q), n - 1)
        BY DEF FirstLines
      <3>1. CASE i = 1
        BY <2>1, <3>1
      <3>2. CASE i # 1
        BY <2>1, <3>2 DEF FirstLines
      <3> QED BY <3>1, <3>2
    <2>3. {LineOf(Head(q))} \cup FirstLines(Tail(q), n - 1) \subseteq FirstLines(q, n)
      BY <2>1 DEF FirstLines
    <2> QED BY <2>2, <2>3
  <1>2. Len(q) \in 1..Len(q) /\ Len(Tail(q)) = Len(q) - 1
    OBVIOUS
  <1>3. LinesOf(q) = {LineOf(Head(q))} \cup LinesOf(Tail(q))
    BY <1>1, <1>2 DEF LinesOf
  <1>4. \A i \in 1..Len(Tail(q)) : i + 1 \in 1..Len(q) /\ (i + 1) - 1 = i
    BY <1>2
  <1> QED BY <1>1, <1>3, <1>4

\* More lines ahead keep a queue ordered.
LEMMA OrderedMore ==
  ASSUME NEW q, NEW S, NEW T, Ordered(q, S), S \subseteq T
  PROVE  Ordered(q, T)
  BY DEF Ordered, Covers

\* A message may join when the lines up to its offset are ahead of it.
LEMMA OrderedAppend ==
  ASSUME NEW q \in Seq(Messages), NEW m \in Messages, NEW S, Ordered(q, S),
         Covers(m, S \cup LinesOf(q) \cup {LineOf(m)})
  PROVE  Ordered(Append(q, m), S)
  <1> SUFFICES ASSUME NEW i \in 1..(Len(q) + 1)
               PROVE  Covers(Append(q, m)[i], S \cup FirstLines(Append(q, m), i))
    BY QueueType DEF Ordered
  <1>1. CASE i = Len(q) + 1
    <2>1. Append(q, m)[i] = m /\ i = Len(Append(q, m))
      BY <1>1
    <2>2. FirstLines(Append(q, m), i) = LinesOf(q) \cup {LineOf(m)}
      BY <2>1, AppendLines DEF LinesOf
    <2> QED BY <2>1, <2>2 DEF Covers
  <1>2. CASE i \in 1..Len(q)
    <2>1. Append(q, m)[i] = q[i]
      BY <1>2
    <2>2. FirstLines(Append(q, m), i) = FirstLines(q, i)
      BY <1>2, AppendLines
    <2> QED BY <1>2, <2>1, <2>2 DEF Ordered
  <1> QED BY <1>1, <1>2

\* The head of an ordered queue may go ahead, and leaves the rest in order.
LEMMA OrderedTail ==
  ASSUME NEW q \in Seq(Messages), q # <<>>, NEW S, Ordered(q, S)
  PROVE  /\ Covers(Head(q), S \cup {LineOf(Head(q))})
         /\ Ordered(Tail(q), S \cup {LineOf(Head(q))})
  <1>1. Covers(Head(q), S \cup {LineOf(Head(q))})
    <2>1. Head(q) = q[1] /\ 1 \in 1..Len(q)
      OBVIOUS
    <2>2. FirstLines(q, 1) = {LineOf(q[1])}
      BY DEF FirstLines
    <2> QED BY <2>1, <2>2 DEF Ordered
  <1>2. Ordered(Tail(q), S \cup {LineOf(Head(q))})
    <2> SUFFICES ASSUME NEW i \in 1..Len(Tail(q))
                 PROVE  Covers(Tail(q)[i], S \cup {LineOf(Head(q))} \cup FirstLines(Tail(q), i))
      BY DEF Ordered
    <2>1. Tail(q)[i] = q[i + 1] /\ i + 1 \in 1..Len(q)
      OBVIOUS
    <2>2. FirstLines(q, i + 1) = {LineOf(Head(q))} \cup FirstLines(Tail(q), i)
      BY TailLines
    <2>3. Covers(q[i + 1], S \cup FirstLines(q, i + 1))
      BY <2>1 DEF Ordered
    <2> QED BY <2>1, <2>2, <2>3 DEF Covers
  <1> QED BY <1>1, <1>2

-----------------------------------------------------------------------------
(***************************************************************************)
(* What steps leave alone.                                                 *)
(***************************************************************************)

\* What a tailer's record is, and what it owes when ahead is ahead of it.
TailerSound(r) ==
  /\ r \in TailerStates
  /\ \/ r = NoTailer
     \/ /\ r.gen \in Gens /\ r.mode # "done"
        /\ r.pos <= r.read /\ Len(r.hand) <= 1
  /\ ~r.rotated => ~r.cut

TailerOrdered(r, ahead) ==
  /\ Ordered(r.hand, ahead)
  /\ ~r.rotated => UpTo(r.gen, r.pos) \subseteq ahead \cup LinesOf(r.hand)

\* The invariant, tailer by tailer.
LEMMA TailerParts ==
  IInv => /\ cur \in 0..MaxTailers
          /\ tailers \in [Tailers -> TailerStates]
          /\ \A t \in Tailers :
               /\ TailerSound(tailers[t])
               /\ ~canceled => TailerOrdered(tailers[t], AheadOfHands)
  BY DEF IInv, TypeOK, TailerTypeOK, TailersOrdered, TailerSound, TailerOrdered

\* A tailer is not disturbed by more lines ahead of it.
LEMMA TailerMore ==
  ASSUME NEW r, NEW S, NEW T, TailerOrdered(r, S), S \subseteq T
  PROVE  TailerOrdered(r, T)
  BY OrderedMore DEF TailerOrdered

\* A tailer that has nothing.
LEMMA NoTailerParts ==
  /\ TailerSound(NoTailer)
  /\ \A ahead : TailerOrdered(NoTailer, ahead)
  <1> USE LogsAssumption DEF LogsAssumption, NoTailer
  <1>1. NoTailer \in TailerStates
    BY DEF TailerStates
  <1>2. UpTo(0, 0) = {}
    BY DEF UpTo
  <1> QED BY <1>1, <1>2, EmptyQueue DEF TailerSound, TailerOrdered

\* The parts of the invariant about tailers after a step, tailer by tailer.
LEMMA TailersNext ==
  ASSUME cur' \in 0..MaxTailers, tailers' \in [Tailers -> TailerStates],
         \A t \in Tailers : /\ TailerSound(tailers'[t])
                            /\ ~canceled' => TailerOrdered(tailers'[t], AheadOfHands')
  PROVE  TailerTypeOK' /\ TailersOrdered'
  BY DEF TailerTypeOK, TailersOrdered, TailerSound, TailerOrdered

\* The tailers do not change, and what is ahead of them stays ahead.
LEMMA TailersSame ==
  ASSUME IInv, UNCHANGED tailVars,
         ~canceled' => ~canceled /\ AheadOfHands \subseteq AheadOfHands'
  PROVE  TailerTypeOK' /\ TailersOrdered'
  <1>1. \A t \in Tailers : /\ TailerSound(tailers'[t])
                           /\ ~canceled' => TailerOrdered(tailers'[t], AheadOfHands')
    BY TailerParts, TailerMore DEF tailVars
  <1> QED BY <1>1, TailerParts, TailersNext DEF tailVars

\* One tailer changes.
LEMMA OneTailer ==
  ASSUME IInv, NEW t \in Tailers, NEW r, TailerSound(r),
         cur' \in 0..MaxTailers,
         tailers' = [tailers EXCEPT ![t] = r],
         ~canceled' => ~canceled /\ AheadOfHands \subseteq AheadOfHands',
         ~canceled' => TailerOrdered(r, AheadOfHands')
  PROVE  TailerTypeOK' /\ TailersOrdered'
  <1>1. tailers' \in [Tailers -> TailerStates]
    BY TailerParts DEF TailerSound
  <1>2. \A u \in Tailers : tailers'[u] = IF u = t THEN r ELSE tailers[u]
    BY TailerParts
  <1>3. \A u \in Tailers : /\ TailerSound(tailers'[u])
                           /\ ~canceled' => TailerOrdered(tailers'[u], AheadOfHands')
    BY <1>2, TailerParts, TailerMore
  <1> QED BY <1>1, <1>3, TailersNext

\* The lines ahead of each queue depend on these variables only.
LEMMA AheadSame ==
  ASSUME UNCHANGED <<buffer, senderChan, inputChan, settled, skipped>>
  PROVE  UNCHANGED <<Past, AheadOfSender, AheadOfInput, AheadOfHands>>
  BY DEF Past, AheadOfSender, AheadOfInput, AheadOfHands, LinesOf, FirstLines

\* The pipeline does not change and lines only become past.
LEMMA PipeSame ==
  ASSUME IInv, UNCHANGED pipeVars, Past \subseteq Past', ~canceled' => ~canceled
  PROVE  /\ PipeTypeOK' /\ PipeOrdered' /\ AuditSettled' /\ BufferHasRoom'
         /\ ~canceled' => ~canceled /\ AheadOfHands \subseteq AheadOfHands'
  <1> USE DEF pipeVars, senderVars
  <1>1. PipeTypeOK' /\ BufferHasRoom'
    BY DEF IInv, TypeOK, PipeTypeOK, BufferHasRoom
  <1>2. /\ AheadOfSender \subseteq AheadOfSender'
        /\ AheadOfInput \subseteq AheadOfInput'
        /\ AheadOfHands \subseteq AheadOfHands'
    BY DEF AheadOfSender, AheadOfInput, AheadOfHands
  <1>3. PipeOrdered'
    BY <1>2, OrderedMore DEF IInv, PipeOrdered
  <1>4. AuditSettled'
    BY DEF IInv, AuditSettled, Covers
  <1> QED BY <1>1, <1>2, <1>3, <1>4

-----------------------------------------------------------------------------
\* An agent that was never started.
LEMMA InitIInv == Init => IInv
  <1> SUFFICES ASSUME Init PROVE IInv
    OBVIOUS
  <1> USE LogsAssumption DEF LogsAssumption
  <1>1. FileTypeOK
    <2>1. present \in BOOLEAN /\ discovered \in BOOLEAN /\ canceled \in BOOLEAN /\ present
      BY Zenon DEF Init
    <2> QED BY <2>1 DEF Init, FileTypeOK, Gens
  <1>2. \A t \in Tailers : tailers[t] = NoTailer
    BY DEF Init, NoTailers
  <1>3. TailerTypeOK
    BY <1>2, NoTailerParts DEF Init, TailerTypeOK, TailerSound, NoTailers
  <1>4. PipeTypeOK /\ BufferHasRoom
    <2>1. sending \in BOOLEAN /\ ~sending
      BY Zenon DEF Init
    <2> QED BY <2>1 DEF Init, PipeTypeOK, BufferHasRoom
  <1>5. AuditTypeOK
    BY DEF Init, AuditTypeOK, Positions
  <1>6. UpTo(0, 0) = {}
    BY DEF UpTo
  <1>7. CommittedSettled
    BY <1>6 DEF Init, CommittedSettled, Covers, NoOffset
  <1>8. PipeOrdered
    BY EmptyQueue DEF Init, PipeOrdered
  <1>9. TailersOrdered
    BY <1>2, NoTailerParts DEF TailersOrdered, TailerSound, TailerOrdered
  <1>10. AuditSettled /\ Drained
    BY <1>2 DEF Init, AuditSettled, Drained
  <1> QED BY <1>1, <1>3, <1>4, <1>5, <1>7, <1>8, <1>9, <1>10 DEF IInv, TypeOK

-----------------------------------------------------------------------------
(***************************************************************************)
(* Steps.                                                                  *)
(***************************************************************************)

\* Writes and rotations change the file only.
LEMMA FileIInv ==
  ASSUME IInv, Write \/ MoveAway \/ Create \/ Truncate
  PROVE  IInv'
  <1> USE LogsAssumption DEF LogsAssumption, FileRest
  <1>1. /\ UNCHANGED <<phase, canceled, tailVars, pipeVars, auditVars, ghosts, faults>>
        /\ UNCHANGED pipeVars /\ UNCHANGED tailVars
    BY DEF Write, MoveAway, Create, Truncate
  <1>2. UNCHANGED Past
    BY <1>1 DEF Past, ghosts
  <1>3. PipeTypeOK' /\ PipeOrdered' /\ AuditSettled' /\ BufferHasRoom'
        /\ (~canceled' => ~canceled /\ AheadOfHands \subseteq AheadOfHands')
    BY <1>1, <1>2, PipeSame
  <1>4. TailerTypeOK' /\ TailersOrdered'
    BY <1>1, <1>3, TailersSame
  <1>5. FileTypeOK'
    <2>1. file' \in [Gens -> 0..MaxLines] /\ gen' \in Gens /\ (present' \/ gen' < MaxGens)
      BY DEF IInv, TypeOK, FileTypeOK, Write, MoveAway, Create, Truncate, Gens
    <2>2. present' \in BOOLEAN /\ discovered' \in BOOLEAN
      BY Zenon DEF IInv, TypeOK, FileTypeOK, Write, MoveAway, Create, Truncate
    <2>3. truncated' \subseteq 1..(gen' - 1)
      <3>1. /\ gen \in Nat /\ gen >= 1 /\ truncated \subseteq 1..(gen - 1)
            /\ gen' \in {gen, gen + 1} /\ gen' \in Nat
        BY DEF IInv, TypeOK, FileTypeOK, Write, MoveAway, Create, Truncate, Gens
      <3>2. truncated' = truncated \/ (truncated' = truncated \cup {gen} /\ gen' = gen + 1)
        BY DEF Write, MoveAway, Create, Truncate
      <3> SUFFICES ASSUME NEW x \in truncated' PROVE x \in 1..(gen' - 1)
        OBVIOUS
      <3>3. CASE x \in truncated
        <4>1. x \in Nat /\ x >= 1 /\ x <= gen - 1 /\ gen <= gen' /\ gen' \in Nat /\ gen \in Nat
          BY <3>1, <3>3
        <4>2. \A i, j, k \in Nat : i >= 1 /\ i <= j - 1 /\ j <= k => i \in 1..(k - 1)
          OBVIOUS
        <4> QED BY <4>1, <4>2, Zenon
      <3>4. CASE x \notin truncated
        <4>1. x = gen /\ gen' = gen + 1
          BY <3>2, <3>4
        <4> QED BY <3>1, <4>1
      <3> QED BY <3>3, <3>4
    <2> QED BY <1>1, <2>1, <2>2, <2>3 DEF IInv, TypeOK, FileTypeOK
  <1>6. AuditTypeOK'
    BY <1>1 DEF IInv, TypeOK, AuditTypeOK, auditVars, ghosts
  <1>7. CommittedSettled' /\ Drained'
    BY <1>1, <1>2 DEF IInv, CommittedSettled, Drained, auditVars, tailVars,
       pipeVars, senderVars
  <1> QED BY <1>3, <1>4, <1>5, <1>6, <1>7 DEF IInv, TypeOK

\* A tailer starts in a free slot, at a place in the file that has the path;
\* the unsettled lines before that place are skipped.
LEMMA StartTailerSound ==
  ASSUME IInv, NEW base \in [Tailers -> TailerStates], NEW start \in 0..MaxLines,
         StartTailer(base, start),
         \A t \in Tailers :
           TailerSound(base[t]) /\ (~canceled' => TailerOrdered(base[t], AheadOfHands)),
         UNCHANGED <<pipeVars, settled>>
  PROVE  /\ TailerTypeOK' /\ TailersOrdered'
         /\ Past \subseteq Past' /\ skipped' \subseteq Lines
  <1> USE LogsAssumption DEF LogsAssumption
  <1> DEFINE free == {t \in Tailers : base[t].mode = "done"}
             slot == CHOOSE t \in free : TRUE
  <1>1. slot \in Tailers
    BY DEF StartTailer
  <1>2. /\ cur' = slot
        /\ tailers' = [base EXCEPT ![slot] = NewTailer(start)]
        /\ skipped' = skipped \cup (UpTo(gen, start) \ settled)
    BY DEF StartTailer
  <1> HIDE DEF slot, free
  <1>3. Past \subseteq Past' /\ UpTo(gen, start) \subseteq Past'
    BY <1>2 DEF Past
  <1>4. skipped' \subseteq Lines
    BY <1>2 DEF IInv, TypeOK, AuditTypeOK, FileTypeOK, UpTo, Lines
  <1>5. AheadOfHands \subseteq AheadOfHands' /\ Past' \subseteq AheadOfHands'
    BY <1>3 DEF AheadOfHands, AheadOfInput, AheadOfSender, pipeVars, senderVars
  <1>7. TailerSound(NewTailer(start))
    <2>1. gen \in Gens
      BY DEF IInv, TypeOK, FileTypeOK
    <2>2. NewTailer(start) \in TailerStates
      BY <2>1 DEF NewTailer, TailerStates, Gens
    <2> QED BY <2>1, <2>2 DEF NewTailer, TailerSound
  <1>8. TailerOrdered(NewTailer(start), AheadOfHands')
    BY <1>3, <1>5, EmptyQueue DEF NewTailer, TailerOrdered
  <1>9. \A t \in Tailers : tailers'[t] = IF t = slot THEN NewTailer(start) ELSE base[t]
    BY <1>1, <1>2
  <1>10. \A t \in Tailers : /\ TailerSound(tailers'[t])
                            /\ ~canceled' => TailerOrdered(tailers'[t], AheadOfHands')
    BY <1>5, <1>7, <1>8, <1>9, TailerMore
  <1>11. tailers' \in [Tailers -> TailerStates] /\ cur' \in 0..MaxTailers
    BY <1>1, <1>2, <1>7 DEF TailerSound, Tailers
  <1>12. TailerTypeOK' /\ TailersOrdered'
    BY <1>10, <1>11, TailersNext
  <1> QED BY <1>3, <1>4, <1>12

\* A place to start from is a place in a file.
LEMMA PositionType ==
  ASSUME IInv, NEW entry \in Positions, NEW beginning
  PROVE  Position(entry, beginning) \in 0..MaxLines
  BY LogsAssumption DEF LogsAssumption, IInv, TypeOK, FileTypeOK, Position, Positions,
     NoOffset

\* A tailer in another mode is the same tailer otherwise.
LEMMA ModeSound ==
  ASSUME NEW r, TailerSound(r), r.mode # "done", NEW m \in {"told", "flush"}
  PROVE  /\ TailerSound([r EXCEPT !.mode = m])
         /\ \A ahead : TailerOrdered(r, ahead) => TailerOrdered([r EXCEPT !.mode = m], ahead)
  <1> DEFINE n == [r EXCEPT !.mode = m]
  <1>1. r \in TailerStates /\ r # NoTailer
    BY DEF TailerSound, NoTailer
  <1>2. /\ n \in TailerStates /\ n.mode = m
        /\ n.gen = r.gen /\ n.read = r.read /\ n.pos = r.pos
        /\ n.hand = r.hand /\ n.rotated = r.rotated /\ n.cut = r.cut
    BY <1>1 DEF TailerStates
  <1> HIDE DEF n
  <1>3. TailerSound(n)
    BY <1>1, <1>2 DEF TailerSound
  <1>4. \A ahead : TailerOrdered(r, ahead) => TailerOrdered(n, ahead)
    BY <1>2 DEF TailerOrdered
  <1> QED BY <1>3, <1>4 DEF n

\* A tailer that is told to stop reads on until it finds out.
LEMMA ToldSound ==
  ASSUME IInv, NEW t \in Tailers
  PROVE  \E r : /\ Told(t) = [tailers EXCEPT ![t] = r]
                /\ TailerSound(r)
                /\ \A ahead : TailerOrdered(tailers[t], ahead) => TailerOrdered(r, ahead)
  <1>1. TailerSound(tailers[t]) /\ tailers \in [Tailers -> TailerStates]
    BY TailerParts
  <1>2. CASE tailers[t].mode = "tail"
    <2>1. Told(t) = [tailers EXCEPT ![t] = [tailers[t] EXCEPT !.mode = "told"]]
      BY <1>2 DEF Told
    <2> QED BY <1>1, <1>2, <2>1, ModeSound
  <1>3. CASE tailers[t].mode # "tail"
    <2>1. [tailers[t] EXCEPT !.mode = tailers[t].mode] = tailers[t]
      BY <1>1 DEF TailerStates
    <2>2. Told(t) = [tailers EXCEPT ![t] = tailers[t]]
      BY <1>3, <2>1 DEF Told
    <2> QED BY <1>1, <2>2
  <1> QED BY <1>2, <1>3

\* What the scanner's and the tailers' steps leave alone besides tailers.
LEMMA TailFrame ==
  ASSUME IInv, UNCHANGED <<fileVars, phase, canceled, auditVars, settled>>,
         Past \subseteq Past', skipped' \subseteq Lines, taken' \subseteq Lines,
         faults' \in 0..MaxFaults
  PROVE  FileTypeOK' /\ AuditTypeOK' /\ CommittedSettled'
  <1>1. FileTypeOK'
    BY DEF IInv, TypeOK, FileTypeOK, fileVars
  <1>2. AuditTypeOK'
    BY DEF IInv, TypeOK, AuditTypeOK, auditVars
  <1>3. CommittedSettled'
    BY DEF IInv, CommittedSettled, Covers, auditVars
  <1> QED BY <1>1, <1>2, <1>3

\* The scanner starts tailers where nothing before them is lost, and stops
\* or marks others without a hand on their lines.
LEMMA ScanIInv ==
  ASSUME IInv, scan
  PROVE  IInv'
  <1>1. /\ phase = "up"
        /\ UNCHANGED <<fileVars, phase, canceled, pipeVars, auditVars, settled, taken, faults>>
    BY DEF scan, startNewTailer, stopTailer, restartTailerAfterFileRotation, ScanRest
  <1>2. /\ TailerTypeOK' /\ TailersOrdered'
        /\ Past \subseteq Past' /\ skipped' \subseteq Lines
    <2>1. CASE startNewTailer
      <3>1. registry \in Positions
        BY DEF IInv, TypeOK, AuditTypeOK
      <3>2. Position(registry, TRUE) \in 0..MaxLines
        BY <3>1, PositionType
      <3>3. StartTailer(tailers, Position(registry, TRUE))
        BY <2>1 DEF startNewTailer
      <3> QED BY <1>1, <3>2, <3>3, TailerParts, StartTailerSound
    <2>2. CASE stopTailer
      <3>1. cur \in Tailers /\ tailers' = Told(cur) /\ cur' \in 0..MaxTailers
            /\ skipped' = skipped
        BY <2>2, TailerParts, LogsAssumption DEF LogsAssumption, stopTailer, Tailers
      <3>2. PICK r : /\ tailers' = [tailers EXCEPT ![cur] = r] /\ TailerSound(r)
                     /\ \A ahead : TailerOrdered(tailers[cur], ahead) => TailerOrdered(r, ahead)
        BY <3>1, ToldSound
      <3>3. UNCHANGED <<Past, AheadOfHands>>
        BY <1>1, <3>1, AheadSame DEF pipeVars, senderVars
      <3>4. TailerTypeOK' /\ TailersOrdered'
        BY <1>1, <3>1, <3>2, <3>3, TailerParts, OneTailer
      <3> QED BY <3>1, <3>3, <3>4 DEF IInv, TypeOK, AuditTypeOK
    <2>3. CASE restartTailerAfterFileRotation
      <3> DEFINE old == tailers[cur]
                 new == [old EXCEPT !.rotated = TRUE]
                 base == [tailers EXCEPT ![cur].rotated = TRUE]
      <3>1. cur \in Tailers /\ old.mode # "done" /\ StartTailer(base, 0)
        BY <2>3, TailerParts, LogsAssumption
           DEF LogsAssumption, restartTailerAfterFileRotation, Tailers
      <3>2. TailerSound(old) /\ (~canceled => TailerOrdered(old, AheadOfHands))
            /\ tailers \in [Tailers -> TailerStates]
        BY <3>1, TailerParts
      <3>3. old \in TailerStates /\ old # NoTailer
        BY <3>1, <3>2 DEF TailerSound, NoTailer
      <3>4. /\ new.mode = old.mode
            /\ new.gen = old.gen /\ new.read = old.read /\ new.pos = old.pos
            /\ new.hand = old.hand /\ new.cut = old.cut
        BY <3>3 DEF TailerStates
      <3>5. new.rotated /\ new \in TailerStates
        BY <3>3 DEF TailerStates
      <3>6. \A t \in Tailers : base[t] = IF t = cur THEN new ELSE tailers[t]
        BY <3>1, <3>2
      <3>7. base \in [Tailers -> TailerStates]
        BY <3>1, <3>2, <3>5
      <3> HIDE DEF base, new, old
      <3>8. TailerSound(new) /\ (~canceled => TailerOrdered(new, AheadOfHands))
        BY <3>2, <3>3, <3>4, <3>5 DEF TailerSound, TailerOrdered
      <3>9. \A t \in Tailers :
             TailerSound(base[t]) /\ (~canceled' => TailerOrdered(base[t], AheadOfHands))
        BY <1>1, <3>6, <3>8, TailerParts
      <3>10. 0 \in 0..MaxLines
        BY LogsAssumption DEF LogsAssumption
      <3> QED BY <1>1, <3>1, <3>7, <3>9, <3>10, StartTailerSound
    <2> QED BY <2>1, <2>2, <2>3 DEF scan
  <1>3. PipeTypeOK' /\ PipeOrdered' /\ AuditSettled' /\ BufferHasRoom'
    BY <1>1, <1>2, PipeSame
  <1>4. FileTypeOK' /\ AuditTypeOK' /\ CommittedSettled'
    <2>1. faults' \in 0..MaxFaults /\ taken' \subseteq Lines
      BY <1>1 DEF IInv, TypeOK, AuditTypeOK
    <2> QED BY <1>1, <1>2, <2>1, TailFrame
  <1>5. Drained'
    BY <1>1 DEF Drained
  <1> QED BY <1>2, <1>3, <1>4, <1>5 DEF IInv, TypeOK

\* A tailer's step that sends nothing keeps the invariant when it leaves the
\* tailer sound and nothing behind.
LEMMA TailerStep ==
  ASSUME IInv, NEW t \in Tailers, NEW r, Becomes(t, r), TailRest,
         UNCHANGED inputChan, phase \in Alive, faults' \in 0..MaxFaults,
         skipped \subseteq skipped', skipped' \subseteq Lines, taken' \subseteq Lines,
         tailers[t] # NoTailer, TailerSound(r),
         ~canceled => TailerOrdered(r, AheadOfHands')
  PROVE  IInv'
  <1> USE DEF TailRest
  <1>1. UNCHANGED pipeVars /\ UNCHANGED <<buffer, senderChan, inputChan, settled>>
    BY DEF pipeVars, senderVars
  <1>2. Past \subseteq Past'
    BY DEF Past
  <1>3. /\ PipeTypeOK' /\ PipeOrdered' /\ AuditSettled' /\ BufferHasRoom'
        /\ ~canceled' => ~canceled /\ AheadOfHands \subseteq AheadOfHands'
    BY <1>1, <1>2, PipeSame
  <1>4. TailerTypeOK' /\ TailersOrdered'
    BY <1>3, TailerParts, OneTailer DEF Becomes
  <1>6. FileTypeOK' /\ AuditTypeOK' /\ CommittedSettled'
    BY <1>1, <1>2, TailFrame
  <1>7. Drained'
    <2>1. phase \in {"processor", "sender", "auditor", "stopped"} =>
            cur = 0 \/ tailers'[cur] = NoTailer
      <3> SUFFICES ASSUME phase \in {"processor", "sender", "auditor", "stopped"}, cur # 0
                   PROVE  tailers'[cur] = NoTailer
        OBVIOUS
      <3>1. cur \in Tailers /\ tailers[cur] = NoTailer /\ cur # t
        BY TailerParts DEF IInv, Drained, Tailers
      <3> QED BY <3>1, TailerParts DEF Becomes
    <2> QED BY <1>1, <2>1 DEF IInv, Drained, Alive, Stopping, pipeVars, senderVars
  <1> QED BY <1>3, <1>4, <1>6, <1>7 DEF IInv, TypeOK

\* The step of a tailer that neither skips nor takes a line.
LEMMA QuietStep ==
  ASSUME IInv, NEW t \in Tailers, NEW r, Becomes(t, r), TailRest,
         UNCHANGED <<inputChan, skipped>>, taken' \subseteq taken,
         phase \in Alive, faults' \in 0..MaxFaults,
         tailers[t] # NoTailer, TailerSound(r),
         ~canceled => TailerOrdered(r, AheadOfHands)
  PROVE  IInv'
  <1>1. AheadOfHands' = AheadOfHands
    BY AheadSame DEF TailRest, senderVars
  <1>2. skipped' \subseteq Lines /\ taken' \subseteq Lines
    BY DEF IInv, TypeOK, AuditTypeOK
  <1> QED BY <1>1, <1>2, TailerStep

\* A tailer whose hand is emptied.
LEMMA EmptyHandFields ==
  ASSUME NEW r \in TailerStates, NEW n, n = [r EXCEPT !.hand = <<>>]
  PROVE  /\ n \in TailerStates /\ n.hand = <<>>
         /\ n.pos = r.pos
         /\ n.mode = r.mode /\ n.gen = r.gen /\ n.read = r.read
         /\ n.rotated = r.rotated /\ n.cut = r.cut
  <1> USE DEF TailerStates
  <1>1. <<>> \in Seq(Messages)
    OBVIOUS
  <1>2. n.pos = r.pos /\ n.hand = <<>>
    OBVIOUS
  <1>3. n.mode = r.mode /\ n.gen = r.gen /\ n.read = r.read
    OBVIOUS
  <1>4. n.rotated = r.rotated /\ n.cut = r.cut
    OBVIOUS
  <1>5. n \in TailerStates
    BY <1>1
  <1> QED BY <1>2, <1>3, <1>4, <1>5

\* Reading, ending and giving up.
LEMMA ReaderIInv ==
  ASSUME IInv, NEW t \in Tailers,
         \/ ReadError(t) \/ StopReading(t) \/ CloseTimeout(t)
         \/ GiveUp(t) \/ Done(t)
  PROVE  IInv'
  <1> DEFINE old == tailers[t]
  <1>1. TailerSound(old) /\ (~canceled => TailerOrdered(old, AheadOfHands))
    BY TailerParts
  <1>2. old \in TailerStates
    BY <1>1 DEF TailerSound
  <1>3. faults \in 0..MaxFaults
    BY DEF IInv, TypeOK, AuditTypeOK
  <1>5. CASE ReadError(t) \/ StopReading(t)
    <2>1. /\ Becomes(t, [old EXCEPT !.mode = "flush"]) /\ old.mode # "done"
          /\ TailRest /\ UNCHANGED <<inputChan, skipped>> /\ phase \in Alive
          /\ taken' \subseteq taken
      BY <1>5 DEF ReadError, StopReading, SameGhosts
    <2>2. faults' \in 0..MaxFaults
      BY <1>3, <1>5, LogsAssumption DEF LogsAssumption, ReadError, StopReading, Fault
    <2>3. old # NoTailer
      BY <2>1 DEF NoTailer
    <2> QED BY <1>1, <2>1, <2>2, <2>3, ModeSound, QuietStep
  <1>6. CASE CloseTimeout(t)
    <2> DEFINE m == IF old.mode = "tail" THEN "told" ELSE old.mode
               new == [old EXCEPT !.cut = TRUE, !.mode = m]
    <2>1. Becomes(t, new) /\ old.rotated /\ old # NoTailer
      BY <1>6 DEF CloseTimeout, NoTailer
    <2>2. m \in {"told", "flush"}
      BY <1>1, <1>2, <2>1 DEF TailerSound, TailerStates
    <2>3. /\ new.mode = m /\ new.gen = old.gen /\ new.pos = old.pos
          /\ new.read = old.read /\ new.hand = old.hand
          /\ new.rotated = old.rotated
      BY <1>2 DEF TailerStates
    <2>4. new.cut /\ new \in TailerStates
      <3> HIDE DEF m
      <3> QED BY <1>2, <2>2 DEF TailerStates
    <2> HIDE DEF new, old, m
    <2>5. TailerSound(new)
      BY <1>1, <2>1, <2>2, <2>3, <2>4 DEF TailerSound
    <2>6. ~canceled => TailerOrdered(new, AheadOfHands)
      BY <1>1, <2>3 DEF TailerOrdered
    <2>7. /\ TailRest /\ UNCHANGED <<inputChan, skipped>> /\ taken' \subseteq taken
          /\ phase \in Alive /\ faults' \in 0..MaxFaults
      BY <1>3, <1>6 DEF CloseTimeout, SameGhosts
    <2> QED BY <2>1, <2>5, <2>6, <2>7, QuietStep DEF old
  <1>7. CASE GiveUp(t)
    <2> DEFINE new == [old EXCEPT !.hand = <<>>]
    <2>1. Becomes(t, new) /\ old.cut /\ old.hand # <<>>
      BY <1>7 DEF GiveUp
    <2>2. old # NoTailer
      BY <2>1 DEF NoTailer
    <2>3. /\ new.mode = old.mode /\ new.gen = old.gen /\ new.pos = old.pos
          /\ new.read = old.read /\ new.hand = <<>>
          /\ new.rotated = old.rotated /\ new.cut = old.cut
          /\ new \in TailerStates
      BY <1>2, EmptyHandFields
    <2> HIDE DEF new, old
    <2>4. TailerSound(new)
      BY <1>1, <2>1, <2>2, <2>3 DEF TailerSound
    <2>5. ~canceled => TailerOrdered(new, AheadOfHands)
      BY <1>1, <2>1, <2>3, EmptyQueue DEF TailerOrdered, TailerSound
    <2>6. /\ TailRest /\ UNCHANGED <<inputChan, skipped>> /\ taken' \subseteq taken
          /\ phase \in Alive /\ faults' \in 0..MaxFaults
      BY <1>3, <1>7 DEF GiveUp
    <2> QED BY <2>1, <2>2, <2>4, <2>5, <2>6, QuietStep DEF old
  <1>8. CASE Done(t)
    <2>1. /\ TailRest /\ UNCHANGED <<inputChan, skipped>> /\ taken' \subseteq taken
          /\ phase \in Alive /\ faults' \in 0..MaxFaults /\ old # NoTailer
          /\ Becomes(t, NoTailer)
      BY <1>3, <1>8 DEF Done, SameGhosts, NoTailer
    <2> QED BY <2>1, NoTailerParts, QuietStep
  <1> QED BY <1>5, <1>6, <1>7, <1>8

\* Reading on in a file adds to what the decoder holds.  In a file that was
\* truncated the lines before the place are skipped.
LEMMA ReadIInv ==
  ASSUME IInv, NEW t \in Tailers, Read(t) \/ ReadOn(t)
  PROVE  IInv'
  <1> USE LogsAssumption DEF LogsAssumption
  <1> DEFINE old == tailers[t]
  <1>1. TailerSound(old) /\ (~canceled => TailerOrdered(old, AheadOfHands))
    BY TailerParts
  <1>2. old \in TailerStates
    BY <1>1 DEF TailerSound
  <1>3. /\ phase \in Alive /\ UNCHANGED <<inputChan, faults>> /\ TailRest
        /\ old.mode \in {"tail", "told"}
    BY DEF Read, ReadOn
  <1>4. old # NoTailer
    BY <1>3 DEF NoTailer
  <1>5. /\ old.gen \in Gens /\ old.pos \in 0..MaxLines /\ old.read \in 0..MaxLines
        /\ old.pos <= old.read
    BY <1>1, <1>2, <1>4 DEF TailerSound, TailerStates
  <1>6. /\ faults' \in 0..MaxFaults /\ file \in [Gens -> 0..MaxLines]
        /\ taken \subseteq Lines /\ skipped \subseteq Lines
    BY <1>3 DEF IInv, TypeOK, AuditTypeOK, FileTypeOK
  <1>7. PICK g \in Gens, n \in 1..MaxLines :
          /\ n > old.read /\ Becomes(t, [old EXCEPT !.gen = g, !.read = n])
          /\ taken' = taken \cup ({g} \X ((old.read + 1)..n))
          /\ \/ g = old.gen /\ UNCHANGED skipped
             \/ /\ old.hand = <<>> /\ old.pos = old.read
                /\ skipped' = skipped \cup IF old.rotated THEN {}
                                           ELSE UpTo(g, old.read) \ settled
    <2>1. CASE Read(t)
      <3>1. PICK n \in (old.read + 1)..file[old.gen] :
              /\ Becomes(t, [old EXCEPT !.read = n])
              /\ taken' = taken \cup ({old.gen} \X ((old.read + 1)..n))
              /\ UNCHANGED skipped
        BY <2>1 DEF Read
      <3>2. n \in 1..MaxLines /\ n > old.read
        BY <1>5, <1>6
      <3>3. [old EXCEPT !.gen = old.gen, !.read = n] = [old EXCEPT !.read = n]
        BY <1>2 DEF TailerStates
      <3> QED BY <1>5, <3>1, <3>2, <3>3
    <2>2. CASE ReadOn(t)
      BY <2>2 DEF ReadOn
    <2> QED BY <2>1, <2>2
  <1> DEFINE new == [old EXCEPT !.gen = g, !.read = n]
  <1>8. /\ new \in TailerStates /\ new.read = n /\ new.gen = g
        /\ new.mode = old.mode /\ new.pos = old.pos /\ new.hand = old.hand
        /\ new.rotated = old.rotated /\ new.cut = old.cut
    <2>1. g \in 0..MaxGens /\ n \in 0..MaxLines
      BY DEF Gens
    <2>2. /\ new.read = n /\ new.gen = g
          /\ new.mode = old.mode /\ new.pos = old.pos /\ new.hand = old.hand
          /\ new.rotated = old.rotated /\ new.cut = old.cut
      BY <1>2 DEF TailerStates
    <2>3. new \in TailerStates
      BY <1>2, <2>1 DEF TailerStates
    <2> QED BY <2>2, <2>3
  <1>9. Becomes(t, new)
    BY <1>7
  <1> HIDE DEF new, old
  <1>10. TailerSound(new)
    BY <1>1, <1>4, <1>5, <1>7, <1>8 DEF TailerSound
  <1>11. taken' \subseteq Lines /\ skipped \subseteq skipped' /\ skipped' \subseteq Lines
    <2>1. {g} \X ((old.read + 1)..n) \subseteq Lines
      BY <1>5, <1>7 DEF Lines
    <2>2. UpTo(g, old.read) \subseteq Lines
      BY <1>5, <1>7 DEF Lines, UpTo
    <2> QED BY <1>6, <1>7, <2>1, <2>2
  <1>12. /\ AheadOfHands \subseteq AheadOfHands' /\ Past' \subseteq AheadOfHands'
         /\ settled' = settled
    BY <1>3, <1>11 DEF TailRest, AheadOfHands, AheadOfInput, AheadOfSender, Past, senderVars
  <1>13. ASSUME ~canceled PROVE TailerOrdered(new, AheadOfHands')
    <2>1. CASE g = old.gen
      BY <1>1, <1>8, <1>12, <1>13, <2>1, TailerMore, OrderedMore DEF TailerOrdered
    <2>2. CASE /\ old.hand = <<>> /\ old.pos = old.read
               /\ skipped' = skipped \cup IF old.rotated THEN {}
                                          ELSE UpTo(g, old.read) \ settled
      <3>1. ~old.rotated => UpTo(g, old.read) \subseteq Past'
        BY <1>12, <2>2 DEF Past
      <3> QED BY <1>8, <1>12, <2>2, <3>1, EmptyQueue DEF TailerOrdered
    <2> QED BY <1>7, <2>1, <2>2
  <1> QED BY <1>3, <1>4, <1>6, <1>9, <1>10, <1>11, <1>13, TailerStep DEF old

\* The next line gets an offset only while the tailer tracks one: then all
\* the lines before it are ahead of it.
LEMMA BuildIInv ==
  ASSUME IInv, NEW t \in Tailers, BuildMessage(t)
  PROVE  IInv'
  <1> USE LogsAssumption DEF LogsAssumption
  <1> DEFINE old == tailers[t]
             off == IF old.rotated THEN 0 ELSE old.pos + 1
             msg == [gen |-> old.gen, line |-> old.pos + 1, off |-> off]
             new == [old EXCEPT !.pos = @ + 1, !.hand = <<msg>>]
  <1>1. TailerSound(old) /\ (~canceled => TailerOrdered(old, AheadOfHands))
    BY TailerParts
  <1>2. old \in TailerStates
    BY <1>1 DEF TailerSound
  <1>3. /\ Becomes(t, new) /\ old.hand = <<>> /\ old.pos < old.read
        /\ UNCHANGED <<inputChan, skipped, faults>> /\ TailRest /\ phase \in Alive
        /\ taken' \subseteq taken
    BY DEF BuildMessage, BuildMessageIf, SameGhosts
  <1>4. old # NoTailer
    BY <1>3 DEF NoTailer
  <1>5. /\ old.gen \in Gens /\ old.pos + 1 \in 1..MaxLines
        /\ old.pos + 1 <= old.read /\ off \in 0..MaxLines
    BY <1>1, <1>2, <1>3, <1>4 DEF TailerSound, TailerStates
  <1>6. msg \in Messages
    BY <1>5 DEF Messages
  <1>7. /\ new \in TailerStates
        /\ new.mode = old.mode /\ new.gen = old.gen /\ new.pos = old.pos + 1
        /\ new.read = old.read /\ new.hand = <<msg>>
        /\ new.rotated = old.rotated /\ new.cut = old.cut
    <2>1. <<msg>> \in Seq(Messages) /\ old.pos + 1 \in 0..MaxLines
      BY <1>5, <1>6
    <2>2. new = [old EXCEPT !.pos = old.pos + 1, !.hand = <<msg>>]
      OBVIOUS
    <2> HIDE DEF new, msg, off, old
    <2>3. /\ new.pos = old.pos + 1 /\ new.hand = <<msg>>
          /\ new.mode = old.mode /\ new.gen = old.gen /\ new.read = old.read
          /\ new.rotated = old.rotated /\ new.cut = old.cut
      BY <1>2, <2>2 DEF TailerStates
    <2>4. new \in TailerStates
      BY <1>2, <1>5, <2>1, <2>2 DEF TailerStates
    <2> QED BY <2>3, <2>4
  <1>8. ~old.rotated => off = old.pos + 1 /\ ~old.cut
    BY <1>1 DEF TailerSound
  <1>9. old.rotated => off = 0
    OBVIOUS
  <1>10. LineOf(msg) = <<old.gen, old.pos + 1>> /\ msg.gen = old.gen /\ msg.off = off
    BY DEF LineOf
  <1> HIDE DEF new, msg, off, old
  <1>11. TailerSound(new)
    BY <1>1, <1>4, <1>5, <1>7, <1>8 DEF TailerSound
  <1>12. ASSUME ~canceled PROVE TailerOrdered(new, AheadOfHands)
    <2>1. LinesOf(<<msg>>) = {LineOf(msg)}
      BY DEF LinesOf, FirstLines
    <2>2. ASSUME ~old.rotated
          PROVE  UpTo(old.gen, old.pos + 1) \subseteq AheadOfHands \cup {LineOf(msg)}
      <3>1. \A i \in 1..old.pos : <<old.gen, i>> \in AheadOfHands
        BY <1>1, <1>3, <1>12, <2>2, EmptyQueue, UpToElements DEF TailerOrdered
      <3>2. old.pos \in Nat
        BY <1>2 DEF TailerStates
      <3>3. \A i \in 1..(old.pos + 1) : <<old.gen, i>> \in AheadOfHands \cup {LineOf(msg)}
        BY <1>10, <3>1, <3>2
      <3> QED BY <3>3, UpToElements
    <2>3. Covers(msg, AheadOfHands \cup {LineOf(msg)})
      <3>1. CASE old.rotated
        BY <1>9, <1>10, <3>1 DEF Covers, UpTo
      <3>2. CASE ~old.rotated
        BY <1>8, <1>10, <2>2, <3>2 DEF Covers
      <3> QED BY <3>1, <3>2
    <2>4. Ordered(<<msg>>, AheadOfHands)
      <3>1. FirstLines(<<msg>>, 1) = {LineOf(msg)}
        BY DEF FirstLines
      <3>2. \A i \in 1..Len(<<msg>>) : i = 1 /\ <<msg>>[i] = msg
        OBVIOUS
      <3> QED BY <2>3, <3>1, <3>2 DEF Ordered
    <2> QED BY <1>7, <2>1, <2>2, <2>4 DEF TailerOrdered
  <1>13. faults' \in 0..MaxFaults
    BY <1>3 DEF IInv, TypeOK, AuditTypeOK
  <1> QED BY <1>3, <1>4, <1>11, <1>12, <1>13, QuietStep DEF old

\* What leaves the hand is last in inputChan.
LEMMA OutputIInv ==
  ASSUME IInv, NEW t \in Tailers, Output(t)
  PROVE  IInv'
  <1> DEFINE old == tailers[t]
             msg == Head(old.hand)
             new == [old EXCEPT !.hand = <<>>]
  <1>1. TailerSound(old) /\ (~canceled => TailerOrdered(old, AheadOfHands))
    BY TailerParts
  <1>2. old \in TailerStates
    BY <1>1 DEF TailerSound
  <1>3. /\ phase \in {"up", "inputs"} /\ old.hand # <<>> /\ Len(inputChan) < ChanSize
        /\ inputChan' = Append(inputChan, msg)
        /\ Becomes(t, new) /\ UNCHANGED <<faults, skipped, taken>> /\ TailRest
    BY DEF Output, SameGhosts
  <1>4. old # NoTailer
    BY <1>3 DEF NoTailer
  <1>5. old.hand \in Seq(Messages) /\ Len(old.hand) = 1 /\ msg \in Messages
    <2>1. old.hand \in Seq(Messages) /\ old.hand # <<>>
      BY <1>2, <1>3 DEF TailerStates
    <2>2. Len(old.hand) <= 1
      BY <1>1, <1>4 DEF TailerSound
    <2> HIDE DEF old
    <2>3. msg \in Messages /\ Len(old.hand) > 0 /\ Len(old.hand) \in Nat
      BY <2>1, QueueType, Zenon DEF msg
    <2>4. \A n \in Nat : n > 0 /\ n <= 1 => n = 1
      OBVIOUS
    <2> QED BY <2>1, <2>2, <2>3, <2>4, Zenon
  <1>6. /\ new \in TailerStates
        /\ new.mode = old.mode /\ new.gen = old.gen /\ new.pos = old.pos
        /\ new.read = old.read /\ new.hand = <<>>
        /\ new.rotated = old.rotated /\ new.cut = old.cut
    BY <1>2, EmptyHandFields
  <1>7. LinesOf(old.hand) = {LineOf(msg)}
    BY <1>5 DEF LinesOf, FirstLines
  <1> HIDE DEF new, msg, old
  <1>8. inputChan \in Seq(Messages) /\ Len(inputChan) <= ChanSize
    BY DEF IInv, TypeOK, PipeTypeOK
  <1>9. LinesOf(inputChan') = LinesOf(inputChan) \cup {LineOf(msg)}
    BY <1>3, <1>5, <1>8, AppendLines
  <1>10. /\ UNCHANGED <<AheadOfInput, AheadOfSender, Past>>
         /\ AheadOfHands' = AheadOfHands \cup {LineOf(msg)}
    BY <1>3, <1>9 DEF TailRest, AheadOfInput, AheadOfSender, Past, AheadOfHands,
       senderVars
  <1>11. TailerSound(new)
    BY <1>1, <1>4, <1>6 DEF TailerSound
  <1>12. ~canceled => TailerOrdered(new, AheadOfHands')
    BY <1>1, <1>6, <1>7, <1>10, EmptyQueue DEF TailerOrdered
  <1>13. TailerTypeOK' /\ TailersOrdered'
    BY <1>3, <1>10, <1>11, <1>12, TailerParts, OneTailer DEF Becomes, TailRest
  <1>14. PipeTypeOK' /\ AuditSettled' /\ BufferHasRoom'
    <2>1. inputChan' \in Seq(Messages) /\ Len(inputChan') <= ChanSize
      BY <1>3, <1>5, <1>8, QueueType, LogsAssumption DEF LogsAssumption
    <2> QED BY <1>3, <1>10, <2>1 DEF TailRest, senderVars, IInv, TypeOK, PipeTypeOK,
               AuditSettled, BufferHasRoom
  <1>15. PipeOrdered'
    <2>1. ASSUME ~canceled PROVE Ordered(inputChan', AheadOfInput)
      <3>1. Ordered(inputChan, AheadOfInput)
        BY <2>1 DEF IInv, PipeOrdered
      <3>2. Covers(msg, AheadOfHands \cup {LineOf(msg)})
        BY <1>1, <1>3, <1>5, <2>1, OrderedTail DEF TailerOrdered, msg
      <3> QED BY <1>3, <1>5, <1>8, <3>1, <3>2, OrderedAppend DEF AheadOfHands
    <2> QED BY <1>3, <1>10, <2>1 DEF TailRest, senderVars, IInv, PipeOrdered
  <1>16. FileTypeOK' /\ AuditTypeOK' /\ CommittedSettled'
    <2>1. skipped' \subseteq Lines /\ taken' \subseteq Lines /\ faults' \in 0..MaxFaults
      BY <1>3 DEF IInv, TypeOK, AuditTypeOK
    <2> QED BY <1>3, <1>10, <2>1, TailFrame DEF TailRest
  <1>17. Drained'
    BY <1>3 DEF TailRest, Drained
  <1> QED BY <1>13, <1>14, <1>15, <1>16, <1>17 DEF IInv, TypeOK

-----------------------------------------------------------------------------
(***************************************************************************)
(* Steps of the pipeline and the auditor.                                  *)
(***************************************************************************)

\* The line of a message is a line of a file.
LEMMA MessageLines ==
  /\ \A m \in Messages : LineOf(m) \in Lines
  /\ \A q \in Seq(Messages) : LinesOf(q) \subseteq Lines
  <1>1. \A m \in Messages : LineOf(m) \in Lines
    BY DEF LineOf, Messages, Lines
  <1>2. ASSUME NEW q \in Seq(Messages) PROVE LinesOf(q) \subseteq Lines
    <2>1. \A i \in 1..Len(q) : q[i] \in Messages
      OBVIOUS
    <2> QED BY <1>1, <2>1 DEF LinesOf, FirstLines
  <1> QED BY <1>1, <1>2

\* The queues' types, one by one.
LEMMA QueueParts ==
  IInv => /\ inputChan \in Seq(Messages) /\ Len(inputChan) <= ChanSize
          /\ senderChan \in Seq(Messages) /\ Len(senderChan) <= ChanSize
          /\ auditChan \in Seq(Messages) /\ Len(auditChan) <= ChanSize
          /\ buffer \in Seq(Messages) /\ Len(buffer) <= BatchSize
          /\ batch \in Seq(Messages) /\ Len(batch) <= BatchSize
  BY DEF IInv, TypeOK, PipeTypeOK

\* What a step of the pipeline has to show.
LEMMA PipeStep ==
  ASSUME IInv, PipeRest, phase \in Alive,
         PipeTypeOK', BufferHasRoom', PipeOrdered', AuditSettled',
         ~canceled => AheadOfHands \subseteq AheadOfHands',
         settled \subseteq settled', settled' \subseteq Lines,
         registry' \in Positions, disk' \in Positions, CommittedSettled',
         phase \in {"sender", "auditor"} => inputChan' = <<>>,
         phase = "auditor" => senderChan' = <<>> /\ buffer' = <<>> /\ batch' = <<>>
  PROVE  IInv'
  <1> USE DEF PipeRest
  <1>1. TailerTypeOK' /\ TailersOrdered'
    BY TailersSame
  <1>2. FileTypeOK' /\ AuditTypeOK'
    BY DEF IInv, TypeOK, FileTypeOK, AuditTypeOK, fileVars
  <1>3. Drained'
    BY DEF IInv, Drained, Alive, Stopping, tailVars
  <1> QED BY <1>1, <1>2, <1>3 DEF IInv, TypeOK

\* Settled lines only make a commit safer.
LEMMA CommitSame ==
  ASSUME IInv, PipeRest, UNCHANGED auditVars, settled \subseteq settled'
  PROVE  /\ registry' \in Positions /\ disk' \in Positions /\ CommittedSettled'
         /\ Past \subseteq Past'
  BY DEF IInv, TypeOK, AuditTypeOK, CommittedSettled, Covers, Past, PipeRest, auditVars

\* The processor: the head of inputChan goes last into senderChan, or is
\* excluded and settled.
LEMMA ProcessIInv ==
  ASSUME IInv, Process
  PROVE  IInv'
  <1> DEFINE m == Head(inputChan)
  <1>1. /\ phase \in Alive /\ inputChan # <<>> /\ inputChan' = Tail(inputChan)
        /\ \/ /\ Len(senderChan) < ChanSize /\ senderChan' = Append(senderChan, m)
              /\ UNCHANGED <<settled, auditChan>>
           \/ /\ settled' = settled \cup {LineOf(m)}
              /\ auditChan' = auditChan \o <<>> /\ UNCHANGED senderChan
        /\ UNCHANGED <<senderVars, auditVars>> /\ PipeRest
    BY DEF Process, ProcessTelling
  <1>2. /\ m \in Messages /\ inputChan' \in Seq(Messages)
        /\ Len(inputChan') = Len(inputChan) - 1 /\ Len(inputChan) \in Nat
    BY <1>1, QueueParts, QueueType
  <1>3. auditChan' = auditChan
    BY <1>1, QueueParts
  <1>4. LinesOf(inputChan) = {LineOf(m)} \cup LinesOf(inputChan')
    BY <1>1, QueueParts, TailLines
  <1> HIDE DEF m
  <1>5. settled \subseteq settled' /\ settled' \subseteq Lines
    BY <1>1, <1>2, MessageLines DEF IInv, TypeOK, AuditTypeOK
  <1>6. /\ registry' \in Positions /\ disk' \in Positions /\ CommittedSettled'
        /\ Past \subseteq Past'
    BY <1>1, <1>5, CommitSame
  <1>7. /\ senderChan' \in Seq(Messages) /\ Len(senderChan') <= ChanSize
        /\ AheadOfInput' = AheadOfInput \cup {LineOf(m)}
        /\ AheadOfSender \subseteq AheadOfSender'
        /\ ~canceled => Ordered(senderChan', AheadOfSender')
    <2>1. CASE Len(senderChan) < ChanSize /\ senderChan' = Append(senderChan, m)
               /\ UNCHANGED settled
      <3>1. LinesOf(senderChan') = LinesOf(senderChan) \cup {LineOf(m)}
        BY <1>2, <2>1, QueueParts, AppendLines
      <3>2. UNCHANGED <<Past, AheadOfSender>>
        BY <1>1, <2>1 DEF Past, AheadOfSender, PipeRest, senderVars
      <3>3. ASSUME ~canceled PROVE Ordered(senderChan', AheadOfSender)
        <4>1. Ordered(senderChan, AheadOfSender) /\ Ordered(inputChan, AheadOfInput)
          BY <3>3 DEF IInv, PipeOrdered
        <4>2. Covers(m, AheadOfInput \cup {LineOf(m)})
          BY <1>1, <4>1, QueueParts, OrderedTail DEF m
        <4> QED BY <1>2, <2>1, <4>1, <4>2, QueueParts, OrderedAppend DEF AheadOfInput
      <3>4. senderChan' \in Seq(Messages) /\ Len(senderChan') <= ChanSize
        BY <1>2, <2>1, QueueParts, QueueType, LogsAssumption DEF LogsAssumption
      <3> QED BY <3>1, <3>2, <3>3, <3>4 DEF AheadOfInput
    <2>2. CASE settled' = settled \cup {LineOf(m)} /\ UNCHANGED senderChan
      <3>1. AheadOfSender' = AheadOfSender \cup {LineOf(m)}
        BY <1>1, <2>2 DEF Past, AheadOfSender, PipeRest, senderVars
      <3>2. ~canceled => Ordered(senderChan', AheadOfSender')
        BY <2>2, <3>1, OrderedMore DEF IInv, PipeOrdered
      <3> QED BY <2>2, <3>1, <3>2, QueueParts DEF AheadOfInput
    <2> QED BY <1>1, <2>1, <2>2
  <1>8. AheadOfHands \subseteq AheadOfHands'
    BY <1>4, <1>7 DEF AheadOfHands
  <1>9. PipeTypeOK' /\ BufferHasRoom'
    BY <1>1, <1>2, <1>3, <1>7, QueueParts, LogsAssumption
       DEF LogsAssumption, IInv, TypeOK, PipeTypeOK, BufferHasRoom, senderVars
  <1>10. PipeOrdered'
    <2> SUFFICES ASSUME ~canceled PROVE PipeOrdered'
      BY <1>1 DEF PipeOrdered, PipeRest
    <2>1. Ordered(buffer', Past')
      BY <1>1, <1>6, OrderedMore DEF IInv, PipeOrdered, senderVars
    <2>2. Ordered(inputChan, AheadOfInput)
      BY DEF IInv, PipeOrdered
    <2>3. Ordered(inputChan', AheadOfInput')
      BY <1>1, <1>7, <2>2, QueueParts, OrderedTail DEF m
    <2> QED BY <1>7, <2>1, <2>3 DEF PipeOrdered
  <1>11. AuditSettled'
    BY <1>1, <1>3, <1>6 DEF IInv, AuditSettled, Covers, senderVars
  <1>12. /\ phase \in {"sender", "auditor"} => inputChan' = <<>>
         /\ phase = "auditor" => senderChan' = <<>> /\ buffer' = <<>> /\ batch' = <<>>
    BY <1>1 DEF IInv, Drained
  <1> QED BY <1>1, <1>5, <1>6, <1>8, <1>9, <1>10, <1>11, <1>12, PipeStep

\* The batch strategy: the head of senderChan goes last into the buffer, or
\* is too long and settled.
LEMMA ReceiveIInv ==
  ASSUME IInv, Receive \/ ReceiveTooLong
  PROVE  IInv'
  <1> USE LogsAssumption DEF LogsAssumption
  <1> DEFINE m == Head(senderChan)
  <1>1. /\ phase \in Alive /\ senderChan # <<>> /\ senderChan' = Tail(senderChan)
        /\ ~sending /\ batch = <<>>
        /\ \/ /\ buffer' = Append(buffer, m) /\ sending' = (Len(buffer') = BatchSize)
              /\ UNCHANGED settled
           \/ /\ settled' = settled \cup {LineOf(m)} /\ sending' = (buffer # <<>>)
              /\ UNCHANGED buffer
        /\ UNCHANGED <<inputChan, batch, auditChan, auditVars>> /\ PipeRest
    BY DEF Receive, ReceiveTooLong
  <1>2. /\ m \in Messages /\ senderChan' \in Seq(Messages)
        /\ Len(senderChan') = Len(senderChan) - 1 /\ Len(senderChan) \in Nat
    BY <1>1, QueueParts, QueueType
  <1>3. LinesOf(senderChan) = {LineOf(m)} \cup LinesOf(senderChan')
    BY <1>1, QueueParts, TailLines
  <1>4. ~canceled => /\ Covers(m, AheadOfSender \cup {LineOf(m)})
                     /\ Ordered(senderChan', AheadOfSender \cup {LineOf(m)})
    BY <1>1, QueueParts, OrderedTail DEF IInv, PipeOrdered
  <1> HIDE DEF m
  <1>5. settled \subseteq settled' /\ settled' \subseteq Lines
    BY <1>1, <1>2, MessageLines DEF IInv, TypeOK, AuditTypeOK
  <1>6. /\ registry' \in Positions /\ disk' \in Positions /\ CommittedSettled'
        /\ Past \subseteq Past'
    BY <1>1, <1>5, CommitSame
  <1>7. /\ buffer' \in Seq(Messages) /\ Len(buffer') <= BatchSize
        /\ sending' \in BOOLEAN /\ (sending' => buffer' # <<>>)
        /\ BufferHasRoom'
        /\ AheadOfSender' = AheadOfSender \cup {LineOf(m)}
        /\ ~canceled => Ordered(buffer', Past')
    <2>1. CASE buffer' = Append(buffer, m) /\ sending' = (Len(buffer') = BatchSize)
               /\ UNCHANGED settled
      <3>1. /\ buffer' \in Seq(Messages) /\ Len(buffer') = Len(buffer) + 1
            /\ Len(buffer) \in Nat
        BY <1>2, <2>1, QueueParts, QueueType
      <3>2. Len(buffer) < BatchSize
        BY <1>1 DEF IInv, BufferHasRoom
      <3>3. LinesOf(buffer') = LinesOf(buffer) \cup {LineOf(m)}
        BY <1>2, <2>1, QueueParts, AppendLines
      <3>4. Past' = Past
        BY <1>1, <2>1 DEF Past, PipeRest
      <3>5. ASSUME ~canceled PROVE Ordered(buffer', Past)
        BY <1>2, <1>4, <2>1, <3>5, QueueParts, OrderedAppend
           DEF IInv, PipeOrdered, AheadOfSender
      <3>6. BufferHasRoom' /\ Len(buffer') <= BatchSize /\ buffer' # <<>>
        <4>1. Len(buffer') <= BatchSize /\ buffer' # <<>>
          BY <3>1, <3>2
        <4>2. Len(buffer') \in Nat /\ BatchSize \in Nat
          BY <3>1
        <4>3. ~sending' => Len(buffer') # BatchSize
          BY <2>1, Zenon
        <4>4. ~sending' => Len(buffer') < BatchSize
          BY <4>1, <4>2, <4>3
        <4> QED BY <4>1, <4>4 DEF BufferHasRoom
      <3>7. sending' \in BOOLEAN
        BY <2>1, Zenon
      <3> QED BY <3>1, <3>3, <3>4, <3>5, <3>6, <3>7 DEF AheadOfSender
    <2>2. CASE settled' = settled \cup {LineOf(m)} /\ sending' = (buffer # <<>>)
               /\ UNCHANGED buffer
      <3>1. Past' = Past \cup {LineOf(m)}
        BY <1>1, <2>2 DEF Past, PipeRest
      <3>2. ~canceled => Ordered(buffer', Past')
        BY <2>2, <3>1, OrderedMore DEF IInv, PipeOrdered
      <3>3. sending' \in BOOLEAN
        BY <2>2, Zenon
      <3>4. BufferHasRoom'
        BY <1>1, <2>2 DEF IInv, BufferHasRoom
      <3> QED BY <2>2, <3>1, <3>2, <3>3, <3>4, QueueParts DEF AheadOfSender
    <2> QED BY <1>1, <2>1, <2>2
  <1>8. AheadOfInput' = AheadOfInput /\ AheadOfHands' = AheadOfHands
    BY <1>1, <1>3, <1>7 DEF AheadOfInput, AheadOfHands
  <1>9. PipeTypeOK'
    BY <1>1, <1>2, <1>7, QueueParts DEF PipeTypeOK
  <1>10. PipeOrdered'
    <2> SUFFICES ASSUME ~canceled PROVE PipeOrdered'
      BY <1>1 DEF PipeOrdered, PipeRest
    <2> QED BY <1>1, <1>4, <1>7, <1>8 DEF IInv, PipeOrdered
  <1>11. AuditSettled'
    BY <1>1, <1>6 DEF IInv, AuditSettled, Covers
  <1>12. /\ phase \in {"sender", "auditor"} => inputChan' = <<>>
         /\ phase # "auditor"
    BY <1>1 DEF IInv, Drained
  <1> QED BY <1>1, <1>5, <1>6, <1>7, <1>8, <1>9, <1>10, <1>11, <1>12, PipeStep

\* The messages of an ordered queue find their lines in it, or ahead.
LEMMA OrderedAll ==
  ASSUME NEW q, NEW S, Ordered(q, S), Len(q) \in Nat
  PROVE  \A i \in 1..Len(q) : Covers(q[i], S \cup LinesOf(q))
  <1> SUFFICES ASSUME NEW i \in 1..Len(q)
               PROVE  Covers(q[i], S \cup LinesOf(q))
    OBVIOUS
  <1>1. Covers(q[i], S \cup FirstLines(q, i))
    BY DEF Ordered
  <1>2. FirstLines(q, i) \subseteq LinesOf(q)
    <2>1. \A j \in 1..i : j \in 1..Len(q)
      OBVIOUS
    <2> QED BY <2>1 DEF LinesOf, FirstLines
  <1> QED BY <1>1, <1>2 DEF Covers

\* The sender: the lines of a batch that was answered are settled, and only
\* then is it for the auditor; one that is canceled the auditor never sees.
LEMMA SendIInv ==
  ASSUME IInv, FlushTimer \/ SendAnswered \/ SendRetried \/ SendCanceled
  PROVE  IInv'
  <1> USE LogsAssumption DEF LogsAssumption
  <1>1. /\ phase \in Alive /\ UNCHANGED <<inputChan, senderChan, auditChan, auditVars>>
        /\ PipeRest /\ buffer # <<>>
        /\ \/ ~sending /\ batch = <<>> /\ sending' = TRUE /\ UNCHANGED <<buffer, batch, settled>>
           \/ /\ sending /\ ~canceled /\ settled' = settled \cup LinesOf(buffer)
              /\ \/ batch' = buffer /\ buffer' = <<>> /\ sending' = FALSE
                 \/ UNCHANGED senderVars
           \/ sending /\ canceled /\ buffer' = <<>> /\ sending' = FALSE /\ UNCHANGED <<batch, settled>>
    BY DEF FlushTimer, SendAnswered, SendRetried, SendCanceled, IInv, TypeOK, PipeTypeOK
  <1>2. settled \subseteq settled' /\ settled' \subseteq Lines
    BY <1>1, QueueParts, MessageLines DEF IInv, TypeOK, AuditTypeOK
  <1>3. /\ registry' \in Positions /\ disk' \in Positions /\ CommittedSettled'
        /\ Past \subseteq Past'
    BY <1>1, <1>2, CommitSame
  <1>4. PipeTypeOK' /\ BufferHasRoom'
    <2>1. sending' \in BOOLEAN
      BY <1>1, Zenon DEF IInv, TypeOK, PipeTypeOK, senderVars
    <2>2. /\ buffer' \in Seq(Messages) /\ Len(buffer') <= BatchSize
          /\ batch' \in Seq(Messages) /\ Len(batch') <= BatchSize
      <3>1. /\ buffer' \in {buffer, <<>>} /\ batch' \in {batch, buffer}
        BY <1>1, Zenon DEF senderVars
      <3>2. <<>> \in Seq(Messages) /\ Len(<<>>) <= BatchSize
        OBVIOUS
      <3>3. /\ buffer \in Seq(Messages) /\ Len(buffer) <= BatchSize
            /\ batch \in Seq(Messages) /\ Len(batch) <= BatchSize
        BY QueueParts
      <3> QED BY <3>1, <3>2, <3>3, Zenon
    <2>3. sending' => buffer' # <<>> /\ batch' = <<>>
      BY <1>1 DEF IInv, TypeOK, PipeTypeOK, senderVars
    <2>4. BufferHasRoom'
      BY <1>1 DEF IInv, BufferHasRoom, senderVars
    <2> QED BY <1>1, <2>1, <2>2, <2>3, <2>4, QueueParts DEF PipeTypeOK
  <1>5. ~canceled => /\ AheadOfSender \subseteq AheadOfSender'
                     /\ AheadOfInput \subseteq AheadOfInput'
                     /\ AheadOfHands \subseteq AheadOfHands'
                     /\ Ordered(buffer', Past')
    <2> SUFFICES ASSUME ~canceled
                 PROVE  /\ AheadOfSender \subseteq AheadOfSender'
                        /\ Ordered(buffer', Past')
      BY <1>1 DEF AheadOfInput, AheadOfHands
    <2>1. CASE UNCHANGED buffer
      BY <1>3, <2>1, OrderedMore DEF IInv, PipeOrdered, AheadOfSender
    <2>2. CASE buffer' = <<>> /\ settled' = settled \cup LinesOf(buffer)
      BY <1>1, <2>2, EmptyQueue DEF AheadOfSender, Past, PipeRest
    <2> QED BY <1>1, <2>1, <2>2 DEF senderVars
  <1>6. PipeOrdered'
    BY <1>1, <1>5, OrderedMore DEF IInv, PipeOrdered, PipeRest
  <1>7. AuditSettled'
    <2>1. \A q \in {batch, auditChan} : \A i \in 1..Len(q) : Covers(q[i], Past')
      BY <1>3 DEF IInv, AuditSettled, Covers
    <2>2. CASE UNCHANGED batch
      BY <1>1, <2>1, <2>2 DEF AuditSettled
    <2>3. CASE ~canceled /\ batch' = buffer /\ settled' = settled \cup LinesOf(buffer)
      <3>1. Ordered(buffer, Past) /\ Len(buffer) \in Nat
        BY <2>3, QueueParts, QueueType DEF IInv, PipeOrdered
      <3>2. Past' = Past \cup LinesOf(buffer)
        BY <1>1, <2>3 DEF Past, PipeRest
      <3>3. \A i \in 1..Len(buffer) : Covers(buffer[i], Past')
        BY <3>1, <3>2, OrderedAll
      <3> QED BY <1>1, <2>1, <2>3, <3>3 DEF AuditSettled
    <2> QED BY <1>1, <2>2, <2>3 DEF senderVars
  <1>8. /\ phase \in {"sender", "auditor"} => inputChan' = <<>>
        /\ phase # "auditor"
    BY <1>1 DEF IInv, Drained
  <1> QED BY <1>1, <1>2, <1>3, <1>4, <1>5, <1>6, <1>7, <1>8, PipeStep

\* A step of the auditor's side leaves what is ahead of everybody alone.
LEMMA AuditStep ==
  ASSUME IInv, PipeRest, phase \in Alive,
         UNCHANGED <<inputChan, senderChan, buffer, sending, settled>>,
         batch' \in Seq(Messages), Len(batch') <= BatchSize,
         batch = <<>> => batch' = <<>>,
         auditChan' \in Seq(Messages), Len(auditChan') <= ChanSize,
         AuditSettled',
         registry' \in Positions, disk' \in Positions, CommittedSettled'
  PROVE  IInv'
  <1>1. UNCHANGED <<Past, AheadOfSender, AheadOfInput, AheadOfHands>>
    BY AheadSame DEF PipeRest
  <1>2. PipeTypeOK' /\ BufferHasRoom'
    <2>1. sending' => buffer' # <<>> /\ batch' = <<>>
      BY DEF IInv, TypeOK, PipeTypeOK
    <2>2. sending' \in BOOLEAN
      BY DEF IInv, TypeOK, PipeTypeOK
    <2>3. BufferHasRoom'
      BY DEF IInv, BufferHasRoom
    <2> QED BY <2>1, <2>2, <2>3, QueueParts DEF PipeTypeOK
  <1>3. PipeOrdered'
    BY <1>1 DEF IInv, PipeOrdered, PipeRest
  <1>4. settled' \subseteq Lines
    BY DEF IInv, TypeOK, AuditTypeOK
  <1>5. /\ phase \in {"sender", "auditor"} => inputChan' = <<>>
        /\ phase = "auditor" => senderChan' = <<>> /\ buffer' = <<>> /\ batch' = <<>>
    BY DEF IInv, Drained
  <1> QED BY <1>1, <1>2, <1>3, <1>4, <1>5, PipeStep

\* The auditor commits what it is told of, which is settled, and saves what
\* it has committed.
LEMMA AuditIInv ==
  ASSUME IInv, Forward \/ updateRegistry
  PROVE  IInv'
  <1> USE LogsAssumption DEF LogsAssumption
  <1>1. /\ phase \in Alive /\ PipeRest
        /\ UNCHANGED <<inputChan, senderChan, buffer, sending, settled>>
    BY DEF Forward, updateRegistry, senderVars
  <1>2. UNCHANGED Past
    BY <1>1 DEF Past, PipeRest
  <1>3. CASE Forward
    <2>1. /\ batch # <<>> /\ Len(auditChan) < ChanSize
          /\ auditChan' = Append(auditChan, Head(batch)) /\ batch' = Tail(batch)
          /\ UNCHANGED auditVars
      BY <1>3 DEF Forward
    <2>2. /\ Head(batch) \in Messages /\ batch' \in Seq(Messages)
          /\ Len(batch') = Len(batch) - 1 /\ Len(batch) \in Nat
      BY <2>1, QueueParts, QueueType
    <2>3. /\ auditChan' \in Seq(Messages) /\ Len(auditChan') = Len(auditChan) + 1
          /\ Len(auditChan) \in Nat
      BY <2>1, <2>2, QueueParts, QueueType
    <2>4. Len(batch') <= BatchSize /\ Len(auditChan') <= ChanSize
      BY <2>1, <2>2, <2>3, QueueParts
    <2>5. \A i \in 1..Len(batch') : i + 1 \in 1..Len(batch) /\ batch'[i] = batch[i + 1]
      BY <2>1, QueueParts
    <2>6. Head(batch) = batch[1] /\ 1 \in 1..Len(batch)
      BY <2>1, QueueParts
    <2>7. \A i \in 1..Len(auditChan') :
            auditChan'[i] = IF i \in 1..Len(auditChan) THEN auditChan[i] ELSE Head(batch)
      BY <2>1, <2>2, <2>3, QueueParts
    <2>8. AuditSettled'
      BY <1>2, <2>5, <2>6, <2>7 DEF IInv, AuditSettled
    <2>9. registry' \in Positions /\ disk' \in Positions /\ CommittedSettled'
      BY <1>1, <2>1, CommitSame
    <2> QED BY <1>1, <2>1, <2>2, <2>3, <2>4, <2>8, <2>9, AuditStep
  <1>4. CASE updateRegistry
    <2> DEFINE m == Head(auditChan)
    <2>1. /\ auditChan # <<>> /\ auditChan' = Tail(auditChan) /\ UNCHANGED <<batch, disk>>
          /\ registry' = IF m.off = 0 THEN registry ELSE [gen |-> m.gen, off |-> m.off]
      BY <1>4 DEF updateRegistry, senderVars
    <2>2. /\ m \in Messages /\ auditChan' \in Seq(Messages)
          /\ Len(auditChan') = Len(auditChan) - 1 /\ Len(auditChan) \in Nat
      BY <2>1, QueueParts, QueueType
    <2>3. Len(auditChan') <= ChanSize
      BY <2>2, QueueParts
    <2>4. \A i \in 1..Len(auditChan') :
            i + 1 \in 1..Len(auditChan) /\ auditChan'[i] = auditChan[i + 1]
      BY <2>1, QueueParts
    <2>5. m = auditChan[1] /\ 1 \in 1..Len(auditChan)
      BY <2>1, QueueParts
    <2> HIDE DEF m
    <2>6. AuditSettled' /\ Covers(m, Past)
      BY <1>2, <2>1, <2>4, <2>5 DEF IInv, AuditSettled
    <2>7. registry' \in Positions /\ Covers(registry', Past)
      <3>1. CASE m.off = 0
        BY <2>1, <3>1 DEF IInv, TypeOK, AuditTypeOK, CommittedSettled
      <3>2. CASE m.off # 0
        <4>1. m.gen \in Gens /\ m.off \in 1..MaxLines
          BY <2>2, <3>2 DEF Messages
        <4> QED BY <2>1, <2>6, <3>2, <4>1 DEF Positions, Covers
      <3> QED BY <3>1, <3>2
    <2>8. disk' \in Positions /\ CommittedSettled'
      BY <1>2, <2>1, <2>7 DEF IInv, TypeOK, AuditTypeOK, CommittedSettled
    <2> QED BY <1>1, <2>1, <2>2, <2>3, <2>6, <2>7, <2>8, QueueParts, AuditStep
  <1> QED BY <1>3, <1>4

-----------------------------------------------------------------------------
(***************************************************************************)
(* The agent's own steps.                                                  *)
(***************************************************************************)

\* The registry is saved, or not quite, the entry of the path expires, or
\* the grace period does.
LEMMA ExpiryIInv ==
  ASSUME IInv, flushRegistry \/ cleanupRegistry \/ GraceTimeout
  PROVE  IInv'
  <1> USE LogsAssumption DEF LogsAssumption
  <1>1. /\ UNCHANGED <<fileVars, phase, tailVars, pipeVars, ghosts>>
        /\ UNCHANGED pipeVars /\ UNCHANGED tailVars /\ UNCHANGED ghosts
        /\ phase \in Alive /\ (~canceled' => ~canceled)
        /\ registry' \in {registry, NoOffset} /\ disk' \in {disk, registry, NoOffset}
        /\ Fault \/ UNCHANGED faults
    BY DEF flushRegistry, cleanupRegistry, Expire, GraceTimeout, auditVars, Alive
  <1>2. UNCHANGED Past
    BY <1>1 DEF Past, ghosts
  <1>3. PipeTypeOK' /\ PipeOrdered' /\ AuditSettled' /\ BufferHasRoom'
        /\ (~canceled' => ~canceled /\ AheadOfHands \subseteq AheadOfHands')
    BY <1>1, <1>2, PipeSame
  <1>4. TailerTypeOK' /\ TailersOrdered'
    BY <1>1, <1>3, TailersSame
  <1>5. canceled' \in BOOLEAN
    BY Zenon DEF flushRegistry, cleanupRegistry, GraceTimeout, IInv, TypeOK, FileTypeOK
  <1>6. FileTypeOK'
    BY <1>1, <1>5 DEF IInv, TypeOK, FileTypeOK, fileVars
  <1>7. AuditTypeOK'
    BY <1>1 DEF IInv, TypeOK, AuditTypeOK, ghosts, Fault, Positions
  <1>8. CommittedSettled'
    <2>1. UpTo(0, 0) = {}
      BY DEF UpTo
    <2> QED BY <1>1, <1>2, <2>1 DEF IInv, CommittedSettled, Covers, NoOffset
  <1>9. Drained'
    BY <1>1 DEF IInv, Drained, pipeVars, senderVars, tailVars, Alive, Stopping
  <1> QED BY <1>3, <1>4, <1>6, <1>7, <1>8, <1>9 DEF IInv, TypeOK

\* No message anywhere: everything about the pipeline holds.
LEMMA NothingQueued ==
  ASSUME inputChan' = <<>>, senderChan' = <<>>, buffer' = <<>>, batch' = <<>>,
         auditChan' = <<>>, sending' = FALSE
  PROVE  PipeTypeOK' /\ PipeOrdered' /\ AuditSettled' /\ BufferHasRoom'
  <1> USE LogsAssumption DEF LogsAssumption
  <1>1. sending' \in BOOLEAN /\ ~sending'
    BY Zenon
  <1>2. PipeTypeOK' /\ BufferHasRoom'
    BY <1>1 DEF PipeTypeOK, BufferHasRoom
  <1>3. PipeOrdered'
    BY EmptyQueue DEF PipeOrdered
  <1>4. AuditSettled'
    BY DEF AuditSettled
  <1> QED BY <1>2, <1>3, <1>4

\* No tailer.
LEMMA NobodyTails ==
  ASSUME cur' = 0, tailers' = NoTailers
  PROVE  TailerTypeOK' /\ TailersOrdered' /\ \A t \in Tailers : tailers'[t] = NoTailer
  <1>1. \A t \in Tailers : tailers'[t] = NoTailer
    BY DEF NoTailers
  <1>2. tailers' \in [Tailers -> TailerStates] /\ cur' \in 0..MaxTailers
    BY NoTailerParts, LogsAssumption DEF LogsAssumption, TailerSound, NoTailers
  <1> QED BY <1>1, <1>2, NoTailerParts, TailersNext

\* An agent that starts has an empty pipeline and no tailer: it begins with
\* the position on disk, and one tailer when the file is there.
LEMMA StartIInv ==
  ASSUME IInv, Start
  PROVE  IInv'
  <1> USE LogsAssumption DEF LogsAssumption
  <1>1. /\ phase \in {"stopped", "down"} /\ phase' = "up"
        /\ registry' \in {disk, NoOffset} /\ (Fault \/ UNCHANGED faults)
        /\ UNCHANGED <<fileVars, pipeVars, disk, settled>> /\ taken' = {}
        /\ UNCHANGED <<pipeVars, settled>>
        /\ \/ StartTailer(NoTailers, Position(registry', discovered))
           \/ cur' = 0 /\ tailers' = NoTailers /\ UNCHANGED skipped
    BY DEF Start, Cleaned, Expire
  <1>2. /\ inputChan = <<>> /\ senderChan = <<>> /\ buffer = <<>> /\ batch = <<>>
        /\ auditChan = <<>>
    BY <1>1 DEF IInv, Drained
  <1>3. sending' = FALSE
    <2>1. ~sending
      BY <1>2 DEF IInv, TypeOK, PipeTypeOK
    <2>2. sending \in BOOLEAN /\ sending' = sending
      BY <1>1 DEF IInv, TypeOK, PipeTypeOK, pipeVars, senderVars
    <2> QED BY <2>1, <2>2, Zenon
  <1>4. PipeTypeOK' /\ PipeOrdered' /\ AuditSettled' /\ BufferHasRoom'
    BY <1>1, <1>2, <1>3, NothingQueued DEF pipeVars, senderVars
  <1>5. /\ disk \in Positions /\ Covers(disk, Past)
        /\ registry' \in Positions /\ Covers(registry', Past)
    <2>1. disk \in Positions /\ Covers(disk, Past)
      BY DEF IInv, TypeOK, AuditTypeOK, CommittedSettled
    <2>2. NoOffset \in Positions /\ Covers(NoOffset, Past)
      BY DEF Positions, Covers, UpTo, NoOffset
    <2> QED BY <1>1, <2>1, <2>2
  <1>6. /\ TailerTypeOK' /\ TailersOrdered'
        /\ Past \subseteq Past' /\ skipped' \subseteq Lines
    <2>1. /\ NoTailers \in [Tailers -> TailerStates]
          /\ \A t \in Tailers : /\ TailerSound(NoTailers[t])
                                /\ TailerOrdered(NoTailers[t], AheadOfHands)
      BY NoTailerParts DEF NoTailers, TailerSound
    <2>2. CASE StartTailer(NoTailers, Position(registry', discovered))
      <3>1. PICK entry \in Positions : entry = registry'
        BY <1>5
      <3>2. PICK start : start = Position(entry, discovered)
        OBVIOUS
      <3>3. start \in 0..MaxLines
        BY <3>2, PositionType
      <3>4. StartTailer(NoTailers, start)
        BY <2>2, <3>1, <3>2
      <3> QED BY <1>1, <2>1, <3>3, <3>4, StartTailerSound
    <2>3. CASE cur' = 0 /\ tailers' = NoTailers /\ UNCHANGED skipped
      <3>1. TailerTypeOK' /\ TailersOrdered'
        BY <2>3, NobodyTails
      <3> QED BY <1>1, <2>3, <3>1 DEF Past, IInv, TypeOK, AuditTypeOK
    <2> QED BY <1>1, <2>2, <2>3
  <1>7. canceled' \in BOOLEAN
    BY Zenon DEF Start
  <1>8. FileTypeOK'
    BY <1>1, <1>7 DEF IInv, TypeOK, FileTypeOK, fileVars, Alive
  <1>9. AuditTypeOK'
    BY <1>1, <1>5, <1>6 DEF IInv, TypeOK, AuditTypeOK, Fault
  <1>10. CommittedSettled'
    BY <1>1, <1>5, <1>6 DEF CommittedSettled, Covers
  <1>11. Drained'
    BY <1>1 DEF Drained
  <1> QED BY <1>4, <1>6, <1>8, <1>9, <1>10, <1>11 DEF IInv, TypeOK

\* The ordered stop: each step waits for the part before it to be empty.
LEMMA StopIInv ==
  ASSUME IInv, Stop \/ Shutdown
  PROVE  IInv'
  <1> USE LogsAssumption DEF LogsAssumption
  <1>1. /\ UNCHANGED <<fileVars, canceled, pipeVars, ghosts>>
        /\ UNCHANGED pipeVars /\ UNCHANGED ghosts
        /\ phase \in Alive /\ phase' \in Stopping \cup {"stopped"}
        /\ disk' \in {disk, registry, NoOffset} /\ registry' \in {registry, NoOffset}
        /\ Fault \/ UNCHANGED faults
    BY DEF Stop, Shutdown, InputsStopped, ProcessorStopped, SenderStopped,
       SenderStoppedWhen, StepDown, AuditorStopped, Expire, auditVars, Alive, Stopping
  <1>2. UNCHANGED <<Past, AheadOfHands>>
    BY <1>1, AheadSame DEF pipeVars, senderVars, ghosts
  <1>3. PipeTypeOK' /\ PipeOrdered' /\ AuditSettled' /\ BufferHasRoom'
    BY <1>1, <1>2, PipeSame
  <1>4. /\ FileTypeOK' /\ AuditTypeOK' /\ CommittedSettled'
    <2>1. FileTypeOK'
      BY <1>1 DEF IInv, TypeOK, FileTypeOK, fileVars, Alive
    <2>2. AuditTypeOK'
      BY <1>1 DEF IInv, TypeOK, AuditTypeOK, ghosts, Fault, Positions
    <2>3. Covers(NoOffset, Past)
      BY DEF Covers, UpTo, NoOffset
    <2> QED BY <1>1, <1>2, <2>1, <2>2, <2>3 DEF IInv, CommittedSettled
  <1>5. TailerTypeOK' /\ TailersOrdered'
    <2>1. CASE UNCHANGED tailVars
      BY <1>1, <1>2, <2>1, TailersSame
    <2>2. CASE cur # 0 /\ cur' = cur /\ tailers' = Told(cur)
      <3>1. cur \in Tailers
        BY <2>2, TailerParts DEF Tailers
      <3>2. PICK r : /\ tailers' = [tailers EXCEPT ![cur] = r] /\ TailerSound(r)
                     /\ \A ahead : TailerOrdered(tailers[cur], ahead) => TailerOrdered(r, ahead)
        BY <2>2, <3>1, ToldSound
      <3> QED BY <1>1, <1>2, <2>2, <3>1, <3>2, TailerParts, OneTailer
    <2> QED BY <2>1, <2>2 DEF Stop, Shutdown, InputsStopped, ProcessorStopped,
               SenderStopped, SenderStoppedWhen, StepDown, AuditorStopped, tailVars
  <1>6. Drained'
    <2>1. CASE Stop
      BY <2>1 DEF Stop, Drained
    <2>2. CASE InputsStopped
      <3>1. UNCHANGED tailVars /\ phase' = "processor"
            /\ (cur = 0 \/ tailers[cur].mode = "done")
        BY <2>2 DEF InputsStopped, StepDown
      <3>2. cur # 0 => cur \in Tailers
        BY TailerParts DEF Tailers
      <3>3. cur = 0 \/ tailers[cur] = NoTailer
        BY <3>1, <3>2, TailerParts DEF TailerSound
      <3> QED BY <3>1, <3>3 DEF Drained, tailVars
    <2>3. CASE ProcessorStopped
      BY <1>1, <2>3 DEF ProcessorStopped, StepDown, IInv, Drained, pipeVars, tailVars
    <2>4. CASE SenderStopped
      BY <1>1, <2>4 DEF SenderStopped, SenderStoppedWhen, StepDown, IInv, Drained,
         pipeVars, senderVars, tailVars
    <2>5. CASE AuditorStopped
      BY <1>1, <2>5 DEF AuditorStopped, IInv, Drained, pipeVars, senderVars, tailVars
    <2> QED BY <2>1, <2>2, <2>3, <2>4, <2>5 DEF Shutdown
  <1> QED BY <1>3, <1>4, <1>5, <1>6 DEF IInv, TypeOK

\* The process ends: what is on disk was committed, or nothing is there.
LEMMA GoneIInv ==
  ASSUME IInv, NEW onDisk \in {disk, NoOffset}, Gone(onDisk), faults' \in 0..MaxFaults
  PROVE  IInv'
  <1> USE LogsAssumption DEF LogsAssumption
  <1>1. PipeTypeOK' /\ PipeOrdered' /\ AuditSettled' /\ BufferHasRoom'
    BY NothingQueued DEF Gone
  <1>2. TailerTypeOK' /\ TailersOrdered' /\ \A t \in Tailers : tailers'[t] = NoTailer
    BY NobodyTails DEF Gone
  <1>3. canceled' \in BOOLEAN
    BY Zenon DEF Gone
  <1>4. FileTypeOK'
    BY <1>3 DEF Gone, IInv, TypeOK, FileTypeOK, fileVars
  <1>5. UNCHANGED <<settled, skipped>> /\ taken' = {} /\ registry' = NoOffset /\ disk' \in {disk, NoOffset}
    BY DEF Gone
  <1>6. AuditTypeOK'
    BY <1>5 DEF IInv, TypeOK, AuditTypeOK, Positions
  <1>7. CommittedSettled'
    <2>1. UNCHANGED Past
      BY <1>5 DEF Past
    <2>2. UpTo(0, 0) = {}
      BY DEF UpTo
    <2> QED BY <1>5, <2>1, <2>2 DEF IInv, CommittedSettled, Covers, NoOffset
  <1>8. Drained'
    BY <1>2 DEF Gone, Drained
  <1> QED BY <1>1, <1>2, <1>4, <1>6, <1>7, <1>8 DEF IInv, TypeOK

\* Crashes, forced exits and panics.
LEMMA EndIInv ==
  ASSUME IInv, Crash \/ ForceQuit \/ \E t \in Tailers : Panic(t)
  PROVE  IInv'
  <1>1. faults' \in 0..MaxFaults
    BY LogsAssumption DEF LogsAssumption, Crash, ForceQuit, Panic, Fault, IInv, TypeOK,
       AuditTypeOK
  <1>2. \E onDisk \in {disk, NoOffset} : Gone(onDisk)
    BY DEF Crash, ForceQuit, Panic
  <1> QED BY <1>1, <1>2, GoneIInv

-----------------------------------------------------------------------------
(***************************************************************************)
(* The invariant, and what follows from it.                                *)
(***************************************************************************)

\* Every step keeps the invariant.
LEMMA NextIInv == IInv /\ [Next]_vars => IInv'
  <1> SUFFICES ASSUME IInv, [Next]_vars PROVE IInv'
    OBVIOUS
  <1>1. CASE Write \/ MoveAway \/ Create \/ Truncate
    BY <1>1, FileIInv
  <1>2. CASE scan
    BY <1>2, ScanIInv
  <1>3. ASSUME NEW t \in Tailers, TailFile(t) \/ ReadError(t) PROVE IInv'
    BY <1>3, ReaderIInv, ReadIInv, BuildIInv, OutputIInv DEF TailFile
  <1>4. CASE Pipeline \/ SendRetried
    BY <1>4, ProcessIInv, ReceiveIInv, SendIInv, AuditIInv DEF Pipeline
  <1>5. CASE flushRegistry \/ cleanupRegistry \/ GraceTimeout
    BY <1>5, ExpiryIInv
  <1>6. CASE Start
    BY <1>6, StartIInv
  <1>7. CASE Stop \/ Shutdown
    BY <1>7, StopIInv
  <1>8. CASE Crash \/ ForceQuit \/ \E t \in Tailers : Panic(t)
    BY <1>8, EndIInv
  <1>9. CASE UNCHANGED vars
    <2>1. /\ UNCHANGED fileVars /\ UNCHANGED tailVars /\ UNCHANGED pipeVars
          /\ UNCHANGED auditVars /\ UNCHANGED ghosts
          /\ UNCHANGED <<phase, canceled, faults>>
      BY <1>9 DEF vars
    <2>2. UNCHANGED Past
      BY <2>1 DEF Past, ghosts
    <2>3. PipeTypeOK' /\ PipeOrdered' /\ AuditSettled' /\ BufferHasRoom'
          /\ (~canceled' => ~canceled /\ AheadOfHands \subseteq AheadOfHands')
      BY <2>1, <2>2, PipeSame
    <2>4. TailerTypeOK' /\ TailersOrdered'
      BY <2>1, <2>3, TailersSame
    <2>5. FileTypeOK' /\ AuditTypeOK' /\ CommittedSettled'
      <3>1. skipped' \subseteq Lines /\ taken' \subseteq Lines /\ faults' \in 0..MaxFaults
        BY <2>1 DEF ghosts, IInv, TypeOK, AuditTypeOK
      <3> QED BY <2>1, <2>2, <3>1, TailFrame DEF ghosts
    <2>6. Drained'
      BY <2>1 DEF IInv, Drained, auditVars, tailVars, pipeVars, senderVars
    <2> QED BY <2>3, <2>4, <2>5, <2>6 DEF IInv, TypeOK
  <1> QED BY <1>1, <1>2, <1>3, <1>4, <1>5, <1>6, <1>7, <1>8, <1>9 DEF Next, Progress

\* The invariant holds in every state.
LEMMA Invariance == Spec => []IInv
  BY InitIInv, NextIInv, PTL DEF Spec

-----------------------------------------------------------------------------
(***************************************************************************)
(* Lines that were read stay in sight.                                     *)
(***************************************************************************)

\* The queues of the pipeline, one by one.
LEMMA InPipeParts ==
  InPipe = LinesOf(inputChan) \cup LinesOf(senderChan) \cup LinesOf(buffer)
  BY DEF InPipe

\* The same after a step.
LEMMA InPipePartsNext ==
  InPipe' = LinesOf(inputChan)' \cup LinesOf(senderChan)' \cup LinesOf(buffer)'
  BY DEF InPipe

\* The pipeline is the same.
LEMMA InPipeSame ==
  ASSUME UNCHANGED <<inputChan, senderChan, buffer>>
  PROVE  InPipe' = InPipe
  BY DEF InPipe, LinesOf, FirstLines

\* What counts when one tailer changes is what that tailer holds.
LEMMA OneHeld ==
  ASSUME IInv, NEW t \in Tailers, NEW r, NEW S,
         tailers' = [tailers EXCEPT ![t] = r],
         Held(tailers[t]) \subseteq Held(r) \cup S
  PROVE  AllHeld \subseteq AllHeld' \cup S /\ Held(r) \subseteq AllHeld'
  <1>1. \A u \in Tailers : tailers'[u] = IF u = t THEN r ELSE tailers[u]
    BY TailerParts
  <1>2. AllHeld' = UNION {Held(tailers'[u]) : u \in Tailers}
    BY DEF AllHeld, Held, Decoding, LinesOf, FirstLines
  <1>3. Held(r) \subseteq AllHeld'
    BY <1>1, <1>2
  <1>4. AllHeld \subseteq AllHeld' \cup S
    <2> SUFFICES ASSUME NEW u \in Tailers, NEW x \in Held(tailers[u])
                 PROVE  x \in AllHeld' \cup S
      BY DEF AllHeld
    <2>1. CASE u = t
      BY <1>3, <2>1
    <2>2. CASE u # t
      BY <1>1, <1>2, <2>2
    <2> QED BY <2>1, <2>2
  <1> QED BY <1>3, <1>4

\* Records that agree on these fields hold the same lines.
LEMMA HeldSame ==
  ASSUME NEW r, NEW n,
         n.gen = r.gen /\ n.pos = r.pos /\ n.read = r.read /\ n.hand = r.hand
  PROVE  Held(n) = Held(r)
  BY DEF Held, Decoding

\* No tailer, nothing held.
LEMMA NoneHeld == Held(NoTailer) = {}
  <1>1. (0 + 1)..0 = {}
    OBVIOUS
  <1> QED BY <1>1, EmptyQueue DEF Held, Decoding, NoTailer

\* The scanner and the stop change modes and marks, and start tailers in
\* free slots: what is held stays held.
LEMMA ScanHeld ==
  ASSUME IInv, scan \/ Stop
  PROVE  AllHeld \subseteq AllHeld'
  <1>1. ASSUME NEW t \in Tailers, tailers' = Told(t)
        PROVE  AllHeld \subseteq AllHeld'
    <2>1. tailers[t] \in TailerStates
      BY TailerParts
    <2> DEFINE r == [tailers[t] EXCEPT !.mode = IF tailers[t].mode = "tail" THEN "told" ELSE tailers[t].mode]
    <2>2. tailers' = [tailers EXCEPT ![t] = r]
      BY <1>1 DEF Told
    <2>3. /\ r.gen = tailers[t].gen /\ r.pos = tailers[t].pos
          /\ r.read = tailers[t].read /\ r.hand = tailers[t].hand
      BY <2>1 DEF TailerStates
    <2> HIDE DEF r
    <2>4. Held(tailers[t]) \subseteq Held(r) \cup {}
      BY <2>3, HeldSame
    <2> QED BY <2>2, <2>4, OneHeld
  <1>2. ASSUME NEW base \in [Tailers -> TailerStates], NEW start,
               StartTailer(base, start),
               \A t \in Tailers : TailerSound(base[t]) /\ Held(base[t]) = Held(tailers[t])
        PROVE  AllHeld \subseteq AllHeld'
    <2> DEFINE free == {t \in Tailers : base[t].mode = "done"}
               slot == CHOOSE t \in free : TRUE
    <2>1. slot \in Tailers /\ base[slot].mode = "done"
      BY <1>2 DEF StartTailer
    <2>2. tailers' = [base EXCEPT ![slot] = NewTailer(start)]
      BY <1>2 DEF StartTailer
    <2> HIDE DEF slot, free
    <2>3. Held(base[slot]) = {}
      BY <1>2, <2>1, NoneHeld DEF TailerSound
    <2>4. \A u \in Tailers : u # slot => tailers'[u] = base[u]
      BY <2>1, <2>2
    <2>5. AllHeld' = UNION {Held(tailers'[u]) : u \in Tailers}
      BY DEF AllHeld, Held, Decoding, LinesOf, FirstLines
    <2> SUFFICES ASSUME NEW u \in Tailers, NEW x \in Held(tailers[u])
                 PROVE  x \in AllHeld'
      BY DEF AllHeld
    <2>6. u # slot /\ x \in Held(base[u])
      BY <1>2, <2>3
    <2> QED BY <2>4, <2>5, <2>6
  <1>3. CASE startNewTailer
    BY <1>2, <1>3, TailerParts DEF startNewTailer
  <1>4. CASE stopTailer
    <2>1. cur \in Tailers /\ tailers' = Told(cur)
      BY <1>4, TailerParts DEF stopTailer, Tailers
    <2> QED BY <1>1, <2>1
  <1>5. CASE Stop
    <2>1. CASE cur = 0
      BY <1>5, <2>1 DEF Stop, AllHeld, Held, Decoding, LinesOf, FirstLines
    <2>2. CASE cur # 0
      <3>1. cur \in Tailers /\ tailers' = Told(cur)
        BY <1>5, <2>2, TailerParts DEF Stop, Tailers
      <3> QED BY <1>1, <3>1
    <2> QED BY <2>1, <2>2
  <1>6. CASE restartTailerAfterFileRotation
    <2> DEFINE old == tailers[cur]
               new == [old EXCEPT !.rotated = TRUE]
               base == [tailers EXCEPT ![cur].rotated = TRUE]
    <2>1. cur \in Tailers /\ old.mode # "done" /\ StartTailer(base, 0)
      BY <1>6, TailerParts DEF restartTailerAfterFileRotation, Tailers
    <2>2. TailerSound(old) /\ tailers \in [Tailers -> TailerStates]
      BY <2>1, TailerParts
    <2>3. old \in TailerStates /\ old # NoTailer
      BY <2>1, <2>2 DEF TailerSound, NoTailer
    <2>4. /\ new.mode = old.mode
          /\ new.gen = old.gen /\ new.read = old.read /\ new.pos = old.pos
          /\ new.hand = old.hand /\ new.cut = old.cut
      BY <2>3 DEF TailerStates
    <2>5. new.rotated /\ new \in TailerStates
      BY <2>3 DEF TailerStates
    <2>6. \A t \in Tailers : base[t] = IF t = cur THEN new ELSE tailers[t]
      BY <2>1, <2>2
    <2>7. base \in [Tailers -> TailerStates]
      BY <2>1, <2>2, <2>5
    <2> HIDE DEF base, new
    <2>8. Held(new) = Held(old) /\ TailerSound(new)
      BY <2>2, <2>3, <2>4, <2>5, HeldSame DEF TailerSound
    <2>9. \A t \in Tailers : TailerSound(base[t]) /\ Held(base[t]) = Held(tailers[t])
      BY <2>6, <2>8, TailerParts
    <2> QED BY <1>2, <2>1, <2>7, <2>9
  <1> QED BY <1>3, <1>4, <1>5, <1>6 DEF scan

\* A tailer's step: what it takes it holds, what it held it still holds, or
\* it is in the pipeline, or was given up.
LEMMA TailerHeld ==
  ASSUME IInv, NEW t \in Tailers, TailFile(t) \/ ReadError(t)
  PROVE  \E S : /\ AllHeld \subseteq AllHeld' \cup S
                /\ S \subseteq InPipe' \/ taken' = taken \ S
                /\ taken' \subseteq taken \cup AllHeld'
                /\ InPipe \subseteq InPipe' /\ UNCHANGED <<settled, canceled>>
  <1> DEFINE old == tailers[t]
  <1>1. TailerSound(old) /\ old \in TailerStates
    BY TailerParts DEF TailerSound
  <1>2. TailRest
    BY DEF TailFile, Read, ReadOn, ReadError, StopReading, CloseTimeout, BuildMessage,
       BuildMessageIf, Output, GiveUp, Done
  <1>3. old.pos \in 0..MaxLines /\ old.read \in 0..MaxLines /\ old.hand \in Seq(Messages)
    BY <1>1 DEF TailerStates
  <1>4. CASE Output(t)
    <2> DEFINE new == [old EXCEPT !.hand = <<>>]
               m == Head(old.hand)
    <2>1. /\ old.hand # <<>> /\ inputChan' = Append(inputChan, m)
          /\ tailers' = [tailers EXCEPT ![t] = new] /\ UNCHANGED taken
      BY <1>4 DEF Output, Becomes, SameGhosts
    <2>2. Len(old.hand) <= 1
      BY <1>1, <2>1 DEF TailerSound, NoTailer
    <2>3. m \in Messages /\ LinesOf(old.hand) = {LineOf(m)}
      <3> HIDE DEF old
      <3>1. m \in Messages /\ Len(old.hand) > 0 /\ Len(old.hand) \in Nat
        BY <1>3, <2>1, QueueType, Zenon DEF m
      <3>2. \A n \in Nat : n > 0 /\ n <= 1 => n = 1
        OBVIOUS
      <3>3. Len(old.hand) = 1
        BY <2>2, <3>1, <3>2, Zenon
      <3> QED BY <1>3, <3>1, <3>3 DEF LinesOf, FirstLines
    <2>4. /\ new.hand = <<>> /\ new.pos = old.pos
          /\ new.gen = old.gen /\ new.read = old.read
      BY <1>1, EmptyHandFields
    <2> HIDE DEF new, m
    <2>5. Held(old) \subseteq Held(new) \cup {LineOf(m)}
      BY <2>3, <2>4 DEF Held, Decoding
    <2>6. LinesOf(inputChan)' = LinesOf(inputChan) \cup {LineOf(m)}
      BY <2>1, <2>3, QueueParts, AppendLines DEF LinesOf, FirstLines
    <2>7. InPipe \subseteq InPipe' /\ {LineOf(m)} \subseteq InPipe'
      BY <1>2, <2>6, InPipeParts, InPipePartsNext DEF TailRest, senderVars, LinesOf, FirstLines
    <2>8. AllHeld \subseteq AllHeld' \cup {LineOf(m)}
      BY <2>1, <2>5, OneHeld
    <2> QED BY <1>2, <2>1, <2>7, <2>8 DEF TailRest
  <1> SUFFICES ASSUME ~Output(t)
               PROVE  \E S : /\ AllHeld \subseteq AllHeld' \cup S
                             /\ S = {} \/ taken' = taken \ S
                             /\ taken' \subseteq taken \cup AllHeld'
    <2>1. ASSUME ~Output(t)
          PROVE  UNCHANGED <<inputChan, senderChan, buffer, settled, canceled>>
      BY <1>2, <2>1 DEF TailRest, senderVars, TailFile, Read, ReadOn, ReadError, StopReading,
         CloseTimeout, BuildMessage, BuildMessageIf, GiveUp, Done
    <2> QED BY <1>4, <2>1, InPipeSame
  <1>5. CASE GiveUp(t)
    <2> DEFINE new == [old EXCEPT !.hand = <<>>]
    <2>1. tailers' = [tailers EXCEPT ![t] = new] /\ taken' = taken \ LinesOf(old.hand)
      BY <1>5 DEF GiveUp, Becomes
    <2>2. /\ new.hand = <<>> /\ new.pos = old.pos
          /\ new.gen = old.gen /\ new.read = old.read
      BY <1>1, EmptyHandFields
    <2> HIDE DEF new
    <2>3. Held(old) \subseteq Held(new) \cup LinesOf(old.hand)
      BY <2>2 DEF Held, Decoding
    <2>4. AllHeld \subseteq AllHeld' \cup LinesOf(old.hand)
      BY <2>1, <2>3, OneHeld
    <2> QED BY <2>1, <2>4
  <1>6. CASE Done(t)
    <2>1. /\ tailers' = [tailers EXCEPT ![t] = NoTailer] /\ UNCHANGED taken
          /\ old.hand = <<>> /\ old.pos = old.read
      BY <1>6 DEF Done, Becomes, SameGhosts
    <2>2. (old.pos + 1)..old.read = {}
      BY <1>3, <2>1
    <2>3. Held(old) \subseteq Held(NoTailer) \cup {}
      BY <2>1, <2>2, EmptyQueue DEF Held, Decoding
    <2>4. AllHeld \subseteq AllHeld' \cup {}
      BY <2>1, <2>3, OneHeld
    <2> QED BY <2>1, <2>4
  <1>7. CASE StopReading(t) \/ ReadError(t)
    <2> DEFINE new == [old EXCEPT !.mode = "flush"]
    <2>1. tailers' = [tailers EXCEPT ![t] = new] /\ UNCHANGED taken
      BY <1>7 DEF StopReading, ReadError, Becomes, SameGhosts
    <2>2. new.hand = old.hand /\ new.pos = old.pos /\ new.gen = old.gen /\ new.read = old.read
      BY <1>1 DEF TailerStates
    <2> HIDE DEF new
    <2>3. Held(old) \subseteq Held(new) \cup {}
      BY <2>2, HeldSame
    <2>4. AllHeld \subseteq AllHeld' \cup {}
      BY <2>1, <2>3, OneHeld
    <2> QED BY <2>1, <2>4
  <1>8. CASE CloseTimeout(t)
    <2> DEFINE new == [old EXCEPT !.cut = TRUE,
                                  !.mode = IF old.mode = "tail" THEN "told" ELSE old.mode]
    <2>1. tailers' = [tailers EXCEPT ![t] = new] /\ UNCHANGED taken
      BY <1>8 DEF CloseTimeout, Becomes, SameGhosts
    <2>2. new.hand = old.hand /\ new.pos = old.pos /\ new.gen = old.gen /\ new.read = old.read
      BY <1>1 DEF TailerStates
    <2> HIDE DEF new
    <2>3. Held(old) \subseteq Held(new) \cup {}
      BY <2>2, HeldSame
    <2>4. AllHeld \subseteq AllHeld' \cup {}
      BY <2>1, <2>3, OneHeld
    <2> QED BY <2>1, <2>4
  <1>9. CASE BuildMessage(t)
    <2> DEFINE msg == [gen |-> old.gen, line |-> old.pos + 1,
                       off |-> IF old.rotated THEN 0 ELSE old.pos + 1]
               new == [old EXCEPT !.pos = old.pos + 1, !.hand = <<msg>>]
    <2>1. /\ tailers' = [tailers EXCEPT ![t] = new] /\ UNCHANGED taken
          /\ old.hand = <<>>
      BY <1>9 DEF BuildMessage, BuildMessageIf, Becomes, SameGhosts
    <2>2. LinesOf(<<msg>>) = {<<old.gen, old.pos + 1>>}
      BY DEF LinesOf, FirstLines, LineOf
    <2>3. /\ new.hand = <<msg>> /\ new.pos = old.pos + 1
          /\ new.gen = old.gen /\ new.read = old.read
      <3> HIDE DEF msg
      <3> QED BY <1>1 DEF TailerStates
    <2> HIDE DEF new, msg
    <2>4. \A i \in (old.pos + 1)..old.read : i = old.pos + 1 \/ i \in ((old.pos + 1) + 1)..old.read
      BY <1>3
    <2>5. Held(old) \subseteq Held(new) \cup {}
      BY <2>1, <2>2, <2>3, <2>4, EmptyQueue DEF Held, Decoding
    <2>6. AllHeld \subseteq AllHeld' \cup {}
      BY <2>1, <2>5, OneHeld
    <2> QED BY <2>1, <2>6
  <1>10. CASE Read(t)
    <2>1. PICK n \in (old.read + 1)..file[old.gen] :
            /\ tailers' = [tailers EXCEPT ![t] = [old EXCEPT !.read = n]]
            /\ taken' = taken \cup ({old.gen} \X ((old.read + 1)..n))
      BY <1>10 DEF Read, Becomes
    <2> DEFINE new == [old EXCEPT !.read = n]
    <2>2. old # NoTailer
      BY <1>10 DEF Read, NoTailer
    <2>3. old.pos <= old.read /\ old.gen \in Gens
      BY <1>1, <2>2 DEF TailerSound
    <2>4. n \in Nat
      BY <1>3, <2>1, <2>3, LogsAssumption DEF LogsAssumption, IInv, TypeOK, FileTypeOK
    <2>5. new.hand = old.hand /\ new.pos = old.pos /\ new.gen = old.gen /\ new.read = n
      BY <1>1 DEF TailerStates
    <2> HIDE DEF new
    <2>6. /\ \A i \in (old.read + 1)..n : i \in (old.pos + 1)..n
          /\ \A i \in (old.pos + 1)..old.read : i \in (old.pos + 1)..n
      BY <1>3, <2>1, <2>3, <2>4
    <2>7. Held(old) \subseteq Held(new) \cup {} /\ {old.gen} \X ((old.read + 1)..n) \subseteq Held(new)
      BY <2>5, <2>6 DEF Held, Decoding
    <2>8. AllHeld \subseteq AllHeld' \cup {} /\ Held(new) \subseteq AllHeld'
      BY <2>1, <2>7, OneHeld DEF new
    <2> QED BY <2>1, <2>7, <2>8
  <1>11. CASE ReadOn(t)
    <2>1. PICK g \in Gens, n \in 1..MaxLines :
            /\ tailers' = [tailers EXCEPT ![t] = [old EXCEPT !.gen = g, !.read = n]]
            /\ taken' = taken \cup ({g} \X ((old.read + 1)..n))
            /\ old.hand = <<>> /\ old.pos = old.read
      BY <1>11 DEF ReadOn, Becomes
    <2> DEFINE new == [old EXCEPT !.gen = g, !.read = n]
    <2>2. new.hand = <<>> /\ new.pos = old.read /\ new.gen = g /\ new.read = n
      BY <1>1, <2>1 DEF TailerStates
    <2> HIDE DEF new
    <2>3. (old.pos + 1)..old.read = {}
      BY <1>3, <2>1
    <2>4. Held(old) \subseteq Held(new) \cup {} /\ {g} \X ((old.read + 1)..n) \subseteq Held(new)
      BY <2>1, <2>2, <2>3, EmptyQueue DEF Held, Decoding
    <2>5. AllHeld \subseteq AllHeld' \cup {} /\ Held(new) \subseteq AllHeld'
      BY <2>1, <2>4, OneHeld DEF new
    <2> QED BY <2>1, <2>4, <2>5
  <1> QED BY <1>5, <1>6, <1>7, <1>8, <1>9, <1>10, <1>11 DEF TailFile

\* A step of the pipeline hands lines on, or settles them, as long as
\* nothing was canceled.
LEMMA PipelineHeld ==
  ASSUME IInv, Pipeline \/ SendRetried, ~canceled
  PROVE  /\ settled \cup InPipe \subseteq settled' \cup InPipe'
         /\ UNCHANGED <<tailers, taken, canceled>>
  <1>1. UNCHANGED <<tailers, taken, canceled>>
    BY DEF Pipeline, Process, ProcessTelling, Receive, ReceiveTooLong, FlushTimer,
       SendAnswered, SendRetried, SendCanceled, Forward, updateRegistry, PipeRest, tailVars
  <1> SUFFICES settled \cup InPipe \subseteq settled' \cup InPipe'
    BY <1>1
  <1>2. CASE Process
    <2>1. /\ inputChan # <<>> /\ inputChan' = Tail(inputChan) /\ UNCHANGED senderVars
          /\ \/ senderChan' = Append(senderChan, Head(inputChan)) /\ UNCHANGED settled
             \/ settled' = settled \cup {LineOf(Head(inputChan))} /\ UNCHANGED senderChan
      BY <1>2 DEF Process, ProcessTelling
    <2>2. /\ LinesOf(inputChan) = {LineOf(Head(inputChan))} \cup LinesOf(inputChan')
          /\ Head(inputChan) \in Messages
      BY <2>1, QueueParts, TailLines, QueueType
    <2>3. senderChan' = Append(senderChan, Head(inputChan)) =>
            LinesOf(senderChan') = LinesOf(senderChan) \cup {LineOf(Head(inputChan))}
      BY <2>2, QueueParts, AppendLines
    <2>4. /\ InPipe' = LinesOf(inputChan') \cup LinesOf(senderChan') \cup LinesOf(buffer')
          /\ buffer' = buffer
      BY <2>1, InPipePartsNext DEF senderVars, LinesOf, FirstLines
    <2> QED BY <2>1, <2>2, <2>3, <2>4, InPipeParts
  <1>3. CASE Receive \/ ReceiveTooLong
    <2>1. /\ senderChan # <<>> /\ senderChan' = Tail(senderChan) /\ UNCHANGED inputChan
          /\ \/ buffer' = Append(buffer, Head(senderChan)) /\ UNCHANGED settled
             \/ settled' = settled \cup {LineOf(Head(senderChan))} /\ UNCHANGED buffer
      BY <1>3 DEF Receive, ReceiveTooLong
    <2>2. /\ LinesOf(senderChan) = {LineOf(Head(senderChan))} \cup LinesOf(senderChan')
          /\ Head(senderChan) \in Messages
      BY <2>1, QueueParts, TailLines, QueueType
    <2>3. buffer' = Append(buffer, Head(senderChan)) =>
            LinesOf(buffer') = LinesOf(buffer) \cup {LineOf(Head(senderChan))}
      BY <2>2, QueueParts, AppendLines
    <2>4. InPipe' = LinesOf(inputChan') \cup LinesOf(senderChan') \cup LinesOf(buffer')
      BY InPipePartsNext DEF LinesOf, FirstLines
    <2> QED BY <2>1, <2>2, <2>3, <2>4, InPipeParts
  <1>4. CASE SendAnswered
    <2>1. UNCHANGED <<inputChan, senderChan>> /\ settled' = settled \cup LinesOf(buffer)
      BY <1>4 DEF SendAnswered
    <2>2. InPipe' = LinesOf(inputChan') \cup LinesOf(senderChan') \cup LinesOf(buffer')
      BY InPipePartsNext DEF LinesOf, FirstLines
    <2> QED BY <2>1, <2>2, InPipeParts
  <1>5. CASE SendRetried \/ FlushTimer \/ Forward \/ updateRegistry
    <2>1. UNCHANGED <<inputChan, senderChan, buffer>> /\ settled \subseteq settled'
      BY <1>5 DEF SendRetried, FlushTimer, Forward, updateRegistry, senderVars
    <2> QED BY <2>1, InPipeSame
  <1>6. ~SendCanceled
    BY DEF SendCanceled
  <1> QED BY <1>2, <1>3, <1>4, <1>5, <1>6 DEF Pipeline

\* Nothing that was read is lost sight of.
LEMMA NothingDroppedNext ==
  ASSUME IInv, NothingDropped, [Next]_vars
  PROVE  NothingDropped'
  <1> SUFFICES ASSUME ~canceled' PROVE taken' \subseteq settled' \cup InPipe' \cup AllHeld'
    BY DEF NothingDropped
  <1>1. ASSUME ~canceled, taken' \subseteq taken, settled \subseteq settled',
               InPipe \subseteq InPipe', AllHeld \subseteq AllHeld'
        PROVE  taken' \subseteq settled' \cup InPipe' \cup AllHeld'
    BY <1>1 DEF NothingDropped
  <1>2. CASE UNCHANGED <<inputChan, senderChan, buffer, settled, taken, tailers>>
             /\ (~canceled' => ~canceled)
    <2>1. AllHeld' = AllHeld
      BY <1>2 DEF AllHeld, Held, Decoding, LinesOf, FirstLines
    <2> QED BY <1>1, <1>2, <2>1, InPipeSame
  <1>3. CASE scan \/ Stop
    <2>1. UNCHANGED <<inputChan, senderChan, buffer, settled, taken, canceled>>
      BY <1>3 DEF scan, startNewTailer, stopTailer, restartTailerAfterFileRotation, ScanRest,
         Stop, pipeVars, senderVars, ghosts
    <2> QED BY <1>1, <1>3, <2>1, ScanHeld, InPipeSame
  <1>4. ASSUME NEW t \in Tailers, TailFile(t) \/ ReadError(t)
        PROVE  taken' \subseteq settled' \cup InPipe' \cup AllHeld'
    <2>1. PICK S : /\ AllHeld \subseteq AllHeld' \cup S
                   /\ S \subseteq InPipe' \/ taken' = taken \ S
                   /\ taken' \subseteq taken \cup AllHeld'
                   /\ InPipe \subseteq InPipe' /\ UNCHANGED <<settled, canceled>>
      BY <1>4, TailerHeld
    <2>2. taken \subseteq settled \cup InPipe \cup AllHeld
      BY <2>1 DEF NothingDropped
    <2> QED BY <2>1, <2>2
  <1>5. CASE (Pipeline \/ SendRetried) /\ ~canceled
    <2>1. /\ settled \cup InPipe \subseteq settled' \cup InPipe'
          /\ UNCHANGED <<tailers, taken, canceled>>
      BY <1>5, PipelineHeld
    <2>2. AllHeld' = AllHeld
      BY <2>1 DEF AllHeld, Held, Decoding, LinesOf, FirstLines
    <2> QED BY <1>5, <2>1, <2>2 DEF NothingDropped
  <1>6. CASE (Pipeline \/ SendRetried) /\ canceled
    <2>1. UNCHANGED canceled
      BY <1>6 DEF Pipeline, Process, ProcessTelling, Receive, ReceiveTooLong, FlushTimer,
         SendAnswered, SendRetried, SendCanceled, Forward, updateRegistry, PipeRest
    <2> QED BY <1>6, <2>1
  <1>7. CASE Start \/ Crash \/ ForceQuit \/ \E t \in Tailers : Panic(t)
    BY <1>7 DEF Start, Crash, ForceQuit, Panic, Gone
  <1>8. CASE Write \/ MoveAway \/ Create \/ Truncate
    BY <1>2, <1>8 DEF Write, MoveAway, Create, Truncate, FileRest, pipeVars, senderVars,
       ghosts, tailVars
  <1>9. CASE flushRegistry \/ cleanupRegistry \/ GraceTimeout \/ Shutdown
    BY <1>2, <1>9 DEF flushRegistry, cleanupRegistry, GraceTimeout, Shutdown, InputsStopped,
       ProcessorStopped, SenderStopped, SenderStoppedWhen, StepDown, AuditorStopped,
       pipeVars, senderVars, ghosts, tailVars
  <1>10. CASE UNCHANGED vars
    BY <1>2, <1>10 DEF vars, pipeVars, senderVars, ghosts, tailVars
  <1> QED BY <1>3, <1>4, <1>5, <1>6, <1>7, <1>8, <1>9, <1>10 DEF Next, Progress

-----------------------------------------------------------------------------
(***************************************************************************)
(* Nobody knows of a generation before it is there, so a file that was     *)
(* never rotated is read from the beginning to the end.                    *)
(***************************************************************************)

Now(g) == (1..g) \X (1..MaxLines)

TailerKnown(r, g) == r.gen <= g /\ LinesOf(r.hand) \subseteq Now(g)

KnownGens ==
  /\ \A t \in Tailers : TailerKnown(tailers[t], gen)
  /\ LinesOf(inputChan) \subseteq Now(gen) /\ LinesOf(senderChan) \subseteq Now(gen)
  /\ LinesOf(buffer) \subseteq Now(gen)
  /\ LinesOf(batch) \subseteq Now(gen) /\ LinesOf(auditChan) \subseteq Now(gen)
  /\ registry.gen <= gen /\ disk.gen <= gen

\* The first generation is the only one anybody knows of.
LEMMA NoTailerKnown ==
  ASSUME NEW g \in Nat
  PROVE  TailerKnown(NoTailer, g)
  BY EmptyQueue DEF TailerKnown, NoTailer

\* At the beginning.
LEMMA KnownInit == Init => KnownGens
  <1> SUFFICES ASSUME Init PROVE KnownGens
    OBVIOUS
  <1>1. \A t \in Tailers : tailers[t] = NoTailer
    BY DEF Init, NoTailers
  <1>2. gen = 1 /\ gen \in Nat
    BY DEF Init
  <1>3. \A t \in Tailers : TailerKnown(tailers[t], gen)
    BY <1>1, <1>2, NoTailerKnown
  <1> QED BY <1>2, <1>3, EmptyQueue DEF Init, KnownGens, NoOffset

\* A queue that only lost messages, or has a known one more.
LEMMA KnownQueue ==
  ASSUME NEW q \in Seq(Messages), NEW S, LinesOf(q) \subseteq S
  PROVE  /\ q # <<>> => LineOf(Head(q)) \in S /\ LinesOf(Tail(q)) \subseteq S
         /\ \A m \in Messages : LineOf(m) \in S => LinesOf(Append(q, m)) \subseteq S
  BY AppendLines, TailLines

\* Each queue after a step of the pipeline.
LEMMA PipelineKnown ==
  ASSUME IInv, KnownGens, Pipeline \/ SendRetried
  PROVE  KnownGens'
  <1>1. UNCHANGED <<tailers, gen, disk>>
    BY DEF Pipeline, Process, ProcessTelling, Receive, ReceiveTooLong, FlushTimer,
       SendAnswered, SendRetried, SendCanceled, Forward, updateRegistry, PipeRest, tailVars,
       fileVars, auditVars
  <1>4. (\A t \in Tailers : TailerKnown(tailers[t], gen))'
    BY <1>1 DEF KnownGens, TailerKnown, LinesOf, FirstLines, Now
  <1>5. /\ LinesOf(inputChan') \subseteq Now(gen) /\ LinesOf(senderChan') \subseteq Now(gen)
        /\ LinesOf(buffer') \subseteq Now(gen)
        /\ LinesOf(batch') \subseteq Now(gen) /\ LinesOf(auditChan') \subseteq Now(gen)
    <2> USE DEF KnownGens
    <2>1. CASE Process
      <3>1. /\ inputChan # <<>> /\ inputChan' = Tail(inputChan) /\ UNCHANGED senderVars
            /\ senderChan' = Append(senderChan, Head(inputChan)) \/ UNCHANGED senderChan
            /\ auditChan' = auditChan \/ auditChan' = auditChan \o <<>>
        BY <2>1 DEF Process, ProcessTelling
      <3>2. auditChan' = auditChan /\ Head(inputChan) \in Messages
        BY <3>1, QueueParts, QueueType
      <3> QED BY <3>1, <3>2, QueueParts, KnownQueue DEF senderVars
    <2>2. CASE Receive \/ ReceiveTooLong
      <3>1. /\ senderChan # <<>> /\ senderChan' = Tail(senderChan)
            /\ buffer' = Append(buffer, Head(senderChan)) \/ UNCHANGED buffer
            /\ UNCHANGED <<inputChan, batch, auditChan>>
        BY <2>2 DEF Receive, ReceiveTooLong
      <3>2. Head(senderChan) \in Messages
        BY <3>1, QueueParts, QueueType
      <3> QED BY <3>1, <3>2, QueueParts, KnownQueue
    <2>3. CASE FlushTimer \/ SendAnswered \/ SendRetried \/ SendCanceled
      <3>1. /\ UNCHANGED <<inputChan, senderChan, auditChan>>
            /\ buffer' = buffer \/ buffer' = <<>>
            /\ batch' = batch \/ batch' = buffer
        BY <2>3 DEF FlushTimer, SendAnswered, SendRetried, SendCanceled, senderVars
      <3> QED BY <3>1, EmptyQueue
    <2>4. CASE Forward
      <3>1. /\ batch # <<>> /\ auditChan' = Append(auditChan, Head(batch))
            /\ batch' = Tail(batch) /\ UNCHANGED <<inputChan, senderChan, buffer>>
        BY <2>4 DEF Forward
      <3>2. Head(batch) \in Messages
        BY <3>1, QueueParts, QueueType
      <3> QED BY <3>1, <3>2, QueueParts, KnownQueue
    <2>5. CASE updateRegistry
      <3>1. /\ auditChan # <<>> /\ auditChan' = Tail(auditChan)
            /\ UNCHANGED <<inputChan, senderChan, buffer, batch>>
        BY <2>5 DEF updateRegistry, senderVars
      <3> QED BY <3>1, QueueParts, KnownQueue
    <2> QED BY <2>1, <2>2, <2>3, <2>4, <2>5 DEF Pipeline
  <1>6. registry'.gen <= gen
    <2>1. CASE updateRegistry
      <3>1. /\ auditChan # <<>>
            /\ registry' = IF Head(auditChan).off = 0 THEN registry
                           ELSE [gen |-> Head(auditChan).gen, off |-> Head(auditChan).off]
        BY <2>1 DEF updateRegistry
      <3>2. LineOf(Head(auditChan)) \in Now(gen)
        BY <3>1, QueueParts, KnownQueue DEF KnownGens
      <3>3. Head(auditChan).gen \in 1..gen
        BY <3>2 DEF LineOf, Now
      <3>4. gen \in Nat
        BY LogsAssumption DEF LogsAssumption, IInv, TypeOK, FileTypeOK, Gens
      <3> QED BY <3>1, <3>3, <3>4 DEF KnownGens
    <2>2. CASE ~updateRegistry
      <3>1. UNCHANGED registry
        BY <2>2 DEF Pipeline, Process, ProcessTelling, Receive, ReceiveTooLong, FlushTimer,
           SendAnswered, SendRetried, SendCanceled, Forward, auditVars
      <3> QED BY <3>1 DEF KnownGens
    <2> QED BY <2>1, <2>2
  <1>7. Now(gen)' = Now(gen)
    BY <1>1 DEF Now
  <1>8. /\ LinesOf(inputChan)' = LinesOf(inputChan')
        /\ LinesOf(senderChan)' = LinesOf(senderChan') /\ LinesOf(buffer)' = LinesOf(buffer')
        /\ LinesOf(batch)' = LinesOf(batch') /\ LinesOf(auditChan)' = LinesOf(auditChan')
    BY DEF LinesOf, FirstLines
  <1> QED BY <1>1, <1>4, <1>5, <1>6, <1>7, <1>8 DEF KnownGens

\* A tailer knows the generation it opened, or one the file has now.
LEMMA TailerKnownNext ==
  ASSUME IInv, KnownGens, NEW t \in Tailers, TailFile(t) \/ ReadError(t)
  PROVE  /\ \E r : tailers' = [tailers EXCEPT ![t] = r] /\ TailerKnown(r, gen)
         /\ \/ inputChan' = inputChan
            \/ /\ inputChan' = Append(inputChan, Head(tailers[t].hand))
               /\ tailers[t].hand # <<>>
  <1> USE LogsAssumption DEF LogsAssumption
  <1> DEFINE old == tailers[t]
  <1>1. gen \in Nat /\ gen >= 1
    BY DEF IInv, TypeOK, FileTypeOK, Gens
  <1>2. old \in TailerStates /\ TailerSound(old) /\ TailerKnown(old, gen)
    BY TailerParts DEF KnownGens, TailerSound
  <1>3. ASSUME NEW r, tailers' = [tailers EXCEPT ![t] = r], r.gen = old.gen,
               r.hand = old.hand \/ r.hand = <<>>
        PROVE  \E x : tailers' = [tailers EXCEPT ![t] = x] /\ TailerKnown(x, gen)
    <2>1. TailerKnown(r, gen)
      BY <1>2, <1>3, EmptyQueue DEF TailerKnown
    <2> QED BY <1>3, <2>1
  <1>4. CASE Read(t)
    <2>1. PICK n : tailers' = [tailers EXCEPT ![t] = [old EXCEPT !.read = n]]
      BY <1>4 DEF Read, Becomes
    <2> DEFINE new == [old EXCEPT !.read = n]
    <2>2. new.gen = old.gen /\ new.hand = old.hand
      BY <1>2 DEF TailerStates
    <2>3. UNCHANGED inputChan
      BY <1>4 DEF Read
    <2> HIDE DEF new, old
    <2> QED BY <1>3, <2>1, <2>2, <2>3 DEF new, old
  <1>5. CASE ReadOn(t)
    <2>1. PICK g \in Gens, n \in 1..MaxLines :
            Holds(old.gen, g) /\ tailers' = [tailers EXCEPT ![t] = [old EXCEPT !.gen = g, !.read = n]]
      BY <1>5 DEF ReadOn, Becomes
    <2> DEFINE new == [old EXCEPT !.gen = g, !.read = n]
    <2>2. new.gen = g /\ new.hand = old.hand /\ UNCHANGED inputChan
      BY <1>2, <1>5 DEF TailerStates, ReadOn
    <2>3. g <= gen
      BY <1>1, <1>2, <2>1 DEF Holds, TailerStates
    <2>4. TailerKnown(new, gen)
      BY <1>2, <2>2, <2>3 DEF TailerKnown
    <2> HIDE DEF new
    <2> QED BY <2>1, <2>2, <2>4 DEF new
  <1>6. CASE ReadError(t) \/ StopReading(t)
    <2> DEFINE new == [old EXCEPT !.mode = "flush"]
    <2>1. tailers' = [tailers EXCEPT ![t] = new] /\ UNCHANGED inputChan
      BY <1>6 DEF ReadError, StopReading, Becomes
    <2>2. new.gen = old.gen /\ new.hand = old.hand
      BY <1>2 DEF TailerStates
    <2> HIDE DEF new, old
    <2> QED BY <1>3, <2>1, <2>2 DEF old
  <1>7. CASE CloseTimeout(t)
    <2> DEFINE new == [old EXCEPT !.cut = TRUE, !.mode = IF old.mode = "tail" THEN "told" ELSE old.mode]
    <2>1. tailers' = [tailers EXCEPT ![t] = new] /\ UNCHANGED inputChan
      BY <1>7 DEF CloseTimeout, Becomes
    <2>2. new.gen = old.gen /\ new.hand = old.hand
      BY <1>2 DEF TailerStates
    <2> HIDE DEF new, old
    <2> QED BY <1>3, <2>1, <2>2 DEF old
  <1>8. CASE Output(t) \/ GiveUp(t)
    <2> DEFINE new == [old EXCEPT !.hand = <<>>]
    <2>1. /\ tailers' = [tailers EXCEPT ![t] = new]
          /\ \/ UNCHANGED inputChan
             \/ inputChan' = Append(inputChan, Head(old.hand)) /\ old.hand # <<>>
      BY <1>8 DEF Output, GiveUp, Becomes
    <2>2. new.gen = old.gen /\ new.hand = <<>>
      BY <1>2, EmptyHandFields
    <2> HIDE DEF new, old
    <2> QED BY <1>3, <2>1, <2>2 DEF old
  <1>9. CASE BuildMessage(t)
    <2> DEFINE off == IF old.rotated THEN 0 ELSE old.pos + 1
               msg == [gen |-> old.gen, line |-> old.pos + 1, off |-> off]
               new == [old EXCEPT !.pos = old.pos + 1, !.hand = <<msg>>]
    <2>1. /\ tailers' = [tailers EXCEPT ![t] = new] /\ UNCHANGED inputChan
          /\ old.pos < old.read
      BY <1>9 DEF BuildMessage, BuildMessageIf, Becomes
    <2>2. LineOf(msg) = <<old.gen, old.pos + 1>>
      BY DEF LineOf
    <2>3. LinesOf(<<msg>>) = {LineOf(msg)}
      BY DEF LinesOf, FirstLines
    <2>4. old # NoTailer
      BY <2>1 DEF NoTailer
    <2>5. old.gen \in 1..gen /\ old.pos + 1 \in 1..MaxLines
      BY <1>1, <1>2, <2>1, <2>4 DEF TailerSound, TailerStates, TailerKnown, Gens
    <2>6. new.gen = old.gen /\ new.hand = <<msg>>
      <3> HIDE DEF old, msg
      <3> QED BY <1>2 DEF TailerStates
    <2> HIDE DEF new, msg
    <2>7. TailerKnown(new, gen)
      BY <1>2, <2>2, <2>3, <2>5, <2>6 DEF TailerKnown, Now
    <2> QED BY <2>1, <2>7
  <1>10. CASE Done(t)
    <2>1. tailers' = [tailers EXCEPT ![t] = NoTailer] /\ UNCHANGED inputChan
      BY <1>10 DEF Done, Becomes
    <2> QED BY <1>1, <2>1, NoTailerKnown
  <1> QED BY <1>4, <1>5, <1>6, <1>7, <1>8, <1>9, <1>10 DEF TailFile

\* The other steps: a tailer knows the generation it opened, or one the file
\* has now.
LEMMA KnownNext ==
  ASSUME IInv, KnownGens, [Next]_vars
  PROVE  KnownGens'
  <1> USE LogsAssumption DEF LogsAssumption
  <1>1. gen \in Nat /\ gen >= 1
    BY DEF IInv, TypeOK, FileTypeOK, Gens
  <1>2. ASSUME UNCHANGED <<inputChan, senderChan, buffer, batch, auditChan>>,
               gen' \in {gen, gen + 1},
               \A t \in Tailers : TailerKnown(tailers'[t], gen'),
               registry'.gen <= gen, disk'.gen <= gen,
               registry'.gen \in Nat, disk'.gen \in Nat
        PROVE  KnownGens'
    <2>1. Now(gen) \subseteq Now(gen') /\ Now(gen)' = Now(gen')
      BY <1>1, <1>2 DEF Now
    <2>2. (\A t \in Tailers : TailerKnown(tailers[t], gen))'
      BY <1>2 DEF TailerKnown, Now, LinesOf, FirstLines
    <2>3. registry'.gen <= gen' /\ disk'.gen <= gen'
      BY <1>1, <1>2
    <2>4. /\ LinesOf(inputChan)' \subseteq Now(gen) /\ LinesOf(senderChan)' \subseteq Now(gen)
          /\ LinesOf(buffer)' \subseteq Now(gen)
          /\ LinesOf(batch)' \subseteq Now(gen) /\ LinesOf(auditChan)' \subseteq Now(gen)
      BY <1>2 DEF KnownGens, LinesOf, FirstLines
    <2> QED BY <2>1, <2>2, <2>3, <2>4 DEF KnownGens
  <1>3. /\ registry.gen \in Nat /\ disk.gen \in Nat /\ NoOffset.gen = 0
        /\ registry.gen <= gen /\ disk.gen <= gen /\ 0 <= gen
    BY <1>1 DEF IInv, TypeOK, AuditTypeOK, Positions, NoOffset, Gens, KnownGens
  <1>4. ASSUME NEW r, NEW g, TailerKnown(r, gen), g \in {gen, gen + 1}, r.gen \in Nat
        PROVE  TailerKnown(r, g)
    <2>1. Now(gen) \subseteq Now(g)
      BY <1>1, <1>4 DEF Now
    <2> QED BY <1>1, <1>4, <2>1 DEF TailerKnown
  <1>5. \A t \in Tailers : tailers[t] \in TailerStates /\ TailerKnown(tailers[t], gen)
                           /\ tailers[t].gen \in Nat
    BY TailerParts DEF KnownGens, TailerStates
  <1>6. CASE UNCHANGED <<inputChan, senderChan, buffer, batch, auditChan, tailers>>
             /\ gen' \in {gen, gen + 1}
             /\ registry' \in {registry, NoOffset} /\ disk' \in {registry, disk, NoOffset}
    BY <1>2, <1>3, <1>4, <1>5, <1>6
  <1>7. CASE Write \/ MoveAway \/ Create \/ Truncate \/ UNCHANGED vars
    BY <1>6, <1>7 DEF Write, MoveAway, Create, Truncate, FileRest, vars, pipeVars, senderVars,
       tailVars, auditVars, fileVars
  <1>8. CASE flushRegistry \/ cleanupRegistry \/ GraceTimeout \/ Shutdown
    BY <1>6, <1>8 DEF flushRegistry, cleanupRegistry, Expire, GraceTimeout, Shutdown,
       InputsStopped, ProcessorStopped, SenderStopped, SenderStoppedWhen, StepDown,
       AuditorStopped, pipeVars, senderVars, tailVars, auditVars, fileVars
  <1>9. CASE Pipeline \/ SendRetried
    BY <1>9, PipelineKnown
  <1>10. ASSUME NEW base \in [Tailers -> TailerStates], NEW start, StartTailer(base, start),
                \A t \in Tailers : TailerKnown(base[t], gen)
         PROVE  \A t \in Tailers : TailerKnown(tailers'[t], gen)
    <2> DEFINE free == {t \in Tailers : base[t].mode = "done"}
               slot == CHOOSE t \in free : TRUE
    <2>1. slot \in Tailers /\ tailers' = [base EXCEPT ![slot] = NewTailer(start)]
      BY <1>10 DEF StartTailer
    <2> HIDE DEF slot, free
    <2>2. TailerKnown(NewTailer(start), gen)
      BY <1>1, EmptyQueue DEF NewTailer, TailerKnown
    <2> QED BY <1>10, <2>1, <2>2
  <1>11. ASSUME NEW t \in Tailers, NEW r, tailers' = [tailers EXCEPT ![t] = r],
                TailerKnown(r, gen)
         PROVE  \A u \in Tailers : TailerKnown(tailers'[u], gen)
    BY <1>5, <1>11, TailerParts
  <1>12. ASSUME NEW t \in Tailers, tailers' = Told(t)
         PROVE  \A u \in Tailers : TailerKnown(tailers'[u], gen)
    <2> DEFINE r == [tailers[t] EXCEPT !.mode = IF tailers[t].mode = "tail" THEN "told" ELSE tailers[t].mode]
    <2>1. tailers' = [tailers EXCEPT ![t] = r]
      BY <1>12 DEF Told
    <2>2. r.gen = tailers[t].gen /\ r.hand = tailers[t].hand
      BY <1>5 DEF TailerStates
    <2> HIDE DEF r
    <2>3. TailerKnown(r, gen)
      BY <1>5, <2>2 DEF TailerKnown
    <2> QED BY <1>11, <2>1, <2>3
  <1>13. CASE scan \/ Stop
    <2>1. UNCHANGED <<inputChan, senderChan, buffer, batch, auditChan, gen, registry, disk>>
      BY <1>13 DEF scan, startNewTailer, stopTailer, restartTailerAfterFileRotation, ScanRest,
         Stop, pipeVars, senderVars, fileVars, auditVars
    <2>2. \A t \in Tailers : TailerKnown(tailers'[t], gen)
      <3>1. CASE startNewTailer
        BY <1>5, <1>10, <3>1, TailerParts DEF startNewTailer
      <3>2. CASE stopTailer
        <4>1. cur \in Tailers /\ tailers' = Told(cur)
          BY <3>2, TailerParts DEF stopTailer, Tailers
        <4> QED BY <1>12, <4>1
      <3>3. CASE Stop
        <4>1. CASE cur = 0
          BY <1>5, <3>3, <4>1 DEF Stop
        <4>2. CASE cur # 0
          <5>1. cur \in Tailers /\ tailers' = Told(cur)
            BY <3>3, <4>2, TailerParts DEF Stop, Tailers
          <5> QED BY <1>12, <5>1
        <4> QED BY <4>1, <4>2
      <3>4. CASE restartTailerAfterFileRotation
        <4> DEFINE new == [tailers[cur] EXCEPT !.rotated = TRUE]
                   base == [tailers EXCEPT ![cur].rotated = TRUE]
        <4>1. cur \in Tailers /\ StartTailer(base, 0)
          BY <3>4, TailerParts DEF restartTailerAfterFileRotation, Tailers
        <4>2. new.gen = tailers[cur].gen /\ new.hand = tailers[cur].hand
          BY <1>5, <4>1 DEF TailerStates
        <4>3. new \in TailerStates
          BY <1>5, <4>1 DEF TailerStates
        <4>4. \A t \in Tailers : base[t] = IF t = cur THEN new ELSE tailers[t]
          BY <4>1, TailerParts
        <4>5. base \in [Tailers -> TailerStates]
          BY <4>1, <4>3, TailerParts
        <4> HIDE DEF base, new
        <4>6. TailerKnown(new, gen)
          BY <1>5, <4>1, <4>2 DEF TailerKnown
        <4> QED BY <1>5, <1>10, <4>1, <4>4, <4>5, <4>6
      <3> QED BY <1>13, <3>1, <3>2, <3>3, <3>4 DEF scan
    <2> QED BY <1>2, <1>3, <2>1, <2>2
  <1>14. CASE Start
    <2>1. /\ UNCHANGED <<inputChan, senderChan, buffer, batch, auditChan, gen, disk>>
          /\ registry' \in {disk, NoOffset}
          /\ \/ StartTailer(NoTailers, Position(registry', discovered))
             \/ tailers' = NoTailers
      BY <1>14 DEF Start, Cleaned, Expire, pipeVars, senderVars, fileVars
    <2>2. /\ NoTailers \in [Tailers -> TailerStates]
          /\ \A t \in Tailers : TailerKnown(NoTailers[t], gen)
      BY <1>1, NoTailerParts, NoTailerKnown DEF NoTailers, TailerSound
    <2>3. \A t \in Tailers : TailerKnown(tailers'[t], gen)
      BY <1>10, <2>1, <2>2
    <2> QED BY <1>2, <1>3, <2>1, <2>3
  <1>15. CASE Crash \/ ForceQuit \/ \E t \in Tailers : Panic(t)
    <2>1. PICK onDisk \in {disk, NoOffset} : Gone(onDisk)
      BY <1>15 DEF Crash, ForceQuit, Panic
    <2>2. /\ UNCHANGED gen /\ registry' = NoOffset /\ disk' \in {disk, NoOffset}
          /\ tailers' = NoTailers
          /\ inputChan' = <<>> /\ senderChan' = <<>> /\ buffer' = <<>>
          /\ batch' = <<>> /\ auditChan' = <<>>
      BY <2>1 DEF Gone, fileVars
    <2>3. (\A t \in Tailers : TailerKnown(tailers[t], gen))'
      BY <1>1, <2>2, NoTailerKnown DEF NoTailers, TailerKnown, Now, LinesOf, FirstLines
    <2> QED BY <1>3, <2>2, <2>3, EmptyQueue DEF KnownGens, LinesOf, FirstLines
  <1>16. ASSUME NEW t \in Tailers, TailFile(t) \/ ReadError(t)
         PROVE  KnownGens'
    <2> DEFINE old == tailers[t]
    <2>1. UNCHANGED <<senderChan, buffer, batch, auditChan, gen, registry, disk>>
      BY <1>16 DEF TailFile, Read, ReadOn, ReadError, StopReading, CloseTimeout, BuildMessage,
         BuildMessageIf, Output, GiveUp, Done, TailRest, senderVars, fileVars, auditVars
    <2>2. old \in TailerStates /\ TailerSound(old)
      BY TailerParts
    <2>3. PICK r : tailers' = [tailers EXCEPT ![t] = r] /\ TailerKnown(r, gen)
      BY <1>16, TailerKnownNext
    <2>4. LinesOf(inputChan') \subseteq Now(gen)
      <3>1. CASE inputChan' = inputChan
        BY <3>1 DEF KnownGens
      <3>2. CASE inputChan' = Append(inputChan, Head(old.hand)) /\ old.hand # <<>>
        <4>1. old.hand \in Seq(Messages) /\ LinesOf(old.hand) \subseteq Now(gen)
          BY <1>5, <2>2 DEF TailerStates, TailerKnown
        <4>2. Head(old.hand) \in Messages /\ LineOf(Head(old.hand)) \in Now(gen)
          BY <3>2, <4>1, KnownQueue, QueueType
        <4> QED BY <3>2, <4>2, QueueParts, KnownQueue DEF KnownGens
      <3> QED BY <1>16, <3>1, <3>2, TailerKnownNext
    <2>5. (\A u \in Tailers : TailerKnown(tailers[u], gen))'
      <3>1. \A u \in Tailers : TailerKnown(tailers'[u], gen)
        BY <1>11, <2>3
      <3> QED BY <2>1, <3>1 DEF TailerKnown, Now, LinesOf, FirstLines
    <2>6. Now(gen)' = Now(gen)
      BY <2>1 DEF Now
    <2>7. /\ LinesOf(inputChan)' = LinesOf(inputChan')
          /\ LinesOf(senderChan)' = LinesOf(senderChan) /\ LinesOf(buffer)' = LinesOf(buffer)
          /\ LinesOf(batch)' = LinesOf(batch) /\ LinesOf(auditChan)' = LinesOf(auditChan)
      BY <2>1 DEF LinesOf, FirstLines
    <2> QED BY <2>1, <2>4, <2>5, <2>6, <2>7 DEF KnownGens
  <1> QED BY <1>7, <1>8, <1>9, <1>13, <1>14, <1>15, <1>16 DEF Next, Progress

\* A tailer that starts on a file that was never rotated starts at its
\* beginning or at an offset all lines up to which are settled.
LEMMA StartsSettled ==
  ASSUME IInv, NothingSkipped, discovered, gen = 1, NEW base, NEW start,
         NEW entry \in Positions, entry.gen <= gen, Covers(entry, Past),
         StartTailer(base, start), start = 0 \/ start = Position(entry, TRUE)
  PROVE  skipped' = {}
  <1>1. skipped = {} /\ Past = settled
    BY DEF NothingSkipped, Past
  <1>2. skipped' = UpTo(gen, start) \ settled
    BY <1>1 DEF StartTailer
  <1>3. CASE start = 0
    BY <1>2, <1>3 DEF UpTo
  <1>4. CASE start # 0
    <2>1. entry # NoOffset /\ start = entry.off
      BY <1>4 DEF Position
    <2>2. entry.gen = 1
      BY <2>1 DEF Positions, Gens
    <2> QED BY <1>1, <1>2, <2>1, <2>2 DEF Covers
  <1> QED BY <1>3, <1>4

\* As long as there was no rotation nothing is skipped.
LEMMA NothingSkippedNext ==
  ASSUME IInv, KnownGens, NothingSkipped, [Next]_vars
  PROVE  NothingSkipped'
  <1> SUFFICES ASSUME discovered', gen' = 1 PROVE skipped' = {}
    BY DEF NothingSkipped
  <1>1. gen \in Nat /\ gen >= 1 /\ truncated \subseteq 1..(gen - 1)
    BY LogsAssumption DEF LogsAssumption, IInv, TypeOK, FileTypeOK, Gens
  <1>2. /\ registry \in Positions /\ registry.gen <= gen /\ Covers(registry, Past)
        /\ disk \in Positions /\ disk.gen <= gen /\ Covers(disk, Past)
    BY DEF IInv, TypeOK, AuditTypeOK, CommittedSettled, KnownGens
  <1>3. NoOffset \in Positions /\ NoOffset.gen <= gen /\ Covers(NoOffset, Past)
    BY <1>1 DEF Positions, NoOffset, Covers, UpTo
  <1>4. CASE UNCHANGED <<gen, discovered, skipped>>
    BY <1>4 DEF NothingSkipped
  <1>5. CASE Write \/ MoveAway \/ UNCHANGED vars
    BY <1>4, <1>5 DEF Write, MoveAway, FileRest, ghosts, vars, fileVars
  <1>6. ~Create /\ ~Truncate
    <2>1. Create \/ Truncate => gen' = gen + 1
      BY Zenon DEF Create, Truncate
    <2>2. gen' # gen + 1
      BY <1>1
    <2> QED BY <2>1, <2>2
  <1>7. CASE flushRegistry \/ cleanupRegistry \/ GraceTimeout \/ Shutdown \/ Stop
    BY <1>4, <1>7 DEF flushRegistry, cleanupRegistry, GraceTimeout, Shutdown, InputsStopped,
       ProcessorStopped, SenderStopped, SenderStoppedWhen, StepDown, AuditorStopped, Stop,
       ghosts, fileVars
  <1>8. CASE Pipeline \/ SendRetried
    BY <1>4, <1>8 DEF Pipeline, Process, ProcessTelling, Receive, ReceiveTooLong, FlushTimer,
       SendAnswered, SendRetried, SendCanceled, Forward, updateRegistry, PipeRest, fileVars
  <1>9. CASE Crash \/ ForceQuit \/ \E t \in Tailers : Panic(t)
    BY <1>4, <1>9 DEF Crash, ForceQuit, Panic, Gone, fileVars
  <1>10. CASE scan
    <2>1. UNCHANGED <<gen, discovered>>
      BY <1>10 DEF scan, startNewTailer, stopTailer, restartTailerAfterFileRotation, ScanRest,
         fileVars
    <2>2. CASE startNewTailer
      <3>1. PICK start : StartTailer(tailers, start) /\ start = Position(registry, TRUE)
        BY <2>2 DEF startNewTailer
      <3> QED BY <1>2, <2>1, <3>1, StartsSettled
    <2>3. CASE restartTailerAfterFileRotation
      <3>1. StartTailer([tailers EXCEPT ![cur].rotated = TRUE], 0)
        BY <2>3 DEF restartTailerAfterFileRotation
      <3> QED BY <1>2, <2>1, <3>1, StartsSettled
    <2>4. CASE stopTailer
      BY <1>4, <2>1, <2>4 DEF stopTailer
    <2> QED BY <1>10, <2>2, <2>3, <2>4 DEF scan
  <1>11. CASE Start
    <2>1. UNCHANGED <<gen, discovered>> /\ registry' \in {disk, NoOffset}
      BY <1>11 DEF Start, Cleaned, Expire, fileVars
    <2>2. PICK entry \in {disk, NoOffset} : entry = registry'
      BY <2>1
    <2>3. CASE StartTailer(NoTailers, Position(registry', discovered))
      <3>1. PICK start : StartTailer(NoTailers, start) /\ start = Position(entry, TRUE)
        <4>1. discovered = TRUE
          BY <2>1, Zenon DEF IInv, TypeOK, FileTypeOK
        <4> QED BY <2>2, <2>3, <4>1
      <3> QED BY <1>2, <1>3, <2>1, <3>1, StartsSettled
    <2>4. CASE UNCHANGED skipped
      BY <1>4, <2>1, <2>4
    <2> QED BY <1>11, <2>3, <2>4 DEF Start
  <1>12. ASSUME NEW t \in Tailers, TailFile(t) \/ ReadError(t)
         PROVE  skipped' = {}
    <2>1. UNCHANGED <<gen, discovered>>
      BY <1>12 DEF TailFile, Read, ReadOn, ReadError, StopReading, CloseTimeout, BuildMessage,
         BuildMessageIf, Output, GiveUp, Done, TailRest, fileVars
    <2>2. ~ReadOn(t)
      <3>1. truncated = {}
        BY <1>1, <2>1
      <3> QED BY <3>1 DEF ReadOn
    <2>3. UNCHANGED skipped
      BY <1>12, <2>2 DEF TailFile, Read, ReadError, StopReading, CloseTimeout, BuildMessage,
         BuildMessageIf, Output, GiveUp, Done, SameGhosts
    <2> QED BY <1>4, <2>1, <2>3
  <1> QED BY <1>5, <1>6, <1>7, <1>8, <1>9, <1>10, <1>11, <1>12 DEF Next, Progress

\* No line is passed over: the committed offset, in memory and on disk,
\* covers past lines only; what a tailer has read is settled or on its way,
\* whatever was retried, rotated, truncated, crashed or restarted; and a
\* file that was never rotated is read from its first line on.
THEOREM LinesNeverLost == Spec => []LinesKept
  <1>1. Init => KnownGens /\ NothingDropped /\ NothingSkipped
    <2>1. Init => NothingDropped /\ NothingSkipped
      BY DEF Init, NothingDropped, NothingSkipped
    <2> QED BY <2>1, KnownInit
  <1>2. /\ IInv /\ KnownGens /\ NothingDropped /\ NothingSkipped /\ [Next]_vars
           => (KnownGens /\ NothingDropped /\ NothingSkipped)'
    BY KnownNext, NothingDroppedNext, NothingSkippedNext
  <1>3. IInv /\ NothingDropped /\ NothingSkipped => LinesKept
    BY DEF IInv, LinesKept
  <1> QED BY <1>1, <1>2, <1>3, Invariance, PTL DEF Spec

\* An agent that stopped in order has settled every line it had read: the
\* pipeline is empty and the tailer it waited for holds nothing.
THEOREM StopDrains == Spec => []OrderedStopDrains
  <1>1. IInv /\ LinesKept => OrderedStopDrains
    <2> SUFFICES ASSUME IInv, LinesKept, phase = "stopped", ~canceled,
                        NEW x \in taken
                 PROVE  x \in settled \cup UNION {Held(tailers[t]) : t \in Tailers \ {cur}}
      BY DEF OrderedStopDrains
    <2>1. InPipe = {}
      BY InPipeParts, EmptyQueue DEF IInv, Drained
    <2>2. x \in settled \cup AllHeld
      BY <2>1 DEF LinesKept, NothingDropped
    <2>3. ASSUME NEW t \in Tailers, x \in Held(tailers[t]) PROVE t # cur
      <3>1. 0 \notin Tailers
        BY DEF Tailers
      <3>2. cur = t => Held(tailers[t]) = {}
        BY <3>1, NoneHeld DEF IInv, Drained
      <3> QED BY <2>3, <3>2
    <2> QED BY <2>2, <2>3 DEF AllHeld
  <1> QED BY <1>1, Invariance, LinesNeverLost, PTL

\* The abstract specification's notions are the agent's.
LEMMA SameNotions ==
  /\ Checkpoints!NoOffset = NoOffset /\ Checkpoints!Positions = Positions
  /\ Checkpoints!Lines = Lines
  /\ \A p, S : Covers(p, S) => Checkpoints!Covered(p, S)
  BY UpToElements DEF Checkpoints!NoOffset, NoOffset, Checkpoints!Positions, Positions,
     Checkpoints!Lines, Lines, Gens, Covers, Checkpoints!Covered

\* A step that commits nothing makes lines past, or nothing at all.
LEMMA PassStep ==
  ASSUME IInv, IInv', settled \subseteq settled', skipped \subseteq skipped',
         UNCHANGED auditVars
  PROVE  Checkpoints!Pass
  <1>1. Past \subseteq Past' /\ Past' \subseteq Lines
    BY DEF Past, IInv, TypeOK, AuditTypeOK
  <1> QED BY <1>1, SameNotions DEF Checkpoints!Pass, auditVars

\* The refinement: each step of the agent is a step of the checkpoint, or
\* one it does not see.
LEMMA StepRefines ==
  ASSUME IInv, IInv', [Next]_vars
  PROVE  [Checkpoints!Next]_Checkpoints!vars
  <1> USE DEF Checkpoints!Next, Checkpoints!vars
  <1>1. CASE settled \subseteq settled' /\ skipped \subseteq skipped' /\ UNCHANGED auditVars
    BY <1>1, PassStep
  <1>2. CASE updateRegistry
    <2>1. UNCHANGED <<disk, Past>>
      BY <1>2 DEF updateRegistry, PipeRest, Past
    <2>2. registry' \in Positions /\ Covers(registry', Past)
      BY <2>1 DEF IInv, TypeOK, AuditTypeOK, CommittedSettled
    <2> QED BY <2>1, <2>2, SameNotions DEF Checkpoints!Commit
  <1>3. CASE flushRegistry \/ AuditorStopped
    <2>1. /\ UNCHANGED ghosts
          /\ \/ UNCHANGED registry /\ disk' \in {registry, disk, NoOffset}
             \/ registry' = NoOffset /\ disk' = NoOffset
      BY <1>3 DEF flushRegistry, AuditorStopped, Expire
    <2>2. UNCHANGED Past
      BY <2>1 DEF Past, ghosts
    <2> QED BY <2>1, <2>2, SameNotions DEF Checkpoints!Save, Checkpoints!Spoil, Checkpoints!Lose
  <1>4. CASE cleanupRegistry \/ Crash \/ ForceQuit \/ \E t \in Tailers : Panic(t)
    <2>1. /\ UNCHANGED <<settled, skipped>>
          /\ registry' = NoOffset /\ disk' \in {disk, NoOffset}
      BY <1>4 DEF cleanupRegistry, Expire, Crash, ForceQuit, Panic, Gone, ghosts
    <2> QED BY <2>1, SameNotions DEF Checkpoints!Lose, Past
  <1>5. CASE Start
    <2>1. /\ registry' \in {disk, NoOffset} /\ UNCHANGED <<disk, settled>>
          /\ skipped \subseteq skipped'
      BY <1>5 DEF Start, StartTailer, Cleaned, Expire
    <2>2. Past \subseteq Past' /\ Past' \subseteq Lines
      BY <2>1 DEF Past, IInv, TypeOK, AuditTypeOK
    <2> QED BY <2>1, <2>2, SameNotions DEF Checkpoints!Recover
  <1>6. CASE UNCHANGED vars
    BY <1>1, <1>6 DEF vars, ghosts
  <1>7. CASE Write \/ MoveAway \/ Create \/ Truncate
    BY <1>1, <1>7 DEF Write, MoveAway, Create, Truncate, FileRest, ghosts
  <1>8. CASE scan
    BY <1>1, <1>8 DEF scan, startNewTailer, stopTailer, restartTailerAfterFileRotation,
       StartTailer, ScanRest
  <1>9. ASSUME NEW t \in Tailers, TailFile(t) \/ ReadError(t)
        PROVE  settled \subseteq settled' /\ skipped \subseteq skipped' /\ UNCHANGED auditVars
    BY <1>9 DEF TailFile, Read, ReadOn, ReadError, StopReading, CloseTimeout, BuildMessage,
       BuildMessageIf, Output, GiveUp, Done, TailRest, SameGhosts
  <1>10. CASE Process \/ Receive \/ ReceiveTooLong \/ FlushTimer
    BY <1>1, <1>10 DEF Process, ProcessTelling, Receive, ReceiveTooLong, FlushTimer, PipeRest
  <1>11. CASE SendAnswered \/ SendRetried \/ SendCanceled \/ Forward
    BY <1>1, <1>11 DEF SendAnswered, SendRetried, SendCanceled, Forward, PipeRest
  <1>12. CASE Stop \/ InputsStopped \/ ProcessorStopped \/ SenderStopped \/ GraceTimeout
    BY <1>1, <1>12 DEF Stop, InputsStopped, ProcessorStopped, SenderStopped,
       SenderStoppedWhen, StepDown, GraceTimeout, ghosts, auditVars
  <1> QED BY <1>1, <1>2, <1>3, <1>4, <1>5, <1>6, <1>7, <1>8, <1>9, <1>10, <1>11, <1>12
         DEF Next, Progress, Pipeline, Shutdown

\* The agent implements the abstract checkpoint: each of its steps commits
\* a position all lines up to which are past, saves the committed one, loses
\* it, or takes up the saved one again.
THEOREM ImplementsCheckpoint == Spec => Checkpointed
  <1>1. Init => Checkpoints!Init
    BY DEF Init, Checkpoints!Init, NoOffset, Checkpoints!NoOffset, Past
  <1>2. IInv /\ IInv' /\ [Next]_vars => [Checkpoints!Next]_Checkpoints!vars
    BY StepRefines
  <1> QED BY <1>1, <1>2, Invariance, PTL DEF Spec, Checkpointed, Checkpoints!Spec
=============================================================================
