----------------------------- MODULE LogsAgent -----------------------------
(***************************************************************************)
(* The logs agent on one path: files come and go under the path, tailers   *)
(* read them, a pipeline (processor, batching sender) delivers the lines,  *)
(* the auditor commits how far, and the agent is stopped, crashes and      *)
(* starts again from the offset on disk.                                   *)
(*                                                                         *)
(* A line is <<generation of the file, its number>>; an offset counts      *)
(* lines.  The generation in a committed position is not in the code: the  *)
(* registry is keyed by the path.  The decoder and its goroutines are the  *)
(* lines a tailer has read and not yet made a message of.  A file is       *)
(* rotated by moving it away and creating another, or by truncating it in  *)
(* place, which begins a generation of the same file.  The source stays    *)
(* configured and the new file of a rotation can be opened.  There is one  *)
(* pipeline, with an HTTP destination.                                     *)
(***************************************************************************)
EXTENDS Naturals, Sequences, Functions

CONSTANTS
  MaxGens,      \* bound: files that have the path, one after the other
  MaxLines,     \* bound: lines of each
  MaxWrites,    \* bound: lines of all of them
  MaxTailers,   \* bound: tailers at a time
  MaxFaults,    \* bound: crashes, read and write errors, expired entries,
                \*        grace periods
  ErrorGens,    \* generations in which a read may fail
  ChanSize,     \* capacity of the channels of messages
  BatchSize     \* maxBatchSize of the sender

ASSUME LogsAssumption ==
  /\ {MaxGens, MaxLines, MaxTailers, MaxWrites, ChanSize,
      BatchSize} \subseteq Nat \ {0}
  /\ MaxFaults \in Nat /\ ErrorGens \subseteq Nat

Gens    == 1..MaxGens
Tailers == 1..MaxTailers
Lines   == Gens \X (1..MaxLines)

VARIABLES
  file,         \* lines written to each generation
  gen,          \* the latest generation
  truncated,    \* generations whose file became the next one, in place
  present,      \* there is a file under the path
  discovered,   \* the source comes from service discovery
  phase,        \* of the agent; while it stops, what it is waiting for
  canceled,     \* the destinations' context is canceled
  cur,          \* the tailer in Scanner.tailers, 0 if none
  tailers,      \* the tailers that run
  inputChan,    \* tailers -> processor
  senderChan,   \* processor -> sender
  buffer,       \* batchStrategy.buffer
  sending,      \* sendBuffer is trying
  batch,        \* messages it has sent and not yet given to the auditor
  auditChan,    \* sender -> auditor
  registry,     \* Auditor.registry: the entry of the path
  disk,         \* registry.json
  settled,      \* ghost: lines delivered, refused, excluded or too long
  skipped,      \* ghost: unsettled lines a tailer started beyond
  taken,        \* ghost: lines the tailers of this process read, but for
                \*        those they gave up
  faults        \* faults so far

fileVars  == <<file, gen, truncated, present, discovered>>
tailVars  == <<cur, tailers>>
senderVars == <<buffer, sending, batch>>
pipeVars  == <<inputChan, senderChan, senderVars, auditChan>>
auditVars == <<registry, disk>>
ghosts    == <<settled, skipped, taken>>
vars == <<fileVars, phase, canceled, tailVars, pipeVars, auditVars, ghosts, faults>>

NoOffset == [gen |-> 0, off |-> 0]
NoTailer == [gen |-> 0, mode |-> "done", rotated |-> FALSE, cut |-> FALSE,
             read |-> 0, pos |-> 0, hand |-> <<>>]
NoTailers == [t \in Tailers |-> NoTailer]

Stopping == {"inputs", "processor", "sender", "auditor"}
Alive    == Stopping \cup {"up"}

\* Identifier "" and offset 0 when the offset is not tracked.
Messages  == [gen : Gens, line : 1..MaxLines, off : 0..MaxLines]
Positions == {NoOffset} \cup [gen : Gens, off : 1..MaxLines]

TailerStates ==
  [gen : 0..MaxGens, mode : {"tail", "told", "flush", "done"},
   rotated : BOOLEAN, cut : BOOLEAN,
   read : 0..MaxLines, pos : 0..MaxLines,
   hand : Seq(Messages)]

LineOf(msg)      == <<msg.gen, msg.line>>
FirstLines(q, n) == {LineOf(q[i]) : i \in 1..n}
LinesOf(q)       == FirstLines(q, Len(q))
UpTo(g, n)       == {g} \X (1..n)

\* The lines in the decoder of a tailer.
Decoding(r) == {r.gen} \X ((r.pos + 1)..r.read)

FileTypeOK ==
  /\ file \in [Gens -> 0..MaxLines] /\ gen \in Gens
  /\ phase \in Alive \cup {"down", "stopped"}
  /\ present \in BOOLEAN /\ discovered \in BOOLEAN /\ canceled \in BOOLEAN
  /\ present \/ gen < MaxGens
  /\ truncated \subseteq 1..(gen - 1)

TailerTypeOK ==
  /\ cur \in 0..MaxTailers
  /\ tailers \in [Tailers -> TailerStates]
  /\ \A t \in Tailers :
       LET r == tailers[t] IN
       \/ r = NoTailer
       \/ /\ r.gen \in Gens /\ r.mode # "done"
          /\ r.pos <= r.read /\ Len(r.hand) <= 1

PipeTypeOK ==
  /\ \A q \in {inputChan, senderChan, auditChan} :
       q \in Seq(Messages) /\ Len(q) <= ChanSize
  /\ buffer \in Seq(Messages) /\ Len(buffer) <= BatchSize
  /\ batch \in Seq(Messages) /\ Len(batch) <= BatchSize
  /\ sending \in BOOLEAN /\ (sending => buffer # <<>> /\ batch = <<>>)

AuditTypeOK ==
  /\ registry \in Positions /\ disk \in Positions
  /\ settled \subseteq Lines /\ skipped \subseteq Lines /\ taken \subseteq Lines
  /\ faults \in 0..MaxFaults

TypeOK == FileTypeOK /\ TailerTypeOK /\ PipeTypeOK /\ AuditTypeOK

Init ==
  /\ file = [g \in Gens |-> 0] /\ gen = 1 /\ truncated = {}
  /\ present = TRUE /\ discovered \in BOOLEAN
  /\ phase = "down" /\ canceled = FALSE
  /\ cur = 0 /\ tailers = NoTailers
  /\ inputChan = <<>> /\ senderChan = <<>> /\ buffer = <<>>
  /\ sending = FALSE /\ batch = <<>> /\ auditChan = <<>>
  /\ registry = NoOffset /\ disk = NoOffset
  /\ settled = {} /\ skipped = {} /\ taken = {} /\ faults = 0

Fault == faults < MaxFaults /\ faults' = faults + 1

-----------------------------------------------------------------------------
(***************************************************************************)
(* The file: external.                                                     *)
(***************************************************************************)
FileRest == UNCHANGED <<phase, canceled, tailVars, pipeVars, auditVars, ghosts, faults>>

Write ==
  /\ present /\ file[gen] < MaxLines
  /\ SumFunction(file) < MaxWrites
  /\ file' = [file EXCEPT ![gen] = @ + 1]
  /\ UNCHANGED <<gen, truncated, present, discovered>> /\ FileRest

MoveAway ==
  /\ present /\ gen < MaxGens
  /\ present' = FALSE
  /\ UNCHANGED <<file, gen, truncated, discovered>> /\ FileRest

Create ==
  /\ ~present
  /\ present' = TRUE /\ gen' = gen + 1
  /\ UNCHANGED <<file, truncated, discovered>> /\ FileRest

Truncate ==
  /\ present /\ gen < MaxGens
  /\ gen' = gen + 1 /\ truncated' = truncated \cup {gen}
  /\ UNCHANGED <<file, present, discovered>> /\ FileRest

\* A file opened in generation g holds the lines of generation h.
Holds(g, h) ==
  h \in g..gen /\ h \notin truncated /\ g..(h - 1) \subseteq truncated

-----------------------------------------------------------------------------
(***************************************************************************)
(* The scanner.                                                            *)
(***************************************************************************)

\* Position: the registered offset, else the beginning or the end.
Position(entry, fromBeginning) ==
  IF entry # NoOffset THEN entry.off
  ELSE IF fromBeginning THEN 0 ELSE file[gen]

NewTailer(start) ==
  [gen |-> gen, mode |-> "tail", rotated |-> FALSE, cut |-> FALSE,
   read |-> start, pos |-> start, hand |-> <<>>]

\* A new tailer in a free slot; base is what becomes of the others.
StartTailer(base, start) ==
  LET free == {t \in Tailers : base[t].mode = "done"} IN
  /\ free # {}
  /\ LET t == CHOOSE t \in free : TRUE IN
     /\ cur' = t
     /\ tailers' = [base EXCEPT ![t] = NewTailer(start)]
  /\ skipped' = skipped \cup (UpTo(gen, start) \ settled)

ScanRest == UNCHANGED <<fileVars, phase, canceled, pipeVars, auditVars, settled, taken, faults>>

startNewTailer ==
  /\ phase = "up" /\ cur = 0 /\ present
  /\ StartTailer(tailers, Position(registry, TRUE))
  /\ ScanRest

Told(t) == [tailers EXCEPT ![t].mode = IF @ = "tail" THEN "told" ELSE @]

\* The tailer is told to stop and forgotten: it has ended by itself, or
\* there is no file.
stopTailer ==
  /\ phase = "up" /\ cur # 0
  /\ tailers[cur].mode = "done" \/ ~present
  /\ tailers' = Told(cur)
  /\ cur' = 0
  /\ UNCHANGED skipped /\ ScanRest

\* DidRotate: another file, one whose descriptor is closed, or one that is
\* shorter than what was read.
DidRotateWhen(t, shorter) ==
  \/ ~Holds(tailers[t].gen, gen)
  \/ tailers[t].mode = "flush"
  \/ shorter

\* Mutant: the size of the file is not looked at.
DidRotateSame(t) == DidRotateWhen(t, FALSE)

DidRotate(t) == DidRotateWhen(t, file[gen] < tailers[t].read)

restartTailerAfterFileRotation ==
  /\ phase = "up" /\ cur # 0 /\ present
  /\ tailers[cur].mode # "done" /\ DidRotate(cur)
  /\ StartTailer([tailers EXCEPT ![cur].rotated = TRUE], 0)
  /\ ScanRest

scan == startNewTailer \/ stopTailer \/ restartTailerAfterFileRotation

-----------------------------------------------------------------------------
(***************************************************************************)
(* A tailer.                                                               *)
(***************************************************************************)
TailRest == UNCHANGED <<fileVars, phase, canceled, cur, senderChan, senderVars,
                        auditChan, auditVars, settled>>
SameGhosts == UNCHANGED <<skipped, taken>>
Becomes(t, r) == tailers' = [tailers EXCEPT ![t] = r]

\* One read of the file: anything up to its end.
Read(t) ==
  /\ phase \in Alive
  /\ tailers[t].mode \in {"tail", "told"} /\ tailers[t].gen \notin truncated
  /\ \E n \in (tailers[t].read + 1)..file[tailers[t].gen] :
       /\ Becomes(t, [tailers[t] EXCEPT !.read = n])
       /\ taken' = taken \cup ({tailers[t].gen} \X ((tailers[t].read + 1)..n))
  /\ UNCHANGED <<inputChan, skipped, faults>> /\ TailRest

\* The file was truncated and has grown beyond what the tailer had read: it
\* reads on from there, not knowing.
ReadOn(t) ==
  /\ phase \in Alive
  /\ tailers[t].mode \in {"tail", "told"} /\ tailers[t].gen \in truncated
  /\ tailers[t].hand = <<>> /\ tailers[t].pos = tailers[t].read
  /\ \E g \in Gens, n \in 1..MaxLines :
       /\ Holds(tailers[t].gen, g)
       /\ n > tailers[t].read /\ n <= file[g]
       /\ Becomes(t, [tailers[t] EXCEPT !.gen = g, !.read = n])
       /\ taken' = taken \cup ({g} \X ((tailers[t].read + 1)..n))
       /\ skipped' = skipped \cup IF tailers[t].rotated THEN {}
                                 ELSE UpTo(g, tailers[t].read) \ settled
  /\ UNCHANGED <<inputChan, faults>> /\ TailRest

ReadError(t) ==
  /\ phase \in Alive /\ Fault
  /\ tailers[t].mode = "tail" /\ tailers[t].gen \in ErrorGens
  /\ Becomes(t, [tailers[t] EXCEPT !.mode = "flush"])
  /\ UNCHANGED inputChan /\ SameGhosts /\ TailRest

\* The reader finds the stop, closes the file and the decoder.
StopReading(t) ==
  /\ phase \in Alive
  /\ tailers[t].mode = "told"
  /\ Becomes(t, [tailers[t] EXCEPT !.mode = "flush"])
  /\ UNCHANGED <<inputChan, faults>> /\ SameGhosts /\ TailRest

\* forwardMessages: the origin is decided on before the send blocks.  The
\* decoded offset is that of the line until the rotation; from then on it is
\* 0 and there is no identifier.
BuildMessageIf(t, wanted) ==
  /\ phase \in Alive
  /\ tailers[t].hand = <<>> /\ tailers[t].pos < tailers[t].read
  /\ LET r == tailers[t]
         msg == [gen |-> r.gen, line |-> r.pos + 1,
                 off |-> IF r.rotated THEN 0 ELSE r.pos + 1] IN
     Becomes(t, [r EXCEPT !.pos = @ + 1, !.hand = IF wanted THEN <<msg>> ELSE <<>>])
  /\ UNCHANGED <<inputChan, faults>> /\ SameGhosts /\ TailRest

\* Mutant: what the decoder still held when the file was rotated is dropped.
BuildUnlessRotated(t) == BuildMessageIf(t, ~tailers[t].rotated)

BuildMessage(t) == BuildMessageIf(t, TRUE)

Output(t) ==
  /\ phase \in {"up", "inputs"}
  /\ tailers[t].hand # <<>> /\ Len(inputChan) < ChanSize
  /\ inputChan' = Append(inputChan, Head(tailers[t].hand))
  /\ Becomes(t, [tailers[t] EXCEPT !.hand = <<>>])
  /\ UNCHANGED faults /\ SameGhosts /\ TailRest

\* The forward context is done: the message is given up.
GiveUp(t) ==
  /\ phase \in Alive
  /\ tailers[t].cut /\ tailers[t].hand # <<>>
  /\ Becomes(t, [tailers[t] EXCEPT !.hand = <<>>])
  /\ taken' = taken \ LinesOf(tailers[t].hand)
  /\ UNCHANGED <<inputChan, skipped, faults>> /\ TailRest

Done(t) ==
  /\ phase \in Alive
  /\ tailers[t].mode = "flush"
  /\ tailers[t].hand = <<>> /\ tailers[t].pos = tailers[t].read
  /\ Becomes(t, NoTailer)
  /\ UNCHANGED <<inputChan, faults>> /\ SameGhosts /\ TailRest

\* startStopTimer: closeTimeout after the rotation.
CloseTimeout(t) ==
  /\ phase \in Alive
  /\ tailers[t].rotated /\ ~tailers[t].cut
  /\ Becomes(t, [tailers[t] EXCEPT !.cut = TRUE, !.mode = IF @ = "tail" THEN "told" ELSE @])
  /\ UNCHANGED <<inputChan, faults>> /\ SameGhosts /\ TailRest

TailFile(t) ==
  \/ Read(t) \/ ReadOn(t) \/ StopReading(t) \/ CloseTimeout(t)
  \/ BuildMessage(t) \/ Output(t) \/ GiveUp(t) \/ Done(t)

-----------------------------------------------------------------------------
(***************************************************************************)
(* The pipeline and the auditor.                                           *)
(***************************************************************************)
PipeRest == UNCHANGED <<fileVars, phase, canceled, tailVars, skipped, taken, faults>>

\* Processor.run: the message is passed on, or excluded by a rule.
ProcessTelling(auditor) ==
  /\ phase \in Alive /\ inputChan # <<>>
  /\ inputChan' = Tail(inputChan)
  /\ \/ /\ Len(senderChan) < ChanSize
        /\ senderChan' = Append(senderChan, Head(inputChan))
        /\ UNCHANGED <<settled, auditChan>>
     \/ /\ settled' = settled \cup {LineOf(Head(inputChan))}
        /\ auditChan' = auditChan \o auditor
        /\ UNCHANGED senderChan
  /\ UNCHANGED <<senderVars, auditVars>> /\ PipeRest

\* Mutant: the processor tells the auditor of the messages it excludes.
ProcessAndTell ==
  inputChan # <<>> /\ auditChan = <<>> /\ ProcessTelling(<<Head(inputChan)>>)

Process == ProcessTelling(<<>>)

\* batchStrategy.Send.  A message that does not fit any more stays at the
\* head of the channel until the timer's step has made room.
Receive ==
  /\ phase \in Alive /\ senderChan # <<>>
  /\ ~sending /\ batch = <<>>
  /\ senderChan' = Tail(senderChan)
  /\ buffer' = Append(buffer, Head(senderChan))
  /\ sending' = (Len(buffer') = BatchSize)
  /\ UNCHANGED <<inputChan, batch, auditChan, auditVars, settled>> /\ PipeRest

\* A message longer than maxContentSize fits into no buffer: lost.
ReceiveTooLong ==
  /\ phase \in Alive /\ senderChan # <<>>
  /\ ~sending /\ batch = <<>>
  /\ senderChan' = Tail(senderChan)
  /\ sending' = (buffer # <<>>)
  /\ settled' = settled \cup {LineOf(Head(senderChan))}
  /\ UNCHANGED <<inputChan, buffer, batch, auditChan, auditVars>> /\ PipeRest

\* The timer, or the closed channel.
FlushTimer ==
  /\ phase \in Alive
  /\ ~sending /\ batch = <<>> /\ buffer # <<>>
  /\ sending' = TRUE
  /\ UNCHANGED <<inputChan, senderChan, buffer, batch, auditChan, auditVars, settled>>
  /\ PipeRest

\* Delivered, or refused for good: either way the auditor is told.
SendAnswered ==
  /\ phase \in Alive /\ sending /\ ~canceled
  /\ settled' = settled \cup LinesOf(buffer)
  /\ batch' = buffer /\ buffer' = <<>> /\ sending' = FALSE
  /\ UNCHANGED <<inputChan, senderChan, auditChan, auditVars>> /\ PipeRest

\* A retryable error: the intake may have had the payload all the same.
SendRetried ==
  /\ phase \in Alive /\ sending /\ ~canceled
  /\ settled' = settled \cup LinesOf(buffer)
  /\ UNCHANGED <<inputChan, senderChan, senderVars, auditChan, auditVars>> /\ PipeRest

\* Canceled: the auditor is told nothing.
SendCanceled ==
  /\ phase \in Alive /\ sending /\ canceled
  /\ buffer' = <<>> /\ sending' = FALSE /\ UNCHANGED batch
  /\ UNCHANGED <<inputChan, senderChan, auditChan, auditVars, settled>> /\ PipeRest

Forward ==
  /\ phase \in Alive /\ batch # <<>> /\ Len(auditChan) < ChanSize
  /\ auditChan' = Append(auditChan, Head(batch))
  /\ batch' = Tail(batch)
  /\ UNCHANGED <<inputChan, senderChan, buffer, sending, auditVars, settled>> /\ PipeRest

\* updateRegistry: nothing for a message without identifier.
updateRegistry ==
  /\ phase \in Alive /\ auditChan # <<>>
  /\ LET msg == Head(auditChan) IN
     registry' = IF msg.off = 0 THEN registry
                 ELSE [gen |-> msg.gen, off |-> msg.off]
  /\ auditChan' = Tail(auditChan)
  /\ UNCHANGED <<inputChan, senderChan, senderVars, disk, settled>> /\ PipeRest

\* A write that fails half way leaves a file nobody can parse.
flushRegistry ==
  /\ phase \in Alive
  /\ \/ disk' = registry /\ UNCHANGED faults
     \/ disk' = NoOffset /\ Fault
  /\ UNCHANGED <<fileVars, phase, canceled, tailVars, pipeVars, registry, ghosts>>

\* cleanupRegistry, entryTTL after the last update.
Expire(entry) == entry # NoOffset /\ Fault /\ registry' = NoOffset

cleanupRegistry ==
  /\ phase \in Alive /\ Expire(registry)
  /\ UNCHANGED <<fileVars, phase, canceled, tailVars, pipeVars, disk, ghosts>>

Cleaned(entry) == Expire(entry) \/ (registry' = entry /\ UNCHANGED faults)

Pipeline ==
  \/ Process \/ Receive \/ ReceiveTooLong \/ FlushTimer
  \/ SendAnswered \/ SendCanceled \/ Forward \/ updateRegistry

-----------------------------------------------------------------------------
(***************************************************************************)
(* The agent: start, ordered stop, crash.                                  *)
(***************************************************************************)

\* recoverRegistry and cleanupRegistry; then launchTailers, if the file is
\* there.
Start ==
  /\ phase \in {"down", "stopped"}
  /\ phase' = "up" /\ canceled' = FALSE
  /\ Cleaned(disk)
  /\ \/ present /\ StartTailer(NoTailers, Position(registry', discovered))
     \/ ~present /\ cur' = 0 /\ tailers' = NoTailers /\ UNCHANGED skipped
  /\ taken' = {}
  /\ UNCHANGED <<fileVars, pipeVars, disk, settled>>

\* Scanner.Stop: the tailer of the path is told to stop, others are not.
Stop ==
  /\ phase = "up"
  /\ phase' = "inputs"
  /\ tailers' = IF cur = 0 THEN tailers ELSE Told(cur)
  /\ UNCHANGED <<fileVars, canceled, cur, pipeVars, auditVars, ghosts, faults>>

StepDown(from, ended, to) ==
  /\ phase = from /\ ended
  /\ phase' = to
  /\ UNCHANGED <<fileVars, canceled, tailVars, pipeVars, registry, ghosts, faults>>

InputsStopped ==
  /\ StepDown("inputs", IF cur = 0 THEN TRUE ELSE tailers[cur].mode = "done", "processor")
  /\ UNCHANGED disk

ProcessorStopped ==
  /\ StepDown("processor", inputChan = <<>>, "sender")
  /\ UNCHANGED disk

SenderStoppedWhen(flushed) ==
  /\ StepDown("sender", senderChan = <<>> /\ batch = <<>> /\ flushed, "auditor")
  /\ UNCHANGED disk

\* Mutant: the closed channel does not flush the buffer.
SenderStoppedAtOnce == SenderStoppedWhen(~sending)

SenderStopped == SenderStoppedWhen(buffer = <<>>)

\* Auditor.Stop: the registry is saved, or the write fails, which is only
\* logged.  The agent has stopped; a tailer it has forgotten may still hold
\* lines, which end with the process.
AuditorStopped ==
  /\ phase = "auditor" /\ auditChan = <<>>
  /\ phase' = "stopped"
  /\ \/ disk' = registry /\ UNCHANGED <<registry, faults>>
     \/ disk' \in {disk, NoOffset} /\ Fault /\ UNCHANGED registry
     \/ disk' = NoOffset /\ Expire(registry)
  /\ UNCHANGED <<fileVars, canceled, tailVars, pipeVars, ghosts>>

\* stop_grace_period is over: the destinations are canceled.
GraceTimeout ==
  /\ phase \in Stopping /\ ~canceled /\ Fault
  /\ canceled' = TRUE
  /\ UNCHANGED <<fileVars, phase, tailVars, pipeVars, auditVars, ghosts>>

\* The process ends and nothing is left but the files.
Gone(onDisk) ==
  /\ phase' = "down" /\ canceled' = FALSE
  /\ cur' = 0 /\ tailers' = NoTailers
  /\ inputChan' = <<>> /\ senderChan' = <<>> /\ buffer' = <<>>
  /\ sending' = FALSE /\ batch' = <<>> /\ auditChan' = <<>>
  /\ registry' = NoOffset /\ disk' = onDisk /\ taken' = {}
  /\ UNCHANGED <<fileVars, settled, skipped>>

\* A crash; in the middle of a flush it leaves a file nobody can parse.
Crash ==
  /\ phase \in Alive /\ Fault
  /\ \E onDisk \in {disk, NoOffset} : Gone(onDisk)

\* Five seconds after the grace period the process ends anyway.
ForceQuit ==
  /\ phase \in Stopping /\ canceled
  /\ Gone(disk) /\ UNCHANGED faults

\* A tailer nobody stopped sends on the closed channel.
Panic(t) ==
  /\ phase \in Stopping \ {"inputs"}
  /\ tailers[t].hand # <<>>
  /\ Gone(disk) /\ UNCHANGED faults

Shutdown == InputsStopped \/ ProcessorStopped \/ SenderStopped \/ AuditorStopped

-----------------------------------------------------------------------------
Progress == scan \/ Pipeline \/ Shutdown \/ \E t \in Tailers : TailFile(t)

Next ==
  \/ Write \/ MoveAway \/ Create \/ Truncate
  \/ Progress
  \/ SendRetried \/ flushRegistry \/ cleanupRegistry
  \/ \E t \in Tailers : ReadError(t) \/ Panic(t)
  \/ Start \/ Stop \/ GraceTimeout \/ Crash \/ ForceQuit

Spec == Init /\ [][Next]_vars

(***************************************************************************)
(* Some goroutine that can go on does, and the intake answers in the end:  *)
(* nothing is assumed of the file, of faults or of restarts.               *)
(***************************************************************************)
FairSpec == Spec /\ WF_vars(Progress)

-----------------------------------------------------------------------------
(***************************************************************************)
(* Properties.                                                             *)
(***************************************************************************)

Past == settled \cup skipped

\* The lines up to the offset of a position, or of a message.
Covers(p, lines) == UpTo(p.gen, p.off) \subseteq lines

\* The committed offset, in memory and on disk, never runs ahead of the
\* lines: all the lines it covers have been delivered, refused, excluded or
\* started beyond, whatever was retried, canceled, rotated or restarted.
CommittedSettled ==
  \A p \in {registry, disk} : Covers(p, Past)

InPipe == UNION {LinesOf(q) : q \in {inputChan, senderChan, buffer}}

\* What a tailer has read and not yet given to the pipeline.
Held(r) == LinesOf(r.hand) \cup Decoding(r)
AllHeld == UNION {Held(tailers[t]) : t \in Tailers}

\* Every line a tailer has read is settled or on its way, also when the file
\* was rotated or truncated under it, when it failed or was stopped; only
\* closeTimeout and a canceled destination give lines up.
NothingDropped ==
  ~canceled => taken \subseteq settled \cup InPipe \cup AllHeld

\* A source from service discovery whose file was never rotated is read
\* from its first line to its last over all stops, crashes and faults.
NothingSkipped == discovered /\ gen = 1 => skipped = {}

\* No line is passed over: by a tailer, by the pipeline or by an offset.
LinesKept == TypeOK /\ CommittedSettled /\ NothingDropped /\ NothingSkipped

\* An agent that stopped in order within its grace period has settled every
\* line it had read, whatever was in the decoders, the channels and the
\* buffer when Stop was called; but for what a tailer holds that the scanner
\* had forgotten, since its file was rotated or removed.
OrderedStopDrains ==
  phase = "stopped" /\ ~canceled =>
    taken \subseteq settled \cup UNION {Held(tailers[t]) : t \in Tailers \ {cur}}

Checkpoints == INSTANCE Checkpoint
  WITH past <- Past, offset <- registry, saved <- disk

\* The agent implements the abstract checkpoint: every step of it commits a
\* covered position, saves the committed one, loses or recovers it.
Checkpointed == Checkpoints!Spec

\* The scanner cannot see that the file was truncated: it has grown again to
\* exactly what the tailer had read.
Unnoticed ==
  /\ tailers[cur].gen # gen /\ Holds(tailers[cur].gen, gen)
  /\ tailers[cur].read = file[gen]

\* An agent that stays up ends at the end of the latest file, with every
\* line of it settled but those its tailers started beyond and never read:
\* also after the file was replaced, truncated or became shorter than the
\* registered offset, after a tailer failed or the agent restarted.
LatestFileSettled ==
  <>[](phase = "up" /\ present) =>
    <>[](/\ cur # 0
         /\ \/ /\ tailers[cur].gen = gen /\ tailers[cur].read = file[gen]
               /\ UpTo(gen, file[gen]) \subseteq settled \cup (skipped \ taken)
            \/ Unnoticed)

-----------------------------------------------------------------------------
(***************************************************************************)
(* The inductive invariant of LogsAgentProofs: no line is overtaken.       *)
(***************************************************************************)

\* Each message finds the lines up to its offset in lines, or up to itself
\* in the queue.
Ordered(q, lines) ==
  \A i \in 1..Len(q) : Covers(q[i], lines \cup FirstLines(q, i))

\* What is ahead of the messages of each queue.
AheadOfSender == Past \cup LinesOf(buffer)
AheadOfInput  == AheadOfSender \cup LinesOf(senderChan)
AheadOfHands  == AheadOfInput \cup LinesOf(inputChan)

\* As long as nothing was canceled, messages are in the order of their
\* lines from the tailers to the sender's buffer.
PipeOrdered ==
  ~canceled =>
    /\ Ordered(buffer, Past)
    /\ Ordered(senderChan, AheadOfSender)
    /\ Ordered(inputChan, AheadOfInput)

\* A tailer that still tracks its offset has given all the lines it is past;
\* it gives lines up only after a rotation.
TailersOrdered ==
  \A t \in Tailers :
    /\ ~tailers[t].rotated => ~tailers[t].cut
    /\ ~canceled => Ordered(tailers[t].hand, AheadOfHands)
    /\ ~canceled /\ ~tailers[t].rotated =>
         UpTo(tailers[t].gen, tailers[t].pos)
           \subseteq AheadOfHands \cup LinesOf(tailers[t].hand)

\* What the auditor is told of is settled.
AuditSettled ==
  \A q \in {batch, auditChan} : \A i \in 1..Len(q) : Covers(q[i], Past)

\* The buffer has room while the sender receives.
BufferHasRoom == ~sending => Len(buffer) < BatchSize

\* What each step of the ordered stop leaves empty stays empty.
Drained ==
  /\ phase \in {"processor", "sender", "auditor", "stopped"} =>
       cur = 0 \/ tailers[cur] = NoTailer
  /\ phase \in {"sender", "auditor", "stopped", "down"} => inputChan = <<>>
  /\ phase \in {"auditor", "stopped", "down"} =>
       senderChan = <<>> /\ buffer = <<>> /\ batch = <<>>
  /\ phase \in {"stopped", "down"} => auditChan = <<>>

IInv ==
  /\ TypeOK /\ CommittedSettled /\ PipeOrdered /\ TailersOrdered
  /\ AuditSettled /\ BufferHasRoom /\ Drained
=============================================================================
