----------------------------- MODULE Checkpoint -----------------------------
(***************************************************************************)
(* What the offsets of the logs agent promise, whatever files, tailers and *)
(* pipelines do: a position is committed only when every line up to it is  *)
(* past, what is saved is what was committed, and what a restarted agent   *)
(* begins with is what was saved, or nothing.                              *)
(***************************************************************************)
EXTENDS Naturals

CONSTANTS
  MaxGens,      \* number of files that have the path, one after the other
  MaxLines      \* lines of each of them

VARIABLES
  past,         \* lines that need not be sent any more
  offset,       \* the committed position
  saved         \* the position that survives a crash

vars == <<past, offset, saved>>

Lines == (1..MaxGens) \X (1..MaxLines)
NoOffset == [gen |-> 0, off |-> 0]
Positions == {NoOffset} \cup [gen : 1..MaxGens, off : 1..MaxLines]

\* Every line of the file up to the position is past.
Covered(p, lines) == \A i \in 1..p.off : <<p.gen, i>> \in lines

Init == past = {} /\ offset = NoOffset /\ saved = NoOffset

Pass ==
  /\ past \subseteq past' /\ past' \subseteq Lines
  /\ UNCHANGED <<offset, saved>>

Commit ==
  /\ offset' \in {p \in Positions : Covered(p, past)}
  /\ UNCHANGED <<past, saved>>

Save == saved' = offset /\ UNCHANGED <<past, offset>>

\* The write failed half way: there is nothing to start from.
Spoil == saved' = NoOffset /\ UNCHANGED <<past, offset>>

\* The committed position is lost in a crash or expires, and the saved one
\* with it or not; a restart recovers what was saved unless it expired.
Lose ==
  /\ offset' = NoOffset
  /\ saved' \in {saved, NoOffset}
  /\ UNCHANGED past

Recover ==
  /\ offset' \in {saved, NoOffset}
  /\ past \subseteq past' /\ past' \subseteq Lines
  /\ UNCHANGED saved

Next == Pass \/ Commit \/ Save \/ Spoil \/ Lose \/ Recover

Spec == Init /\ [][Next]_vars
=============================================================================
