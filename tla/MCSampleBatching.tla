-------------------------- MODULE MCSampleBatching --------------------------
(***************************************************************************)
(* Instances of SampleBatching for TLC: arrays of two samples and channels *)
(* of one slot, so that arrays fill up in the middle of a group, workers   *)
(* block on a full channel and arrays come back from the pool.             *)
(***************************************************************************)
EXTENDS SampleBatching

CONSTANTS m1, m2, m3, m4, m5, w1, w2, a1, a2, a3

TypesOf ==
  [m \in Messages |-> CASE m = m1 -> "metric"
                        [] m = m2 -> "histogram"
                        [] m = m3 -> "malformed"
                        [] m = m4 -> "event"
                        [] m = m5 -> "serviceCheck"]

\* The histogram is two samples, which fill an array.
TwoGroups == <<<<m2, m1>>, <<m3, m4, m5>>>>
=============================================================================
