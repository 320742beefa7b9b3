--------------------------- MODULE MCPromExporter ---------------------------
(***************************************************************************)
(* The instance of PromExporter for TLC: one name as two types and with    *)
(* two sets of labels, one of them in two orders, a name of a request and  *)
(* one with a label twice.                                                 *)
(***************************************************************************)
EXTENDS PromExporter

MCSamples ==
  {[type |-> "gauge",     name |-> "x", tags |-> <<"a">>],
   [type |-> "count",     name |-> "x", tags |-> <<"a">>],
   [type |-> "gauge",     name |-> "x", tags |-> <<"a", "b">>],
   [type |-> "gauge",     name |-> "x", tags |-> <<"b", "a">>],
   [type |-> "histogram", name |-> "y", tags |-> <<"method", "path">>],
   [type |-> "histogram", name |-> "y", tags |-> <<"a", "a">>]}
=============================================================================
