-------------------------- MODULE MCDomainForwarder --------------------------
(* Instances of DomainForwarder for TLC. *)
EXTENDS DomainForwarder

CONSTANTS w1, w2, e1, e2

\* The second transaction goes to an endpoint of its own.
Mixed == [t \in Transactions |-> IF t = 2 THEN e2 ELSE e1]
=============================================================================
