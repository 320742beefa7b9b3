-------------------------- MODULE MCClusterDispatch --------------------------
(* The instance of ClusterDispatch for TLC: two node agents, so that one    *)
(* can stop, expire and hand over, and one configuration.                   *)
EXTENDS ClusterDispatch

CONSTANTS n1, n2, c1
=============================================================================
