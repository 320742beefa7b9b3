--------------------------- MODULE MCAutodiscovery ---------------------------
(* The instance of Autodiscovery for TLC: every template matches; a plain   *)
(* template, two with secrets, and one the services override.  The listener *)
(* is retried with the plain one only.                                      *)
EXTENDS Autodiscovery

MCMatching == Templates \X Services

Kind(type, overridden, secret) ==
  [type |-> type, text |-> "own", overridden |-> overridden, secret |-> secret]

Plain == Kind("check", {}, "none")
MCKinds == {Plain, Kind("check", {}, "instances"), Kind("logs", {}, "init"),
            Kind("check", Services, "none")}

MCInit == Init /\ (retry = "off" \/ \A t \in Templates : kind[t] = Plain)
MCSpec == MCInit /\ [][Next]_vars /\ Fairness
=============================================================================
