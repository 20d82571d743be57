---------------------------- MODULE MCConnClose ----------------------------
(* ConnClose for TLC, with a prompt driver. *)
EXTENDS ConnClose

FairSpec == Init /\ [][Next]_closeVars /\ Fairness
=============================================================================
