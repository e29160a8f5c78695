------------------------ MODULE MCInverterExecution -------------------------
(* Small instances of InverterExecution. *)
EXTENDS InverterExecution

AllHands  == {"picks", "drift", "link", "restart", "off"}
AllFaults == {"refused", "unanswered"}
=============================================================================
