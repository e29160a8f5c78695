----------------------------- MODULE MCSchedule -----------------------------
(***************************************************************************)
(* Documents that several tasks rewrite, part by part: the schedule, whose *)
(* execution is switched and carried out and whose plan the automation's   *)
(* runs rewrite, and the charging ledger.  A behaviour is one part's.      *)
(***************************************************************************)
EXTENDS MCScheduleExecution, AutomationRun, ChargingLedger

CONSTANTS Parts, inverter, heater

VARIABLE part

scheduleVars == <<vars, automationVars, ledgerVars, part>>

(* One appliance optimizer and one system optimizer.  The heater is a       *)
(* climate appliance whose modes, and the inverter's targets, come and go.  *)
MCAppliances == {heater}
MCFickle     == {inverter, heater}
MCMembers    == <<heater>>

(* The charge power has stood by, has charged since before the set-up's day, *)
(* or came on in the day before.                                             *)
MCHistories == {0 :> "standby", 1 :> "charging", (0 :> "standby") @@ (2 :> "charging")}

(* The other's state is one of its initial ones, and stays. *)
ScheduleInit ==
  /\ part \in Parts /\ Init /\ AutomationInit /\ LedgerInit
  /\ part # "execution" => flag = "on"
  /\ part # "automation" => config = "on"
  /\ part # "ledger" => power = (CHOOSE h \in Histories : TRUE)

ScheduleNext ==
  /\ UNCHANGED part
  /\ \/ part = "execution" /\ Next /\ UNCHANGED <<automationVars, ledgerVars>>
     \/ part = "automation" /\ AutomationNext /\ UNCHANGED <<vars, ledgerVars>>
     \/ part = "ledger" /\ LedgerNext /\ UNCHANGED <<vars, automationVars>>

ScheduleSpec == ScheduleInit /\ [][ScheduleNext]_scheduleVars
=============================================================================
