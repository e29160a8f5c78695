----------------------------- MODULE MCPlanning -----------------------------
(***************************************************************************)
(* From the request for a plan to the appliance it runs, part by part:     *)
(* when a plan is asked for, against what AutomationTriggers promises;     *)
(* what it is computed on, and by which band of each day; and how an       *)
(* appliance is brought to it.  A behaviour is one part's.                 *)
(***************************************************************************)
EXTENDS AutomationTriggers, ForecastPipeline, DayBands, ApplianceExecution

CONSTANT Parts

VARIABLE part

planningVars == <<vars, pipelineVars, bandVars, applianceVars, part>>

(* The others' state is one of theirs, and stays. *)
Start ==
  /\ part \in Parts /\ Init /\ PipelineInit /\ DayBandsInit /\ ApplianceInit
  /\ part # "forecast" => learned.profile = 0
  /\ part # "bands" => active = Planners /\ watched = (CHOOSE p \in Pairs : TRUE)
  /\ part # "appliance" => /\ charge = "off" /\ mode = (CHOOSE m \in Modes : TRUE)
                            /\ driver = (CHOOSE d \in Drivers : TRUE)

Step ==
  /\ UNCHANGED part
  /\ \/ part = "triggers" /\ Next /\ UNCHANGED <<pipelineVars, bandVars, applianceVars>>
     \/ part = "forecast" /\ PipelineNext /\ UNCHANGED <<vars, bandVars, applianceVars>>
     \/ part = "bands" /\ DayBandsNext /\ UNCHANGED <<vars, pipelineVars, applianceVars>>
     \/ part = "appliance" /\ ApplianceNext /\ UNCHANGED <<vars, pipelineVars, bandVars>>

(* Each part is fair in its own behaviours: Fairness, PipelineFairSpec and *)
(* ApplianceFairSpec.                                                      *)
PlanningSpec ==
  /\ Start /\ [][Step]_planningVars /\ Fairness
  /\ WF_pipelineVars(part = "forecast" /\ (NextHalf \/ NextSlot))
  /\ WF_pipelineVars(part = "forecast" /\ RefreshStep)
  /\ \A w \in Workers : WF_pipelineVars(part = "forecast" /\ Works(w))
  /\ WF_applianceVars(part = "appliance" /\ Reconcile /\ UNCHANGED driver)
  /\ WF_applianceVars(part = "appliance" /\ Answer /\ UNCHANGED driver)

(* The state of every part is of its type; a ratio that hovers at a        *)
(* threshold flips no day's band; and an appliance's attempt that says so  *)
(* did what it was for.                                                    *)
PlanningInvariant ==
  /\ TypeOK /\ PipelineTypeOK /\ DayBandsTypeOK /\ BandsAreDamped
  /\ ApplianceInvariant

(* A forecast is served to everyone who asks, and what was learned last is *)
(* in it in the end.                                                       *)
ForecastIsServed == part = "forecast" => ReadsReturn /\ LearnedIsServed

(* Once calls, plan and hands rest, the appliance is as planned. *)
ApplianceConverges == part = "appliance" => Converges
=============================================================================
