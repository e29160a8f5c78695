---------------------------- MODULE MCBackground ----------------------------
(***************************************************************************)
(* What goes on beside the schedule, part by part: the reality check, the  *)
(* training batch, and the day's energy.  A behaviour is one part's.       *)
(***************************************************************************)
EXTENDS RealityCheck, TrainingBatch, SlotEnergy

CONSTANT Parts

VARIABLE part

backgroundVars == <<realityVars, trainingVars, energyVars, part>>

Init ==
  /\ RealityInit /\ TrainingInit /\ EnergyInit /\ part \in Parts
  /\ part # "reality" => met = {}
  /\ part # "training" => \A s \in Sections : disk[s] = 0

Next ==
  /\ UNCHANGED part
  /\ \/ part = "reality" /\ RealityNext /\ UNCHANGED <<trainingVars, energyVars>>
     \/ part = "training" /\ TrainingNext /\ UNCHANGED <<realityVars, energyVars>>
     \/ part = "energy" /\ EnergyNext /\ UNCHANGED <<realityVars, trainingVars>>

\* Each part is fair in its own behaviours: RealityFair, TrainingFair.
Spec ==
  /\ Init /\ [][Next]_backgroundVars
  /\ WF_realityVars(part = "reality" /\ Attempt) /\ SF_realityVars(part = "reality" /\ Read)
  /\ WF_realityVars(part = "reality" /\ Apply) /\ WF_realityVars(part = "reality" /\ Plan)
  /\ WF_trainingVars(part = "training" /\ HomeAssistantStarts)
  /\ SF_trainingVars(part = "training" /\ Nightly)
  /\ WF_trainingVars(part = "training" /\ ClickAnswered)
  /\ \A g \in Generations : WF_trainingVars(part = "training" /\ Step(g))

\* The state of every part is of its type, and what is resumed reads as the whole.
BackgroundInvariant ==
  RealityTypeOK /\ TrainingTypeOK /\ EnergyTypeOK /\ ReadsAsTheWholeDay

\* A run of the reality check's defers for good only if an optimizer is broken.
DeferringEnds == part = "reality" => AppliesUnlessBroken

\* Nights repair what was missed.
MissedIsRepaired == part = "training" => NightsRepair

\* What a broken optimizer must not do.
DeferringAlwaysEnds == part = "reality" => AppliesAgain
=============================================================================
