----------------------- MODULE InverterExecutionProofs -----------------------
(***************************************************************************)
(* InverterExecution, proved: what the registers hold of the option shown  *)
(* and of the pick under way, and what the executor's memory knows of the  *)
(* override in force; for any kinds of action, slots and numbers of edits, *)
(* hands and failures, and from any registers at first.                    *)
(***************************************************************************)
EXTENDS InverterExecution, TLAPS

LEMMA BoundFacts ==
  /\ LastSlot \in Nat /\ MaxEdits \in Nat /\ MaxHands \in Nat /\ MaxFaults \in Nat
  /\ Kinds \subseteq Options /\ "empty" \notin Options
BY KindsAssumption, BoundsAssumption DEF Options

(* A write is one of a register's own settings. *)
IsWrite(w) ==
  \/ w[1] = "use"    /\ w[2] \in {"self", "feedin", "manual"}
  \/ w[1] = "manual" /\ w[2] \in {"hold", "charge", "discharge"}
  \/ w[1] = "limit"  /\ w[2] \in {"zero", "full"}

(* An option writes two or three registers, each once. *)
LEMMA WritesFacts ==
  ASSUME NEW option \in Options
  PROVE  /\ Len(Writes(option)) \in {2, 3}
         /\ \A i \in 1..Len(Writes(option)) : IsWrite(Writes(option)[i])
         /\ \A i, j \in 1..Len(Writes(option)) :
              Writes(option)[i][1] = Writes(option)[j][1] => i = j
<1>1. CASE option \in {"normal", "stop_export"}
  <2>1. PICK limit \in {"zero", "full"} :
          Writes(option) = Append(<<<<"use", "self">>>>, <<"limit", limit>>)
    BY <1>1 DEF Writes, ModeWrites
  <2>2. <<<<"use", "self">>>> \in Seq(Registers \X Settings) /\ Len(<<<<"use", "self">>>>) = 1
    BY DEF Registers, Settings
  <2>3. /\ Len(Writes(option)) = 2
        /\ Writes(option)[1] = <<"use", "self">> /\ Writes(option)[2] = <<"limit", limit>>
    BY <2>1, <2>2
  <2>4. \A i \in 1..2 : i = 1 \/ i = 2
    OBVIOUS
  <2>5. \A i \in 1..2 : IsWrite(Writes(option)[i])
    BY <2>3, <2>4 DEF IsWrite
  <2>6. \A i, j \in 1..2 : Writes(option)[i][1] = Writes(option)[j][1] => i = j
    BY <2>3, <2>4
  <2> QED
    BY <2>3, <2>5, <2>6
<1>2. CASE option = "stop_charging"
  <2>1. Writes(option) = Append(<<<<"use", "feedin">>>>, <<"limit", "full">>)
    BY <1>2 DEF Writes, ModeWrites
  <2>2. <<<<"use", "feedin">>>> \in Seq(Registers \X Settings) /\ Len(<<<<"use", "feedin">>>>) = 1
    BY DEF Registers, Settings
  <2>3. /\ Len(Writes(option)) = 2
        /\ Writes(option)[1] = <<"use", "feedin">> /\ Writes(option)[2] = <<"limit", "full">>
    BY <2>1, <2>2
  <2>4. \A i \in 1..2 : i = 1 \/ i = 2
    OBVIOUS
  <2>5. \A i \in 1..2 : IsWrite(Writes(option)[i])
    BY <2>3, <2>4 DEF IsWrite
  <2>6. \A i, j \in 1..2 : Writes(option)[i][1] = Writes(option)[j][1] => i = j
    BY <2>3, <2>4
  <2> QED
    BY <2>3, <2>5, <2>6
<1>3. CASE option \in {"stop_discharging", "charge_to_target_soc", "discharge_to_target_soc"}
  <2>1. PICK way \in {"hold", "charge", "discharge"} :
          Writes(option) = Append(<<<<"use", "manual">>, <<"manual", way>>>>, <<"limit", "full">>)
    BY <1>3 DEF Writes, ModeWrites
  <2>2. /\ <<<<"use", "manual">>, <<"manual", way>>>> \in Seq(Registers \X Settings)
        /\ Len(<<<<"use", "manual">>, <<"manual", way>>>>) = 2
    BY DEF Registers, Settings
  <2>3. /\ Len(Writes(option)) = 3
        /\ Writes(option)[1] = <<"use", "manual">> /\ Writes(option)[2] = <<"manual", way>>
        /\ Writes(option)[3] = <<"limit", "full">>
    BY <2>1, <2>2
  <2>4. \A i \in 1..3 : i = 1 \/ i = 2 \/ i = 3
    OBVIOUS
  <2>5. \A i \in 1..3 : IsWrite(Writes(option)[i])
    BY <2>3, <2>4 DEF IsWrite
  <2>6. \A i, j \in 1..3 : Writes(option)[i][1] = Writes(option)[j][1] => i = j
    BY <2>3, <2>4
  <2> QED
    BY <2>3, <2>5, <2>6
<1> QED
  BY <1>1, <1>2, <1>3 DEF Options

-----------------------------------------------------------------------------
(* The type, with what keeps a pick's steps in order. *)

PicksSound ==
  /\ \A p \in Pickers : pick[p].at \in {"none", "waiting"} => pick[p].next = 1 /\ pick[p].done = {}
  /\ \A p \in Pickers : pick[p].at = "calling" => More(p)
  /\ \A p, q \in Pickers : Holder(p) /\ Holder(q) => p = q

Memories == [action : Options \cup {"none", "empty"}, slot : 0..LastSlot + 1,
             kind : {"none", "apply", "noop", "slot_stop"}]

(* The write a pick is at, while it has one. *)
LEMMA WriteFacts ==
  ASSUME TypeOK, NEW p \in Pickers, More(p)
  PROVE  /\ IsWrite(Write(p)) /\ Write(p)[1] \in Registers
         /\ pick[p].next \in 1..Len(Writes(pick[p].option))
         /\ pick[p].next + 1 \in 1..Len(Writes(pick[p].option)) + 1
<1>1. pick[p].option \in Options /\ pick[p].next \in 1..Len(Writes(pick[p].option)) + 1
  BY DEF TypeOK, Picks
<1>2. Len(Writes(pick[p].option)) \in {2, 3}
  BY <1>1, WritesFacts
<1>3. pick[p].next \in 1..Len(Writes(pick[p].option)) /\ pick[p].next + 1 \in 1..Len(Writes(pick[p].option)) + 1
  BY <1>1, <1>2 DEF More
<1>4. IsWrite(Write(p))
  BY <1>1, <1>3, WritesFacts DEF Write
<1> QED
  BY <1>3, <1>4 DEF IsWrite, Registers

(* What a write does to the registers: its own is set, and going to Manual *)
(* Mode leaves the manual mode anywhere.                                   *)
LEMMA EffectFacts ==
  ASSUME TypeOK, NEW p \in Pickers, More(p), TakesEffect(p)
  PROVE  /\ hw' \in Values /\ owned' \in {"yes", "no"} /\ (owned' = "yes" => owned = "yes")
         /\ hw'[Write(p)[1]] = Write(p)[2]
         /\ \A r \in Registers : r = Write(p)[1] \/ r \in ResetBy(p) \/ hw'[r] = hw[r]
         /\ ResetBy(p) \subseteq Registers
<1> DEFINE w == Write(p)
<1>1. IsWrite(w) /\ hw \in Values
  BY WriteFacts DEF TypeOK
<1>2. PICK reset \in {"hold", "charge", "discharge"} :
        /\ hw' = [[hw EXCEPT !.manual = reset] EXCEPT ![w[1]] = w[2]]
        /\ ToManual(w[1], w[2]) \/ reset = hw.manual
  BY <1>1 DEF TakesEffect, Values
<1>3. owned' \in {"yes", "no"} /\ (owned' = "yes" => owned = "yes")
  BY DEF TakesEffect, TypeOK
<1>4. ResetBy(p) \subseteq Registers /\ (ToManual(w[1], w[2]) => "manual" \in ResetBy(p))
  BY DEF ResetBy, Registers
<1> HIDE DEF w
<1>5. /\ hw' \in Values /\ hw'[w[1]] = w[2]
      /\ \A r \in Registers : r = w[1] \/ (r = "manual" /\ ToManual(w[1], w[2])) \/ hw'[r] = hw[r]
  <2>1. CASE w[1] = "use"
    BY <1>1, <1>2, <2>1 DEF IsWrite, Values, Registers
  <2>2. CASE w[1] = "manual"
    BY <1>1, <1>2, <2>2 DEF IsWrite, Values, Registers
  <2>3. CASE w[1] = "limit"
    BY <1>1, <1>2, <2>3 DEF IsWrite, Values, Registers
  <2> QED
    BY <1>1, <2>1, <2>2, <2>3 DEF IsWrite
<1> QED
  BY <1>3, <1>4, <1>5 DEF w

LEMMA WantedFacts ==
  ASSUME TypeOK
  PROVE  /\ plan[slot] \in Actions /\ Wanted(plan[slot]) \in Options
         /\ plan[slot] = "empty" => Wanted(plan[slot]) = "normal"
BY BoundFacts DEF TypeOK, Actions, Wanted, Resolve, Options

RecordTypes ==
  /\ ended \in {"none", "ok", "failed"} /\ acted \in Actions /\ memory \in Memories
  /\ applied \in {"override", "normal", "nothing"}

LEMMA SucceedType ==
  ASSUME TypeOK, NEW action \in Actions, NEW executed \in Options, NEW at \in Slots,
         NEW orphan \in {"yes", "no"}, Succeed(action, executed, at, orphan)
  PROVE  RecordTypes' /\ owned' \in {"yes", "no"}
BY BoundFacts DEF TypeOK, Succeed, Recorded, RecordTypes, Memories, Slots

LEMMA AttemptType ==
  ASSUME TypeOK, NEW p \in Pickers
  PROVE  /\ AttemptSucceeds(p) => RecordTypes' /\ owned' \in {"yes", "no"}
         /\ AttemptFails(p) => RecordTypes'
<1>1. ASSUME AttemptSucceeds(p) PROVE RecordTypes' /\ owned' \in {"yes", "no"}
  <2>1. CASE p = "executor"
    <3>1. Succeed(attempt.action, attempt.executed, attempt.slot, attempt.orphan)
      BY <1>1, <2>1 DEF AttemptSucceeds
    <3> QED
      BY <3>1, SucceedType DEF TypeOK
  <2>2. CASE p # "executor"
    BY <1>1, <2>2 DEF AttemptSucceeds, TypeOK, RecordTypes, Memories
  <2> QED
    BY <2>1, <2>2
<1>2. ASSUME AttemptFails(p) PROVE RecordTypes'
  BY <1>2 DEF AttemptFails, Fail, TypeOK, RecordTypes, Memories
<1> QED
  BY <1>1, <1>2

InType == TypeOK /\ PicksSound

(* A pick that begins, or ends, is in order and leaves the others so. *)
LEMMA PickReplaced ==
  ASSUME InType, NEW p \in Pickers,
         NEW new \in {NoPick} \cup {Asked(option) : option \in Options},
         pick' = [pick EXCEPT ![p] = new]
  PROVE  /\ pick' \in [Pickers -> Picks]
         /\ \A q \in Pickers : pick'[q].next \in 1..Len(Writes(pick'[q].option)) + 1
         /\ PicksSound'
<1>1. new \in Picks /\ new.at \in {"none", "waiting"} /\ new.next = 1 /\ new.done = {}
  BY DEF NoPick, Asked, Picks, Options
<1>2. new.option \in Options
  BY <1>1 DEF Picks
<1>3. Len(Writes(new.option)) \in {2, 3}
  BY <1>2, WritesFacts
<1>4. pick \in [Pickers -> Picks]
  BY DEF InType, TypeOK
<1>5. pick' \in [Pickers -> Picks] /\ pick'[p] = new
  BY <1>1, <1>4
<1>6. \A q \in Pickers : q # p => pick'[q] = pick[q]
  BY <1>4
<1>7. ASSUME NEW q \in Pickers
      PROVE  pick'[q].next \in 1..Len(Writes(pick'[q].option)) + 1
  <2>1. CASE q = p
    BY <1>1, <1>3, <1>5, <2>1
  <2>2. CASE q # p
    BY <1>6, <2>2 DEF InType, TypeOK
  <2> QED
    BY <2>1, <2>2
<1>8. PicksSound'
  BY <1>1, <1>5, <1>6 DEF InType, PicksSound, Holder, More
<1> QED
  BY <1>5, <1>7, <1>8

LEMMA ReconcileInType ==
  ASSUME InType, Reconcile
  PROVE  InType'
<1>1. CASE LeaveEmpty
  BY <1>1, BoundFacts DEF LeaveEmpty, InType, TypeOK, PicksSound, schedule, device, counters, Slots, Actions,
     Holder, More
<1>2. CASE CannotTell
  BY <1>2, WantedFacts DEF CannotTell, Fail, InType, TypeOK, PicksSound, schedule, device, counters,
     Holder, More
<1>3. CASE AlreadySo
  <2>1. RecordTypes' /\ owned' \in {"yes", "no"}
    BY <1>3, WantedFacts, SucceedType DEF AlreadySo, InType, TypeOK
  <2> QED
    BY <1>3, <2>1 DEF AlreadySo, InType, TypeOK, PicksSound, schedule, device, counters, RecordTypes,
       Memories, Holder, More
<1>4. CASE CallSelect
  <2>1. attempt' \in [action : Actions, executed : Options, slot : Slots, orphan : {"yes", "no"}]
    BY <1>4, WantedFacts DEF CallSelect, InType, TypeOK
  <2>2. /\ pick' \in [Pickers -> Picks]
        /\ \A q \in Pickers : pick'[q].next \in 1..Len(Writes(pick'[q].option)) + 1
        /\ PicksSound'
    BY <1>4, WantedFacts, PickReplaced DEF CallSelect, InType, Pickers
  <2> QED
    BY <1>4, <2>1, <2>2 DEF CallSelect, InType, TypeOK, Picks, schedule, device, counters
<1> QED
  BY <1>1, <1>2, <1>3, <1>4 DEF Reconcile

(* A pick that goes a step further stays in order. *)
LEMMA PickAdvanced ==
  ASSUME InType, NEW p \in Pickers, Holder(p), More(p),
         pick' \in [Pickers -> Picks],
         \A q \in Pickers : q # p => pick'[q] = pick[q],
         pick'[p].at = "writing", pick'[p].option = pick[p].option, pick'[p].next = pick[p].next + 1
  PROVE  /\ \A q \in Pickers : pick'[q].next \in 1..Len(Writes(pick'[q].option)) + 1
         /\ PicksSound'
<1>1. pick[p].next + 1 \in 1..Len(Writes(pick[p].option)) + 1
  BY WriteFacts DEF InType
<1>2. ASSUME NEW q \in Pickers
      PROVE  pick'[q].next \in 1..Len(Writes(pick'[q].option)) + 1
  BY <1>1 DEF InType, TypeOK
<1>3. PicksSound'
  BY DEF InType, PicksSound, Holder, More
<1> QED
  BY <1>2, <1>3

LEMMA PickInType ==
  ASSUME InType, NEW p \in Pickers, Pick(p)
  PROVE  InType'
<1>0. TypeOK /\ PicksSound /\ pick \in [Pickers -> Picks]
  BY DEF InType, TypeOK
<1>1. CASE TakeLock(p)
  <2>1. CASE InMode(pick[p].option)
    <3>1. pick' = [pick EXCEPT ![p] = NoPick] /\ AttemptSucceeds(p)
      BY <1>1, <2>1 DEF TakeLock
    <3> QED
      BY <1>0, <1>1, <3>1, PickReplaced, AttemptType DEF TakeLock, schedule, device, counters, InType, TypeOK,
         RecordTypes, Memories
  <2>2. CASE ~InMode(pick[p].option)
    <3>1. pick' = [pick EXCEPT ![p].at = "writing"] /\ UNCHANGED <<ended, acted, memory, applied, owned>>
      BY <1>1, <2>2 DEF TakeLock
    <3>2. /\ pick' \in [Pickers -> Picks]
          /\ \A q \in Pickers : q # p => pick'[q] = pick[q]
          /\ pick'[p].at = "writing" /\ pick'[p].option = pick[p].option /\ pick'[p].next = pick[p].next
      BY <1>0, <3>1 DEF Picks
    <3>3. \A q \in Pickers : ~Holder(q)
      BY <1>1 DEF TakeLock
    <3>4. PicksSound'
      BY <1>0, <3>2, <3>3 DEF PicksSound, Holder, More
    <3>5. \A q \in Pickers : pick'[q].next \in 1..Len(Writes(pick'[q].option)) + 1
      BY <1>0, <3>2 DEF TypeOK
    <3> QED
      BY <1>0, <1>1, <3>1, <3>2, <3>4, <3>5 DEF TakeLock, schedule, device, counters, InType, TypeOK
  <2> QED
    BY <2>1, <2>2
<1>2. CASE SkipWrite(p)
  <2>1. /\ pick' \in [Pickers -> Picks]
        /\ \A q \in Pickers : q # p => pick'[q] = pick[q]
        /\ pick'[p].at = "writing" /\ pick'[p].option = pick[p].option /\ pick'[p].next = pick[p].next + 1
    BY <1>0, <1>2 DEF SkipWrite, Picks
  <2>2. moved' \subseteq Registers
    BY <1>0, <1>2, WriteFacts DEF SkipWrite, Skipped, TypeOK
  <2>3. /\ \A q \in Pickers : pick'[q].next \in 1..Len(Writes(pick'[q].option)) + 1
        /\ PicksSound'
    BY <1>2, <2>1, PickAdvanced DEF SkipWrite, Holder
  <2> QED
    BY <1>0, <1>2, <2>1, <2>2, <2>3 DEF SkipWrite, schedule, executor, counters, InType, TypeOK
<1>3. CASE IssueWrite(p)
  <2>1. /\ pick' \in [Pickers -> Picks]
        /\ \A q \in Pickers : q # p => pick'[q] = pick[q]
        /\ pick'[p].at = "calling" /\ pick'[p].option = pick[p].option /\ pick'[p].next = pick[p].next
    BY <1>0, <1>3 DEF IssueWrite, Picks
  <2>2. \A q \in Pickers : pick'[q].next \in 1..Len(Writes(pick'[q].option)) + 1
    BY <1>0, <2>1 DEF TypeOK
  <2>3. PicksSound'
    BY <1>0, <1>3, <2>1 DEF IssueWrite, PicksSound, Holder, More
  <2> QED
    BY <1>0, <1>3, <2>1, <2>2, <2>3 DEF IssueWrite, schedule, device, executor, counters, InType, TypeOK
<1>4. CASE WriteAnswers(p)
  <2>0. More(p) /\ Holder(p)
    BY <1>0, <1>4 DEF WriteAnswers, PicksSound, Holder
  <2>1. /\ pick' \in [Pickers -> Picks]
        /\ \A q \in Pickers : q # p => pick'[q] = pick[q]
        /\ pick'[p].at = "writing" /\ pick'[p].option = pick[p].option /\ pick'[p].next = pick[p].next + 1
    BY <1>0, <1>4, <2>0, WriteFacts DEF WriteAnswers, Picks
  <2>2. moved' \subseteq Registers /\ hw' \in Values /\ owned' \in {"yes", "no"}
    BY <1>0, <1>4, <2>0, WriteFacts, EffectFacts DEF WriteAnswers, TypeOK
  <2>3. /\ \A q \in Pickers : pick'[q].next \in 1..Len(Writes(pick'[q].option)) + 1
        /\ PicksSound'
    BY <2>0, <2>1, PickAdvanced
  <2>4. seen' \in [Registers -> {"unreadable"} \cup Settings]
    <3>1. Write(p)[2] \in Settings
      BY <1>0, <2>0, WriteFacts DEF IsWrite, Settings
    <3> QED
      BY <1>0, <1>4, <3>1 DEF WriteAnswers, TypeOK
  <2> QED
    BY <1>0, <1>4, <2>1, <2>2, <2>3, <2>4 DEF WriteAnswers, schedule, counters, InType, TypeOK
<1>5. CASE PickEnds(p)
  <2>1. pick' = [pick EXCEPT ![p] = NoPick] /\ AttemptSucceeds(p) /\ shown' \in Options
    BY <1>0, <1>5 DEF PickEnds, Picks
  <2> QED
    BY <1>0, <1>5, <2>1, PickReplaced, AttemptType DEF PickEnds, schedule, counters, InType, TypeOK,
       RecordTypes, Memories
<1> QED
  BY <1>1, <1>2, <1>3, <1>4, <1>5 DEF Pick

LEMMA FailureInType ==
  ASSUME InType, CallTimesOut \/ \E p \in Pickers : WriteFails(p)
  PROVE  InType'
<1>0. TypeOK /\ PicksSound
  BY DEF InType
<1>1. ASSUME NEW p \in Pickers, WriteFails(p)
      PROVE  InType'
  <2>0. More(p)
    BY <1>0, <1>1 DEF WriteFails, PicksSound
  <2>1. pick' = [pick EXCEPT ![p] = NoPick] /\ AttemptFails(p)
    BY <1>1 DEF WriteFails
  <2>2. faults' \in 0..MaxFaults
    BY <1>0, <1>1, BoundFacts DEF WriteFails, TypeOK
  <2>3. Abandoned(p) \subseteq Registers
    BY <1>0 DEF Abandoned, TypeOK, Picks
  <2>4. moved' \subseteq Registers /\ hw' \in Values /\ owned' \in {"yes", "no"}
    BY <1>0, <1>1, <2>0, <2>3, WriteFacts, EffectFacts DEF WriteFails, TypeOK
  <2> QED
    BY <1>0, <1>1, <2>1, <2>2, <2>4, PickReplaced, AttemptType DEF WriteFails, schedule, InType, TypeOK,
       RecordTypes, Memories
<1>2. CASE CallTimesOut
  <2>1. pick' = [pick EXCEPT !["executor"] = NoPick] /\ AttemptFails("executor") /\ "executor" \in Pickers
    BY <1>2 DEF CallTimesOut, Pickers
  <2>2. faults' \in 0..MaxFaults
    BY <1>0, <1>2, BoundFacts DEF CallTimesOut, TypeOK
  <2> QED
    BY <1>0, <1>2, <2>1, <2>2, PickReplaced, AttemptType DEF CallTimesOut, schedule, device, InType, TypeOK,
       RecordTypes, Memories
<1> QED
  BY <1>1, <1>2

LEMMA ValuesAreReadings ==
  ASSUME NEW registers \in Values
  PROVE  registers \in [Registers -> {"unreadable"} \cup Settings]
BY DEF Values, Registers, Settings

LEMMA SurroundingsInType ==
  ASSUME InType, Poll \/ Advance \/ Edit \/ UserPicks \/ Drift \/ LinkDrops \/ Restart \/ OffAndOn
  PROVE  InType'
<1>0. TypeOK /\ PicksSound
  BY DEF InType
<1>1. CASE Poll
  <2>1. seen' \in [Registers -> {"unreadable"} \cup Settings]
    BY <1>0, <1>1, ValuesAreReadings DEF Poll, TypeOK
  <2> QED
    BY <1>0, <1>1, <2>1 DEF Poll, schedule, executor, counters, InType, TypeOK, PicksSound, Holder, More
<1>2. CASE Advance
  BY <1>0, <1>2, BoundFacts DEF Advance, device, executor, counters, InType, TypeOK, PicksSound, Holder, More,
     Slots
<1>3. CASE Edit
  <2>1. plan' \in [Slots -> Actions] /\ soc' \in {"short", "met", "unknown"}
    BY <1>0, <1>3 DEF Edit, TypeOK
  <2>2. edits' \in 0..MaxEdits
    BY <1>0, <1>3, BoundFacts DEF Edit, TypeOK
  <2> QED
    BY <1>0, <1>3, <2>1, <2>2 DEF Edit, device, executor, InType, TypeOK, PicksSound, Holder, More
<1>4. ASSUME NEW kind, Hand(kind)
      PROVE  hands' \in 0..MaxHands
  BY <1>0, <1>4, BoundFacts DEF Hand, TypeOK
<1>5. CASE UserPicks
  <2>1. PICK option \in Options : pick' = [pick EXCEPT !["user"] = Asked(option)]
    BY <1>5, BoundFacts DEF UserPicks, Options
  <2>2. hands' \in 0..MaxHands /\ "user" \in Pickers
    BY <1>4, <1>5 DEF UserPicks, Pickers
  <2>3. /\ pick' \in [Pickers -> Picks]
        /\ \A q \in Pickers : pick'[q].next \in 1..Len(Writes(pick'[q].option)) + 1
        /\ PicksSound'
    BY <2>1, <2>2, PickReplaced
  <2> QED
    BY <1>0, <1>5, <2>2, <2>3 DEF UserPicks, schedule, device, executor, InType, TypeOK
<1>6. CASE Drift
  <2>1. hands' \in 0..MaxHands
    BY <1>4, <1>6 DEF Drift
  <2>2. PICK r \in Registers, v \in Values : hw' = [hw EXCEPT ![r] = v[r]] /\ moved' = moved \cup {r}
    BY <1>6 DEF Drift
  <2>3. hw' \in Values
    BY <1>0, <2>2 DEF TypeOK, Values, Registers
  <2> QED
    BY <1>0, <1>6, <2>1, <2>2, <2>3 DEF Drift, schedule, executor, InType, TypeOK, PicksSound, Holder, More
<1>7. CASE LinkDrops
  <2>1. hands' \in 0..MaxHands
    BY <1>4, <1>7 DEF LinkDrops
  <2>2. seen' \in [Registers -> {"unreadable"} \cup Settings]
    BY <1>0, <1>7 DEF LinkDrops, TypeOK
  <2> QED
    BY <1>0, <1>7, <2>1, <2>2 DEF LinkDrops, schedule, executor, InType, TypeOK, PicksSound, Holder, More
<1>8. CASE Restart
  <2>1. hands' \in 0..MaxHands
    BY <1>4, <1>8 DEF Restart
  <2>2. /\ pick' \in [Pickers -> Picks]
        /\ \A p \in Pickers : pick'[p] = NoPick
    BY <1>8 DEF Restart, NoPick, Picks, Options
  <2>3. Len(Writes("normal")) \in {2, 3}
    BY WritesFacts DEF Options
  <2>4. \A p \in Pickers : pick'[p].next \in 1..Len(Writes(pick'[p].option)) + 1
    BY <2>2, <2>3 DEF NoPick
  <2>5. PicksSound'
    BY <2>2 DEF PicksSound, NoPick, Holder, More
  <2>6. shown' \in Options \cup {"unknown"}
    BY <1>0, <1>8 DEF Restart, TypeOK
  <2>7. moved' \subseteq Registers
    <3>1. \A p \in Pickers : Abandoned(p) \subseteq Registers
      BY <1>0 DEF Abandoned, TypeOK, Picks
    <3> QED
      BY <1>0, <1>8, <3>1 DEF Restart, TypeOK
  <2>8. /\ attempt' \in [action : Actions, executed : Options, slot : Slots, orphan : {"yes", "no"}]
        /\ memory' \in Memories
    BY <1>8, BoundFacts DEF Restart, NoAttempt, NoMemory, Actions, Options, Slots, Memories
  <2> QED
    BY <1>0, <1>8, <2>1, <2>2, <2>4, <2>5, <2>6, <2>7, <2>8 DEF Restart, schedule, InType, TypeOK, Memories,
       Actions
<1>9. CASE OffAndOn
  <2>1. hands' \in 0..MaxHands
    BY <1>4, <1>9 DEF OffAndOn
  <2>2. /\ attempt' \in [action : Actions, executed : Options, slot : Slots, orphan : {"yes", "no"}]
        /\ memory' \in Memories
    BY <1>0, <1>9, BoundFacts DEF OffAndOn, NoMemory, Memories, TypeOK
  <2> QED
    BY <1>0, <1>9, <2>1, <2>2 DEF OffAndOn, schedule, InType, TypeOK, PicksSound, Holder, More, Memories,
       Actions
<1> QED
  BY <1>1, <1>2, <1>3, <1>5, <1>6, <1>7, <1>8, <1>9

LEMMA StepInType ==
  ASSUME InType, [Next]_vars
  PROVE  InType'
<1>1. CASE Next
  BY <1>1, ReconcileInType, PickInType, FailureInType, SurroundingsInType DEF Next
<1>2. CASE UNCHANGED vars
  BY <1>2 DEF vars, schedule, device, executor, counters, InType, TypeOK, PicksSound, Holder, More
<1> QED
  BY <1>1, <1>2

LEMMA InitInType == Init => InType
<1> SUFFICES ASSUME Init PROVE InType
  OBVIOUS
<1>1. Len(Writes("normal")) \in {2, 3}
  BY WritesFacts DEF Options
<1>2. hw \in Values /\ seen \in [Registers -> {"unreadable"} \cup Settings]
  BY ValuesAreReadings DEF Init
<1>3. /\ pick \in [Pickers -> Picks]
      /\ \A p \in Pickers : pick[p].next \in 1..Len(Writes(pick[p].option)) + 1
      /\ PicksSound
  BY <1>1 DEF Init, NoPick, Picks, Options, PicksSound, Holder, More
<1> QED
  BY <1>2, <1>3, BoundFacts, StartAssumption DEF Init, InType, TypeOK, Slots, Actions, NoAttempt, NoMemory,
     Options

(* Every state is of its type. *)
THEOREM InverterTypeCorrect == Spec => []TypeOK
<1>1. InType => TypeOK
  BY DEF InType
<1> QED
  BY <1>1, InitInType, StepInType, PTL DEF Spec

-----------------------------------------------------------------------------
(* What the memory knows.                                                   *)

(* The attempt for an empty slot goes back to normal; an override in force  *)
(* is on record, as an apply that is Helman's last success.                 *)
MemoryKnows ==
  /\ attempt.action = "empty" => attempt.executed = "normal"
  /\ owned = "yes" => RequiresStop /\ memory.kind # "slot_stop"
  /\ RequiresStop => applied = "override"
  /\ NoOverrideLeft

LEMMA SuccessIsKnown ==
  ASSUME TypeOK, MemoryKnows, NEW action \in Actions, NEW executed \in Options, NEW at \in Slots,
         NEW orphan \in {"yes", "no"}, Succeed(action, executed, at, orphan),
         action = "empty" => executed = "normal"
  PROVE  /\ owned' = "yes" => RequiresStop' /\ memory'.kind # "slot_stop"
         /\ RequiresStop' => applied' = "override"
         /\ acted' = "empty" => owned' = "no"
<1>1. CASE orphan = "yes"
  <2>0. Succeed(action, executed, at, "yes")
    BY <1>1
  <2>1. memory' = memory /\ applied' = applied /\ acted' = action
    BY <2>0 DEF Succeed, Recorded
  <2>2. owned' = "yes" => owned = "yes" /\ executed # "normal"
    BY <2>0 DEF Succeed, Recorded
  <2>3. owned' \in {"yes", "no"}
    BY SucceedType
  <2> QED
    BY <2>1, <2>2, <2>3 DEF MemoryKnows, RequiresStop
<1>2. CASE orphan = "no"
  <2>0. Succeed(action, executed, at, "no")
    BY <1>2
  <2> QED
    BY <2>0, BoundFacts DEF TypeOK, MemoryKnows, Succeed, Recorded, RequiresStop, Options
<1> QED
  BY <1>1, <1>2

LEMMA ReconcileRemembers ==
  ASSUME InType, MemoryKnows, Reconcile
  PROVE  MemoryKnows'
<1>0. TypeOK
  BY DEF InType
<1>1. CASE LeaveEmpty
  <2>1. owned = "no" /\ owned' = owned /\ applied' = applied /\ attempt' = attempt
    BY <1>0, <1>1 DEF LeaveEmpty, ToDo, Cached, RequiresStop, MemoryKnows, TypeOK
  <2>2. RequiresStop' => RequiresStop
    BY <1>1 DEF LeaveEmpty, RequiresStop
  <2> QED
    BY <2>1, <2>2 DEF MemoryKnows, NoOverrideLeft
<1>2. CASE CannotTell
  BY <1>2 DEF CannotTell, Fail, MemoryKnows, NoOverrideLeft, RequiresStop
<1>3. CASE AlreadySo
  <2>1. /\ plan[slot] \in Actions /\ Wanted(plan[slot]) \in Options /\ slot \in Slots
        /\ plan[slot] = "empty" => Wanted(plan[slot]) = "normal"
        /\ Succeed(plan[slot], Wanted(plan[slot]), slot, "no") /\ attempt' = attempt
    BY <1>0, <1>3, WantedFacts DEF AlreadySo, TypeOK
  <2>2. /\ owned' = "yes" => RequiresStop' /\ memory'.kind # "slot_stop"
        /\ RequiresStop' => applied' = "override"
        /\ acted' = "empty" => owned' = "no"
    BY <1>0, <2>1, SuccessIsKnown
  <2> QED
    BY <2>1, <2>2 DEF MemoryKnows, NoOverrideLeft
<1>4. CASE CallSelect
  <2>1. UNCHANGED <<memory, ended, acted, applied, owned>> /\ ~Idle'
    BY <1>0, <1>4 DEF CallSelect, Idle, Asked, TypeOK, Pickers
  <2>2. attempt'.action = "empty" => attempt'.executed = "normal"
    BY <1>0, <1>4, WantedFacts DEF CallSelect
  <2> QED
    BY <2>1, <2>2 DEF MemoryKnows, NoOverrideLeft, RequiresStop
<1> QED
  BY <1>1, <1>2, <1>3, <1>4 DEF Reconcile

LEMMA AttemptRemembers ==
  ASSUME InType, MemoryKnows, NEW p \in Pickers, AttemptSucceeds(p), attempt' = attempt,
         p # "executor" => Idle' = Idle
  PROVE  MemoryKnows'
<1>1. CASE p = "executor"
  <2>1. /\ Succeed(attempt.action, attempt.executed, attempt.slot, attempt.orphan)
        /\ attempt.action \in Actions /\ attempt.executed \in Options
        /\ attempt.slot \in Slots /\ attempt.orphan \in {"yes", "no"}
    BY <1>1 DEF AttemptSucceeds, InType, TypeOK
  <2>2. /\ owned' = "yes" => RequiresStop' /\ memory'.kind # "slot_stop"
        /\ RequiresStop' => applied' = "override"
        /\ acted' = "empty" => owned' = "no"
    BY <2>1, SuccessIsKnown DEF InType, MemoryKnows
  <2> QED
    BY <2>2 DEF MemoryKnows, NoOverrideLeft
<1>2. CASE p # "executor"
  BY <1>2 DEF AttemptSucceeds, MemoryKnows, NoOverrideLeft, RequiresStop
<1> QED
  BY <1>1, <1>2

LEMMA PickRemembers ==
  ASSUME InType, MemoryKnows, NEW p \in Pickers, Pick(p)
  PROVE  MemoryKnows'
<1>0. TypeOK /\ pick \in [Pickers -> Picks] /\ "executor" \in Pickers
  BY DEF InType, TypeOK, Pickers
<1>1. CASE TakeLock(p)
  <2>1. CASE InMode(pick[p].option)
    BY <1>0, <1>1, <2>1, AttemptRemembers DEF TakeLock, Idle
  <2>2. CASE ~InMode(pick[p].option)
    <3>1. Idle' => Idle
      BY <1>0, <1>1, <2>2 DEF TakeLock, Idle, Picks
    <3> QED
      BY <1>1, <2>2, <3>1 DEF TakeLock, MemoryKnows, NoOverrideLeft, RequiresStop
  <2> QED
    BY <2>1, <2>2
<1>2. CASE SkipWrite(p)
  <2>1. Idle' => Idle
    BY <1>0, <1>2 DEF SkipWrite, Idle, Picks
  <2> QED
    BY <1>2, <2>1 DEF SkipWrite, executor, MemoryKnows, NoOverrideLeft, RequiresStop
<1>3. CASE IssueWrite(p)
  <2>1. Idle' => Idle
    BY <1>0, <1>3 DEF IssueWrite, Idle, Picks
  <2> QED
    BY <1>3, <2>1 DEF IssueWrite, executor, MemoryKnows, NoOverrideLeft, RequiresStop
<1>4. CASE WriteAnswers(p)
  <2>1. Idle' => Idle
    BY <1>0, <1>4 DEF WriteAnswers, Idle, Picks
  <2>2. owned' \in {"yes", "no"} /\ (owned' = "yes" => owned = "yes")
    BY <1>0, <1>4 DEF WriteAnswers, TakesEffect, TypeOK
  <2> QED
    BY <1>4, <2>1, <2>2 DEF WriteAnswers, MemoryKnows, NoOverrideLeft, RequiresStop
<1>5. CASE PickEnds(p)
  BY <1>0, <1>5, AttemptRemembers DEF PickEnds, Idle
<1> QED
  BY <1>1, <1>2, <1>3, <1>4, <1>5 DEF Pick

LEMMA FailureRemembers ==
  ASSUME InType, MemoryKnows, CallTimesOut \/ \E p \in Pickers : WriteFails(p)
  PROVE  MemoryKnows'
<1>0. TypeOK /\ PicksSound /\ pick \in [Pickers -> Picks] /\ "executor" \in Pickers
  BY DEF InType, TypeOK, Pickers
<1>1. ASSUME NEW p \in Pickers, WriteFails(p)
      PROVE  MemoryKnows'
  <2>1. owned' \in {"yes", "no"} /\ (owned' = "yes" => owned = "yes")
    BY <1>0, <1>1 DEF WriteFails, TakesEffect, TypeOK
  <2>2. p # "executor" => Idle' = Idle
    BY <1>0, <1>1 DEF WriteFails, Idle
  <2> QED
    BY <1>1, <2>1, <2>2 DEF WriteFails, AttemptFails, Fail, MemoryKnows, NoOverrideLeft, RequiresStop
<1>2. CASE CallTimesOut
  BY <1>2 DEF CallTimesOut, AttemptFails, Fail, MemoryKnows, NoOverrideLeft, RequiresStop
<1> QED
  BY <1>1, <1>2

LEMMA SurroundingsRemember ==
  ASSUME InType, MemoryKnows,
         Poll \/ Advance \/ Edit \/ UserPicks \/ Drift \/ LinkDrops \/ Restart \/ OffAndOn
  PROVE  MemoryKnows'
<1> USE DEF MemoryKnows, NoOverrideLeft, RequiresStop, Idle
<1>1. CASE Poll \/ Advance \/ Edit \/ Drift \/ LinkDrops
  BY <1>1 DEF Poll, Advance, Edit, Drift, LinkDrops, executor
<1>2. CASE UserPicks
  <2>1. pick'["executor"] = pick["executor"]
    BY <1>2 DEF UserPicks, InType, TypeOK, Pickers
  <2> QED
    BY <1>2, <2>1 DEF UserPicks, executor
<1>3. CASE Restart
  BY <1>3 DEF Restart, NoAttempt, NoMemory
<1>4. CASE OffAndOn
  BY <1>4 DEF OffAndOn, NoMemory, InType, TypeOK
<1> QED
  BY <1>1, <1>2, <1>3, <1>4

-----------------------------------------------------------------------------
(* What the registers hold.                                                 *)

(* Something else moved the register, or a pick under way of another option *)
(* has written it.                                                          *)
Excused(r) ==
  r \in moved \/ \E p \in Pickers : Holder(p) /\ ~Repick(p) /\ r \in pick[p].done

WrittenSoFar ==
  \A p \in Pickers : Holder(p) =>
    \A i \in 1..Len(Writes(pick[p].option)) : i < pick[p].next =>
      LET w == Writes(pick[p].option)[i] IN hw[w[1]] = w[2] \/ w[1] \in moved

ShownKept ==
  shown # "unknown" =>
    \A i \in 1..Len(Writes(shown)) :
      LET w == Writes(shown)[i] IN hw[w[1]] = w[2] \/ Excused(w[1])

(* Before an option has ever been shown: what Home Assistant sees. *)
SeenKept ==
  shown = "unknown" => \A r \in Registers : seen[r] \in {hw[r], "unreadable"} \/ Excused(r)

RegistersKnown == WrittenSoFar /\ ShownKept /\ SeenKept

LEMMA HolderFacts ==
  ASSUME InType, NEW p \in Pickers, Holder(p)
  PROVE  /\ \A q \in Pickers : q # p => ~Holder(q)
         /\ pick[p].option \in Options
         /\ \A r \in Registers : Excused(r) => r \in moved \/ (~Repick(p) /\ r \in pick[p].done)
         /\ shown = "unknown" => ~Repick(p)
<1>1. pick[p].option \in Options /\ "unknown" \notin Options
  BY DEF InType, TypeOK, Picks, Options
<1>2. \A q \in Pickers : q # p => ~Holder(q)
  BY DEF InType, PicksSound
<1> QED
  BY <1>1, <1>2 DEF Excused, Repick

(* Steps that leave the registers, and who holds the lock, as they are. *)
LEMMA UntouchedRegisters ==
  ASSUME InType, RegistersKnown, UNCHANGED <<hw, shown, moved>>,
         \A p \in Pickers : Holder(p)' = Holder(p) /\ (Holder(p) => pick'[p].option = pick[p].option
                                /\ pick'[p].next = pick[p].next /\ pick'[p].done = pick[p].done),
         \A r \in Registers : seen'[r] \in {seen[r], hw[r], "unreadable"}
  PROVE  RegistersKnown'
<1>1. \A r : Excused(r) => Excused(r)'
  BY DEF Excused, Repick
<1>2. WrittenSoFar'
  BY DEF RegistersKnown, WrittenSoFar
<1>3. ShownKept' /\ SeenKept'
  BY <1>1 DEF RegistersKnown, ShownKept, SeenKept
<1> QED
  BY <1>2, <1>3 DEF RegistersKnown

(* Steps by which a picker lets go of the lock, and what it has written of  *)
(* another option than the one shown is marked.                             *)
LEMMA LockLetGo ==
  ASSUME InType, RegistersKnown, UNCHANGED <<shown, seen>>,
         \A p \in Pickers : ~Holder(p)',
         \A r \in Registers : Excused(r) => r \in moved',
         \A r \in Registers : hw'[r] = hw[r] \/ r \in moved'
  PROVE  RegistersKnown'
<1>1. WrittenSoFar'
  BY DEF WrittenSoFar
<1>2. ShownKept'
  <2> SUFFICES ASSUME shown # "unknown", NEW i \in 1..Len(Writes(shown))
               PROVE  hw'[Writes(shown)[i][1]] = Writes(shown)[i][2] \/ Writes(shown)[i][1] \in moved'
    BY DEF ShownKept, Excused
  <2>1. shown \in Options
    BY DEF InType, TypeOK
  <2>2. Writes(shown)[i][1] \in Registers
    BY <2>1, WritesFacts DEF IsWrite, Registers
  <2> QED
    BY <2>2 DEF RegistersKnown, ShownKept
<1>3. SeenKept'
  BY DEF RegistersKnown, SeenKept, Excused
<1> QED
  BY <1>1, <1>2, <1>3 DEF RegistersKnown

LEMMA PickKeepsRegisters ==
  ASSUME InType, RegistersKnown, NEW p \in Pickers, Pick(p)
  PROVE  RegistersKnown'
<1>0. TypeOK /\ PicksSound /\ pick \in [Pickers -> Picks] /\ hw \in Values
  BY DEF InType, TypeOK
<1>1. CASE TakeLock(p)
  <2>1. UNCHANGED <<hw, seen, shown, moved>> /\ \A q \in Pickers : ~Holder(q)
    BY <1>1 DEF TakeLock, device
  <2>2. \A r : Excused(r) => Excused(r)'
    BY <2>1 DEF Excused
  <2>3. ShownKept' /\ SeenKept'
    BY <2>1, <2>2 DEF RegistersKnown, ShownKept, SeenKept
  <2>4. \A q \in Pickers : Holder(q)' => pick'[q].next = 1
    BY <1>0, <1>1, <2>1 DEF TakeLock, PicksSound, NoPick, Holder, Picks
  <2>5. WrittenSoFar'
    BY <2>4 DEF WrittenSoFar
  <2> QED
    BY <2>3, <2>5 DEF RegistersKnown
<1>2. CASE SkipWrite(p)
  <2>0. Holder(p) /\ More(p) /\ pick[p].next \in 1..Len(Writes(pick[p].option))
    BY <1>0, <1>2, WriteFacts DEF SkipWrite, Holder
  <2>1. /\ \A q \in Pickers : q # p => pick'[q] = pick[q] /\ ~Holder(q)
        /\ pick'[p].at = "writing" /\ pick'[p].option = pick[p].option
        /\ pick'[p].next = pick[p].next + 1 /\ pick'[p].done = pick[p].done
    BY <1>0, <1>2, <2>0, HolderFacts DEF SkipWrite, Picks
  <2>2. UNCHANGED <<hw, seen, shown>> /\ moved \subseteq moved'
        /\ (hw[Write(p)[1]] = Write(p)[2] \/ Write(p)[1] \in moved')
    BY <1>2 DEF SkipWrite, Skipped
  <2>3. \A r : Excused(r) => Excused(r)'
    BY <2>1, <2>2 DEF Excused, Repick, Holder
  <2>4. ShownKept' /\ SeenKept'
    BY <2>2, <2>3 DEF RegistersKnown, ShownKept, SeenKept
  <2>5. WrittenSoFar'
    <3> SUFFICES ASSUME NEW i \in 1..Len(Writes(pick[p].option)), i < pick[p].next + 1
                 PROVE  \/ hw[Writes(pick[p].option)[i][1]] = Writes(pick[p].option)[i][2]
                        \/ Writes(pick[p].option)[i][1] \in moved'
      BY <2>1, <2>2 DEF WrittenSoFar, Holder
    <3>1. CASE i < pick[p].next
      BY <2>0, <2>2, <3>1 DEF RegistersKnown, WrittenSoFar
    <3>2. CASE i = pick[p].next
      BY <2>2, <3>2 DEF Write
    <3> QED
      BY <2>0, <3>1, <3>2
  <2> QED
    BY <2>4, <2>5 DEF RegistersKnown
<1>3. CASE IssueWrite(p)
  <2>1. \A q \in Pickers : Holder(q)' = Holder(q) /\ pick'[q].option = pick[q].option
                             /\ pick'[q].next = pick[q].next /\ pick'[q].done = pick[q].done
    BY <1>0, <1>3 DEF IssueWrite, Holder, Picks
  <2> QED
    BY <1>3, <2>1, UntouchedRegisters DEF IssueWrite, device
<1>4. CASE WriteAnswers(p)
  <2> DEFINE option == pick[p].option
  <2>0. Holder(p) /\ More(p) /\ pick[p].next \in 1..Len(Writes(option)) /\ Write(p)[1] \in Registers
    BY <1>0, <1>4, WriteFacts DEF WriteAnswers, PicksSound, Holder
  <2> PICK r1 \in Registers : r1 = Write(p)[1]
    BY <2>0
  <2>1. /\ \A q \in Pickers : q # p => pick'[q] = pick[q] /\ ~Holder(q)
        /\ pick'[p].at = "writing" /\ pick'[p].option = option
        /\ pick'[p].next = pick[p].next + 1 /\ pick'[p].done = pick[p].done \cup {r1}
    BY <1>0, <1>4, <2>0, HolderFacts DEF WriteAnswers, Picks
  <2>2. /\ hw'[r1] = Write(p)[2]
        /\ \A r \in Registers : r = r1 \/ r \in ResetBy(p) \/ hw'[r] = hw[r]
        /\ moved' = (moved \ {r1}) \cup ResetBy(p)
        /\ shown' = shown
        /\ \A r \in Registers : r = r1 \/ seen'[r] = seen[r]
    BY <1>0, <1>4, <2>0, EffectFacts DEF WriteAnswers, TypeOK
  <2>3. option \in Options /\ (shown = "unknown" => ~Repick(p))
    BY <2>0, HolderFacts
  <2>4. \A r \in Registers : r # r1 /\ Excused(r) => Excused(r)'
    <3>1. ASSUME NEW r \in Registers, r # r1, Excused(r) PROVE Excused(r)'
      <4>1. r \in moved \/ (~Repick(p) /\ r \in pick[p].done)
        BY <2>0, <3>1, HolderFacts
      <4> QED
        BY <2>1, <2>2, <3>1, <4>1 DEF Excused, Repick, Holder
    <3> QED
      BY <3>1
  <2>5. ~Repick(p) => Excused(r1)'
    <3>1. Holder(p)' /\ r1 \in pick'[p].done /\ (Repick(p)' => Repick(p))
      BY <2>1, <2>2 DEF Repick, Holder
    <3> QED
      BY <3>1 DEF Excused
  <2>6. \A r \in Registers : r \in ResetBy(p) => Excused(r)'
    BY <2>2 DEF Excused
  <2>7. ShownKept'
    <3> SUFFICES ASSUME shown # "unknown", NEW i \in 1..Len(Writes(shown)),
                        NEW r, r = Writes(shown)[i][1]
                 PROVE  hw'[r] = Writes(shown)[i][2] \/ Excused(r)'
      BY <2>2 DEF ShownKept, Excused
    <3>1. shown \in Options /\ r \in Registers
      <4>1. shown \in Options
        BY <1>0 DEF TypeOK
      <4> QED
        BY <4>1, WritesFacts DEF IsWrite, Registers
    <3>2. hw[r] = Writes(shown)[i][2] \/ Excused(r)
      BY DEF RegistersKnown, ShownKept
    <3>3. CASE r # r1
      BY <2>2, <2>4, <2>6, <3>1, <3>2, <3>3
    <3>4. CASE r = r1 /\ ~Repick(p)
      BY <2>5, <3>4
    <3>5. CASE r = r1 /\ Repick(p)
      <4>1. option = shown
        BY <3>5 DEF Repick
      <4>2. i = pick[p].next
        BY <2>0, <3>1, <3>5, <4>1, WritesFacts DEF Write
      <4> QED
        BY <2>2, <3>5, <4>1, <4>2 DEF Write
    <3> QED
      BY <3>3, <3>4, <3>5
  <2>8. SeenKept'
    <3> SUFFICES ASSUME shown = "unknown", NEW r \in Registers
                 PROVE  seen'[r] \in {hw'[r], "unreadable"} \/ Excused(r)'
      BY <2>2 DEF SeenKept
    <3>1. CASE r = r1
      BY <2>3, <2>5, <3>1
    <3>2. CASE r # r1
      <4>1. seen[r] \in {hw[r], "unreadable"} \/ Excused(r)
        BY DEF RegistersKnown, SeenKept
      <4> QED
        BY <2>2, <2>4, <2>6, <3>2, <4>1
    <3> QED
      BY <3>1, <3>2
  <2>9. WrittenSoFar'
    <3> SUFFICES ASSUME NEW i \in 1..Len(Writes(option)), i < pick[p].next + 1
                 PROVE  \/ hw'[Writes(option)[i][1]] = Writes(option)[i][2]
                        \/ Writes(option)[i][1] \in moved'
      BY <2>1 DEF WrittenSoFar, Holder
    <3>1. CASE i < pick[p].next
      <4>1. Writes(option)[i][1] \in Registers /\ Writes(option)[i][1] # r1
        BY <2>0, <2>3, <3>1, WritesFacts DEF Write, IsWrite, Registers
      <4>2. hw[Writes(option)[i][1]] = Writes(option)[i][2] \/ Writes(option)[i][1] \in moved
        BY <2>0, <3>1 DEF RegistersKnown, WrittenSoFar
      <4> QED
        BY <2>2, <4>1, <4>2
    <3>2. CASE i = pick[p].next
      BY <2>2, <3>2 DEF Write
    <3> QED
      BY <2>0, <3>1, <3>2
  <2> QED
    BY <2>7, <2>8, <2>9 DEF RegistersKnown
<1>5. CASE PickEnds(p)
  <2>0. Holder(p) /\ ~More(p) /\ pick[p].option \in Options
    BY <1>0, <1>5 DEF PickEnds, Holder, Picks
  <2>1. \A q \in Pickers : ~Holder(q)'
    BY <1>0, <1>5, <2>0, HolderFacts DEF PickEnds, NoPick, Holder
  <2>2. shown' = pick[p].option /\ hw' = hw /\ moved' = moved
    BY <1>5 DEF PickEnds
  <2>3. \A i \in 1..Len(Writes(pick[p].option)) : i < pick[p].next
    <3>1. pick[p].next \in Nat /\ Len(Writes(pick[p].option)) \in {2, 3}
      BY <1>0, <2>0, WritesFacts DEF Picks
    <3> QED
      BY <2>0, <3>1 DEF More
  <2>4. ShownKept'
    BY <2>0, <2>2, <2>3 DEF RegistersKnown, WrittenSoFar, ShownKept, Excused
  <2>5. SeenKept' /\ WrittenSoFar'
    BY <2>0, <2>1, <2>2 DEF SeenKept, WrittenSoFar, Options
  <2> QED
    BY <2>4, <2>5 DEF RegistersKnown
<1> QED
  BY <1>1, <1>2, <1>3, <1>4, <1>5 DEF Pick

LEMMA FailureKeepsRegisters ==
  ASSUME InType, RegistersKnown, CallTimesOut \/ \E p \in Pickers : WriteFails(p)
  PROVE  RegistersKnown'
<1>0. TypeOK /\ PicksSound /\ pick \in [Pickers -> Picks]
  BY DEF InType, TypeOK
<1>1. ASSUME NEW p \in Pickers, WriteFails(p)
      PROVE  RegistersKnown'
  <2>0. Holder(p) /\ More(p) /\ moved \subseteq moved' /\ Abandoned(p) \subseteq moved'
    BY <1>0, <1>1 DEF WriteFails, PicksSound, Holder
  <2>1. UNCHANGED <<shown, seen>> /\ \A q \in Pickers : ~Holder(q)'
    BY <1>0, <1>1, <2>0, HolderFacts DEF WriteFails, NoPick, Holder
  <2>2. \A r \in Registers : Excused(r) => r \in moved'
    BY <2>0, HolderFacts DEF Abandoned
  <2>3. \A r \in Registers : hw'[r] = hw[r] \/ r \in moved'
    BY <1>0, <1>1, <2>0, EffectFacts DEF WriteFails
  <2> QED
    BY <2>1, <2>2, <2>3, LockLetGo
<1>2. CASE CallTimesOut
  <2>1. \A q \in Pickers : Holder(q)' = Holder(q) /\ (Holder(q) => pick'[q] = pick[q])
    BY <1>0, <1>2 DEF CallTimesOut, NoPick, Holder
  <2> QED
    BY <1>2, <2>1, UntouchedRegisters DEF CallTimesOut, device
<1> QED
  BY <1>1, <1>2

LEMMA OthersKeepRegisters ==
  ASSUME InType, RegistersKnown, Reconcile \/ Poll \/ Advance \/ Edit \/ UserPicks \/ LinkDrops \/ OffAndOn
  PROVE  RegistersKnown'
<1>0. TypeOK /\ pick \in [Pickers -> Picks]
  BY DEF InType, TypeOK
<1>1. CASE LeaveEmpty \/ CannotTell \/ AlreadySo \/ Advance \/ Edit \/ OffAndOn
  BY <1>1, UntouchedRegisters DEF LeaveEmpty, CannotTell, AlreadySo, Advance, Edit, OffAndOn, device, Holder
<1>2. CASE CallSelect
  <2>1. \A q \in Pickers : Holder(q)' = Holder(q) /\ (Holder(q) => pick'[q] = pick[q])
    BY <1>0, <1>2 DEF CallSelect, Idle, Asked, Holder
  <2> QED
    BY <1>2, <2>1, UntouchedRegisters DEF CallSelect, device
<1>3. CASE UserPicks
  <2>1. \A q \in Pickers : Holder(q)' = Holder(q) /\ (Holder(q) => pick'[q] = pick[q])
    BY <1>0, <1>3 DEF UserPicks, Asked, Holder
  <2> QED
    BY <1>3, <2>1, UntouchedRegisters DEF UserPicks, device
<1>4. CASE Poll
  BY <1>4, UntouchedRegisters DEF Poll, Holder
<1>5. CASE LinkDrops
  <2>1. \A r \in Registers : seen'[r] \in {seen[r], "unreadable"}
    BY <1>0, <1>5 DEF LinkDrops, TypeOK
  <2> QED
    BY <1>5, <2>1, UntouchedRegisters DEF LinkDrops, Holder
<1> QED
  BY <1>1, <1>2, <1>3, <1>4, <1>5 DEF Reconcile

LEMMA DriftKeepsRegisters ==
  ASSUME InType, RegistersKnown, Drift
  PROVE  RegistersKnown'
<1>1. /\ UNCHANGED <<seen, shown, pick>> /\ moved \subseteq moved'
      /\ \A r \in Registers : hw'[r] = hw[r] \/ r \in moved'
  BY DEF Drift, InType, TypeOK, Values, Registers
<1>2. \A r : Excused(r) => Excused(r)'
  BY <1>1 DEF Excused, Repick, Holder
<1>3. \A r \in Registers : r \in moved' => Excused(r)'
  BY DEF Excused
<1>4. \A option \in Options : \A i \in 1..Len(Writes(option)) : Writes(option)[i][1] \in Registers
  BY WritesFacts DEF IsWrite, Registers
<1>5. WrittenSoFar'
  <2> SUFFICES ASSUME NEW p \in Pickers, Holder(p), NEW i \in 1..Len(Writes(pick[p].option)), i < pick[p].next
               PROVE  \/ hw'[Writes(pick[p].option)[i][1]] = Writes(pick[p].option)[i][2]
                      \/ Writes(pick[p].option)[i][1] \in moved'
    BY <1>1 DEF WrittenSoFar, Holder
  <2>1. Writes(pick[p].option)[i][1] \in Registers
    BY <1>4, HolderFacts
  <2> QED
    BY <1>1, <2>1 DEF RegistersKnown, WrittenSoFar
<1>6. ShownKept'
  <2> SUFFICES ASSUME shown # "unknown", NEW i \in 1..Len(Writes(shown)),
                      NEW r, r = Writes(shown)[i][1]
               PROVE  hw'[r] = Writes(shown)[i][2] \/ Excused(r)'
    BY <1>1 DEF ShownKept, Excused
  <2>1. r \in Registers
    BY <1>4 DEF InType, TypeOK
  <2>2. hw[r] = Writes(shown)[i][2] \/ Excused(r)
    BY DEF RegistersKnown, ShownKept
  <2> QED
    BY <1>1, <1>2, <1>3, <2>1, <2>2
<1>7. SeenKept'
  BY <1>1, <1>2, <1>3 DEF RegistersKnown, SeenKept
<1> QED
  BY <1>5, <1>6, <1>7 DEF RegistersKnown

LEMMA RestartKeepsRegisters ==
  ASSUME InType, RegistersKnown, Restart
  PROVE  RegistersKnown'
<1>1. UNCHANGED <<hw, seen>> /\ moved \subseteq moved'
  BY DEF Restart
<1>2. \A p \in Pickers : ~Holder(p)'
  BY DEF Restart, NoPick, Holder
<1>3. \A r \in Registers : Excused(r) => r \in moved'
  BY DEF Restart, Excused, Abandoned
<1>4. CASE shown' = shown
  BY <1>1, <1>2, <1>3, <1>4, LockLetGo
<1>5. CASE shown' # shown
  <2>1. shown = "unknown" /\ shown' \in Options /\ Holds(seen, shown')
    BY <1>5 DEF Restart
  <2>2. WrittenSoFar' /\ SeenKept'
    BY <1>2, <2>1 DEF WrittenSoFar, SeenKept, Options
  <2>3. ShownKept'
    <3> SUFFICES ASSUME NEW option, option = shown', NEW i \in 1..Len(Writes(option))
                 PROVE  hw[Writes(option)[i][1]] = Writes(option)[i][2] \/ Writes(option)[i][1] \in moved'
      BY <1>1 DEF ShownKept, Excused
    <3>1. Writes(option)[i][1] \in Registers /\ Writes(option)[i][2] # "unreadable"
      BY <2>1, WritesFacts DEF IsWrite, Registers
    <3>2. seen[Writes(option)[i][1]] = Writes(option)[i][2]
      BY <2>1 DEF Holds, WritesOf
    <3> QED
      BY <1>3, <2>1, <3>1, <3>2 DEF RegistersKnown, SeenKept
  <2> QED
    BY <2>2, <2>3 DEF RegistersKnown
<1> QED
  BY <1>4, <1>5

-----------------------------------------------------------------------------
InverterInv == InType /\ MemoryKnows /\ RegistersKnown

LEMMA InverterStepKeeps ==
  ASSUME InverterInv, [Next]_vars
  PROVE  InverterInv'
<1>1. InType'
  BY StepInType DEF InverterInv
<1>2. CASE Next
  <2>1. MemoryKnows'
    BY <1>2, ReconcileRemembers, PickRemembers, FailureRemembers, SurroundingsRemember DEF InverterInv, Next
  <2>2. RegistersKnown'
    BY <1>2, PickKeepsRegisters, FailureKeepsRegisters, OthersKeepRegisters, DriftKeepsRegisters,
       RestartKeepsRegisters DEF InverterInv, Next
  <2> QED
    BY <1>1, <2>1, <2>2 DEF InverterInv
<1>3. CASE UNCHANGED vars
  <2>1. MemoryKnows'
    BY <1>3 DEF vars, executor, InverterInv, MemoryKnows, NoOverrideLeft, RequiresStop, Idle
  <2>2. RegistersKnown'
    BY <1>3, UntouchedRegisters DEF vars, device, InverterInv, Holder
  <2> QED
    BY <1>1, <2>1, <2>2 DEF InverterInv
<1> QED
  BY <1>2, <1>3

LEMMA InitKnows == Init => InverterInv
<1> SUFFICES ASSUME Init PROVE InverterInv
  OBVIOUS
<1>1. InType
  BY InitInType
<1>2. MemoryKnows
  BY DEF Init, MemoryKnows, NoAttempt, NoMemory, NoOverrideLeft, RequiresStop
<1>3. WrittenSoFar /\ SeenKept
  BY DEF Init, WrittenSoFar, SeenKept, NoPick, Holder
<1>4. ShownKept
  BY StartAssumption DEF Init, ShownKept, Holds, WritesOf
<1> QED
  BY <1>1, <1>2, <1>3, <1>4 DEF InverterInv, RegistersKnown

LEMMA InverterInvHolds == Spec => []InverterInv
BY InitKnows, InverterStepKeeps, PTL DEF Spec

(* The registers are those of the one option shown while nobody picks, and  *)
(* no override is left behind a successful empty slot.                      *)
THEOREM InverterSound == Spec => []InverterInvariant
<1>1. InverterInv => ShownIsOneOption
  <2> SUFFICES ASSUME InverterInv, shown # "unknown", \A p \in Pickers : ~Holder(p),
                      NEW i \in 1..Len(Writes(shown))
               PROVE  hw[Writes(shown)[i][1]] = Writes(shown)[i][2] \/ Writes(shown)[i][1] \in moved
    BY DEF ShownIsOneOption, WritesOf
  <2> QED
    BY DEF InverterInv, RegistersKnown, ShownKept, Excused
<1>2. InverterInv => InverterInvariant
  BY <1>1 DEF InverterInv, InType, MemoryKnows, InverterInvariant
<1> QED
  BY <1>2, InverterInvHolds, PTL

(* An empty slot moves the inverter only out of an override of Helman's. *)
THEOREM StopsOnlyOwnOverrides == Spec => OnlyOwnOverridesStopped
<1>1. InverterInv /\ [Next]_vars
        => [Idle /\ pick'["executor"].at = "waiting" /\ plan[slot] = "empty" => applied = "override"]_vars
  <2> SUFFICES ASSUME InverterInv, Next, Idle, pick'["executor"].at = "waiting", plan[slot] = "empty"
               PROVE  applied = "override"
    BY DEF vars
  <2>1. CallSelect
    <3>1. "executor" \in Pickers /\ pick \in [Pickers -> Picks]
      BY DEF Pickers, InverterInv, InType, TypeOK
    <3>2. ASSUME NEW p \in Pickers, Pick(p) \/ WriteFails(p) PROVE FALSE
      BY <3>1, <3>2 DEF Idle, Pick, TakeLock, SkipWrite, IssueWrite, WriteAnswers, PickEnds, WriteFails, NoPick,
         Picks
    <3>3. ~CallTimesOut
      BY DEF Idle, CallTimesOut
    <3>4. ~(Poll \/ Advance \/ Edit \/ UserPicks \/ Drift \/ LinkDrops \/ Restart \/ OffAndOn)
      BY <3>1 DEF Idle, Poll, Advance, Edit, UserPicks, Drift, LinkDrops, Restart, OffAndOn, NoPick
    <3> QED
      BY <3>2, <3>3, <3>4 DEF Next, Reconcile, LeaveEmpty, CannotTell, AlreadySo, Idle
  <2> QED
    BY <2>1 DEF CallSelect, ToDo, InverterInv, MemoryKnows
<1> QED
  BY <1>1, InverterInvHolds, PTL DEF Spec, OnlyOwnOverridesStopped
=============================================================================
