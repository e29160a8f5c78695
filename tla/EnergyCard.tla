------------------------------ MODULE EnergyCard ------------------------------
(***************************************************************************)
(* The host every energy card is built on (energy-card-host.ts): it loads  *)
(* the device tree, then the history, then the inverter's overview, over   *)
(* reads the tab's cards share, runs one history engine, and passes on     *)
(* only the pushes of hass that touch what it watches.  Data is its        *)
(* version, from 1; 0 is nothing yet.                                      *)
(***************************************************************************)
EXTENDS Integers

CONSTANTS MaxConfigs, MaxPushes, MaxLoads, MaxTurns     \* bounds

VARIABLES config,               \* at the backend
          card,
          pushed                \* Home Assistant's states, by what a card draws of them

cardVars == <<config, card, pushed>>

Wanted    == {"tree", "history", "inverter"}
Entities == {"power", "cell", "detail"}         \* of the tree, of the inverter, of the open detail

CardInit ==
    /\ config = 1
    /\ pushed = [e \in Entities |-> 0]
    /\ card = [connected |-> FALSE, known |-> FALSE,            \* _latestHass
               generation |-> 0, turn |-> 0,                    \* _loadGeneration, _inverterGeneration
               tree |-> 0, inverter |-> 0, failed |-> FALSE,
               engine |-> 0, engines |-> {},                    \* _historyEngine, and all that run
               watched |-> {}, shown |-> pushed,                \* _watchedEntityIds, the readings
               open |-> FALSE, announced |-> FALSE,             \* _dialogRequest, its source of _watchSources
               joined |-> [what \in Wanted |-> 0], reads |-> {}, \* the store's _inFlight
               calls |-> {}, count |-> 0,
               told |-> 1, renewed |-> 1, missed |-> {}]

----------------------------------------------------------------------------
\* A read of the store's, joined if one is under way; a fresh one never is.
Joins(c, call, fresh) ==
    LET new == fresh \/ c.joined[call.what] = 0
        id  == IF new THEN c.count + 1 ELSE c.joined[call.what]
    IN  [c EXCEPT !.count = IF new THEN id ELSE @, !.joined[call.what] = id,
                  !.reads = IF new THEN @ \union {[id |-> id, what |-> call.what, at |-> config]} ELSE @,
                  !.calls = @ \union {[call EXCEPT !.read = id]}]

Call(what, turn, fresh, retry, tree) ==
    [what |-> what, turn |-> turn, fresh |-> fresh, retry |-> retry, tree |-> tree, read |-> 0]

\* loadBackendData, up to its first read.
LoadsBackend(c, fresh, retry) ==
    Joins([c EXCEPT !.generation = @ + 1], Call("tree", c.generation + 1, fresh, retry, 0), fresh)

Watches(c) ==
    [c EXCEPT !.watched = (IF c.tree > 0 THEN {"power"} ELSE {}) \union (IF c.inverter > 0 THEN {"cell"} ELSE {})
                          \union (IF c.announced THEN {"detail"} ELSE {})]
Adopts(c) == [c EXCEPT !.shown = pushed]

\* ... and once both are in.  An open device's detail announces itself anew.
Installed(c, call) ==
    LET installed == [c EXCEPT !.tree = call.tree, !.failed = FALSE, !.missed = @ \ {"tree"},
                               !.engines = (@ \ {c.engine}) \union {call.turn}, !.engine = call.turn,
                               !.announced = FALSE, !.turn = @ + 1,
                               !.renewed = IF call.fresh THEN c.told ELSE @]
    IN  Joins(Watches(Adopts(installed)), Call("inverter", c.turn + 1, call.fresh, FALSE, 0), call.fresh)

Current(c, call) == c.connected /\ call.turn = IF call.what = "inverter" THEN c.turn ELSE c.generation

CallAnswered(c, call, data) ==
    CASE call.what = "tree"     -> Joins(c, [call EXCEPT !.what = "history", !.tree = data], call.fresh)
      [] call.what = "history"  -> Installed(c, call)
      [] call.what = "inverter" -> Adopts(Watches([c EXCEPT !.inverter = data, !.missed = @ \ {"inverter"}]))

CallFailed(c, call) ==
    LET missed == [c EXCEPT !.missed = @ \union {IF call.what = "inverter" THEN "inverter" ELSE "tree"}]
    IN  IF call.what = "inverter" \/ c.engine # 0 THEN missed
        ELSE IF call.fresh /\ call.retry THEN LoadsBackend(missed, TRUE, FALSE)
        ELSE [missed EXCEPT !.failed = TRUE]

\* Of the calls that await the read, one the card has given up on does nothing more;
\* no two of the others await the same.
StoreAnswers(r) ==
    /\ LET callers == {call \in card.calls : call.read = r.id}
           current == {call \in callers : Current(card, call)}
           over    == [card EXCEPT !.reads = @ \ {r}, !.calls = @ \ callers,
                                   !.joined[r.what] = IF @ = r.id THEN 0 ELSE @]
       IN  \/ current = {} /\ card' = over
           \/ \E call \in current, data \in r.at..config : card' = CallAnswered(over, call, data)
           \/ \E call \in current : card' = CallFailed(over, call)
    /\ UNCHANGED <<config, pushed>>

----------------------------------------------------------------------------
Connects ==
    /\ ~card.connected
    /\ card' = LET here == [card EXCEPT !.connected = TRUE] IN IF card.known THEN LoadsBackend(here, FALSE, TRUE) ELSE here
    /\ UNCHANGED <<config, pushed>>
Disconnects ==
    /\ card.connected
    /\ card' = [card EXCEPT !.connected = FALSE, !.generation = @ + 1, !.turn = @ + 1, !.engines = @ \ {card.engine}]
    /\ UNCHANGED <<config, pushed>>

ConfigChanges == config < MaxConfigs /\ config' = config + 1 /\ UNCHANGED <<card, pushed>>
ConfigTold ==
    /\ card.connected /\ card.known /\ card.told < config
    /\ card' = LoadsBackend([card EXCEPT !.told = config], TRUE, TRUE)
    /\ UNCHANGED <<config, pushed>>

\* setHass: nothing watched yet passes everything on.
Pushed(e) ==
    /\ pushed[e] < MaxPushes
    /\ pushed' = [pushed EXCEPT ![e] = @ + 1]
    /\ LET first  == ~card.known
           known  == [card EXCEPT !.known = TRUE]
           loads  == IF first /\ card.connected THEN LoadsBackend(known, FALSE, TRUE) ELSE known
       IN  card' = IF first \/ card.watched = {} \/ e \in card.watched THEN [loads EXCEPT !.shown = pushed'] ELSE loads
    /\ UNCHANGED config

TurnsDetail(open) ==
    /\ card.tree > 0 /\ card.open # open
    /\ card' = Adopts(Watches([card EXCEPT !.open = open, !.announced = FALSE]))
    /\ UNCHANGED <<config, pushed>>
DetailAnnounces ==
    /\ card.open /\ ~card.announced
    /\ card' = Adopts(Watches([card EXCEPT !.announced = TRUE]))
    /\ UNCHANGED <<config, pushed>>

\* Another card of the tab loads too.
OtherCardReads(what) ==
    /\ card.joined[what] = 0
    /\ card' = [card EXCEPT !.count = @ + 1, !.joined[what] = card.count + 1,
                            !.reads = @ \union {[id |-> card.count + 1, what |-> what, at |-> config]}]
    /\ UNCHANGED <<config, pushed>>

CardNext ==
    \/ /\ card.count < MaxLoads /\ card.generation < MaxTurns
       /\ \/ Connects \/ Disconnects \/ ConfigChanges \/ ConfigTold \/ DetailAnnounces
          \/ \E e \in Entities : Pushed(e)
          \/ \E open \in BOOLEAN : TurnsDetail(open)
          \/ \E what \in Wanted : OtherCardReads(what)
    \/ \E r \in card.reads : StoreAnswers(r)

CardSpec == CardInit /\ [][CardNext]_cardVars
----------------------------------------------------------------------------
StillLoading(kinds) == \E call \in card.calls : call.what \in kinds /\ Current(card, call)

CardTypeOK ==
    /\ card.watched \subseteq Entities /\ card.missed \subseteq {"tree", "inverter"}
    /\ card.tree \in 0..config /\ card.inverter \in 0..config

\* One engine at most, and none behind a card that is out of the page.
OneEngine == card.engines \subseteq {card.engine} /\ (~card.connected => card.engines = {})

\* A card in the page with nothing to show is loading, or says that it failed.
NeverBlank ==
    card.connected /\ card.known /\ card.engine = 0 => card.failed \/ StillLoading({"tree", "history"})

\* At rest it shows what was announced to it, with its engine running, or its last load failed.
CardCatchesUp ==
    card.connected /\ card.engine # 0 /\ ~StillLoading(Wanted) /\ "tree" \notin card.missed =>
        /\ card.tree >= card.told /\ card.engines = {card.engine}
        /\ "inverter" \in card.missed \/ card.inverter >= card.renewed

\* What it draws of Home Assistant's states is as they are.
DrawsLatest ==
    \A e \in Entities :
        \/ e = "power" /\ card.tree > 0
        \/ e = "cell" /\ card.inverter > 0
        \/ e = "detail" /\ card.announced
        => card.shown[e] = pushed[e]

CardInvariant == CardTypeOK /\ OneEngine /\ NeverBlank /\ CardCatchesUp /\ DrawsLatest
=============================================================================
