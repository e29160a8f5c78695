----------------------------- MODULE SharedStore -----------------------------
(***************************************************************************)
(* What a tab keeps of the house for all its views (shared/data/store.ts): *)
(* the roster of controllables, which a config event empties, and the      *)
(* record of what the automation decided for a lane and a day, which any   *)
(* event empties.  One read of each is on its way at a time, and whoever   *)
(* asks meanwhile joins it.  Four readers: the badges, a Control view's    *)
(* lanes, the day editor's host, and its Explain mode.  Data is its        *)
(* version; an answer carries the one of a moment since it was asked for.  *)
(***************************************************************************)
EXTENDS Integers

CONSTANTS Unread,
          MaxNews, MaxVisits    \* bounds on the events, and on mounts and retries

ASSUME UnreadAssumption == Unread \notin Nat

VARIABLES versions,             \* at the server
          announced,                \* what the tab has been told of
          shared,               \* the store, the reads and what the readers show
          visits

storeVars == <<versions, announced, shared, visits>>

Data == {"roster", "records"}
Readers == {"badges", "lanes", "host", "explain"}
DataOf(who) == IF who = "explain" THEN "records" ELSE "roster"

StoreInit ==
    /\ versions = [what \in Data |-> 0] /\ announced = versions
    /\ shared = [kept   |-> [what \in Data |-> Unread],   \* _roster, _explanations
                 joined |-> [what \in Data |-> 0],        \* _rosterRequest, _inFlight: the read to join
                 turn   |-> [what \in Data |-> 0],        \* _rosterGeneration, _explanationGeneration
                 opened |-> 0,                            \* the Explain mode's own generation
                 reads  |-> {}, count |-> 0,
                 calls  |-> {},                           \* who awaits which read, and may ask how often again
                 seen   |-> [who \in Readers |-> Unread],
                 missed |-> [who \in Readers |-> FALSE],  \* the last read failed
                 mounted |-> {}]
    /\ visits = 0

\* An Explain that has begun anew awaits its earlier read no more.
Awaiting(s, callers) == {call.who : call \in {c \in callers : c.who = "explain" => c.opened = s.opened}}

\* (The faulty variant for the mutant: an Explain that has begun anew is given it too.)
GivenAnyway(s, callers, version) ==
    LET given == {call.who : call \in callers}
    IN  [s EXCEPT !.seen = [who \in Readers |-> IF who \in given THEN version ELSE @[who]],
                  !.missed = [who \in Readers |-> @[who] /\ who \notin given]]

\* The readers that await it are given a version.
Given(s, callers, version) ==
    LET given == Awaiting(s, callers)
    IN  [s EXCEPT !.seen = [who \in Readers |-> IF who \in given THEN version ELSE @[who]],
                  !.missed = [who \in Readers |-> @[who] /\ who \notin given]]

\* Only the host shows nothing after a failed read; the others go on.
Refused(s, callers) ==
    LET refused == Awaiting(s, callers)
    IN  [s EXCEPT !.missed = [who \in Readers |-> @[who] \/ who \in refused],
                  !.seen["host"] = IF "host" \in refused THEN Unread ELSE @]

\* getControllableRoster, getScheduleExplanation, for callers of one kind of data:
\* what is kept, or the read under way, or a new one, which they all join.
Asks(s, what, callers) ==
    LET new  == s.joined[what] = 0
        id   == IF new THEN s.count + 1 ELSE s.joined[what]
    IN  IF callers = {} THEN s
        ELSE IF s.kept[what] # Unread THEN Given(s, callers, s.kept[what])
        ELSE [s EXCEPT !.calls = @ \union {[call EXCEPT !.read = id] : call \in callers},
                       !.joined[what] = id, !.count = IF new THEN id ELSE @,
                       !.reads = IF new THEN @ \union {[id |-> id, what |-> what, at |-> versions[what],
                                                        turn |-> s.turn[what]]}
                                 ELSE @]
AskedBy(s, what, readers) ==
    Asks(s, what, {[who |-> who, read |-> 0, opened |-> s.opened, again |-> 0] : who \in readers})

----------------------------------------------------------------------------
HouseChanges(data) ==
    /\ versions["records"] < MaxNews
    /\ versions' = [what \in Data |-> IF what \in data THEN versions[what] + 1 ELSE versions[what]]
    /\ UNCHANGED <<announced, shared, visits>>

\* An event empties what it is about.  The badges, the host and Explain then show
\* nothing until the new version is in; the lanes go on with the old one.
Emptied(s, what) ==
    LET listening == {who \in s.mounted : DataOf(who) = what}
        emptied   == [s EXCEPT !.kept[what] = Unread, !.joined[what] = 0, !.turn[what] = @ + 1,
                               !.opened = IF "explain" \in listening THEN @ + 1 ELSE @,
                               !.seen = [who \in Readers |-> IF who \in listening \ {"lanes"} THEN Unread ELSE @[who]],
                               !.missed = [who \in Readers |-> @[who] /\ who \notin listening]]
    IN  AskedBy(emptied, what, listening)

StoreTold ==
    /\ announced # versions
    /\ announced' = versions
    /\ shared' = Emptied(IF announced["roster"] = versions["roster"] THEN shared ELSE Emptied(shared, "roster"), "records")
    /\ UNCHANGED <<versions, visits>>

----------------------------------------------------------------------------
\* (The faulty variant for the mutant: what was asked for before the event is kept.)
OfThisTurnAnyway(r) == r.turn <= shared.turn[r.what]
OfThisTurn(r) == r.turn = shared.turn[r.what]

AskingAgain(callers, n) == {[call EXCEPT !.again = @ + n] : call \in callers}

\* A caller whose read is one asked for behind an overtaken answer asks again when
\* that read fails: its failure reaches the catch of the read that was overtaken.
Failed(s, what, callers) ==
    LET asking == {call \in callers : call.again > 0}
    IN  Asks(Refused(s, callers \ asking), what, AskingAgain(asking, -1))

Served(s, what, callers, ok, version) ==
    IF ok THEN Given(s, callers, version) ELSE Failed(s, what, callers)

\* An overtaken roster, or its failure, is not handed out: the callers ask again.
\* An overtaken record is, but not kept.
ReadAnswered(r) ==
    \E ok \in BOOLEAN, version \in r.at..versions[r.what] :
        LET callers == {call \in shared.calls : call.read = r.id}
            over == [shared EXCEPT !.reads = @ \ {r}, !.calls = @ \ callers,
                                   !.joined[r.what] = IF @ = r.id THEN 0 ELSE @]
            keeping == [over EXCEPT !.kept[r.what] = IF ok /\ OfThisTurn(r) THEN version ELSE @]
        IN  /\ shared' = IF r.what = "roster" /\ ~OfThisTurn(r)
                         THEN Asks(over, "roster", IF ok THEN AskingAgain(callers, 1) ELSE callers)
                         ELSE Served(keeping, r.what, callers, ok, version)
            /\ UNCHANGED <<versions, announced, visits>>

----------------------------------------------------------------------------
(* The readers come and go; a schedule that changes under badges without a        *)
(* roster is their next try.                                                   *)
ReaderMounts(who) ==
    LET here == [shared EXCEPT !.mounted = @ \union {who}]
    IN  /\ who \notin shared.mounted
        /\ shared' = IF who # "explain" THEN AskedBy(here, "roster", {who})
                     ELSE AskedBy([here EXCEPT !.opened = @ + 1, !.seen["explain"] = Unread,
                                               !.missed["explain"] = FALSE], "records", {"explain"})
ReaderUnmounts(who) == who \in shared.mounted /\ shared' = [shared EXCEPT !.mounted = @ \ {who}]
BadgesRetry   == "badges" \in shared.mounted /\ shared.seen["badges"] = Unread /\ shared' = AskedBy(shared, "roster", {"badges"})

StoreVisits ==
    /\ visits < MaxVisits /\ visits' = visits + 1 /\ UNCHANGED <<versions, announced>>
    /\ (\E who \in Readers : ReaderMounts(who) \/ ReaderUnmounts(who)) \/ BadgesRetry

StoreNext ==
    \/ HouseChanges({"records"}) \/ HouseChanges(Data) \/ StoreTold \/ StoreVisits
    \/ \E r \in shared.reads : ReadAnswered(r)

StoreSpec == StoreInit /\ [][StoreNext]_storeVars
----------------------------------------------------------------------------
StoreTypeOK ==
    /\ \A r \in shared.reads : r.id \in 1..shared.count /\ r.at \in 0..versions[r.what]
    /\ \A what \in Data : shared.kept[what] \in {Unread} \union 0..versions[what]

\* The store keeps nothing older than what was announced, and has at most one read
\* of this turn on its way, the one to join.
KeepsWhatIsCurrent ==
    \A what \in Data :
        /\ shared.kept[what] # Unread => shared.kept[what] >= announced[what] /\ shared.joined[what] = 0
        /\ \A r \in shared.reads : r.what = what /\ OfThisTurn(r) => r.id = shared.joined[what]

\* Once nothing is on its way, a reader in the page shows what was announced, or its
\* last read failed.
ReadersCatchUp ==
    shared.reads = {} =>
        \A who \in shared.mounted :
            shared.missed[who] \/ (shared.seen[who] # Unread /\ shared.seen[who] >= announced[DataOf(who)])

StoreInvariant == StoreTypeOK /\ KeepsWhatIsCurrent /\ ReadersCatchUp

\* No reader in the page is given a version behind what was announced, or behind its own last.
GivenOnlyCurrent ==
    [][\A who \in shared.mounted :
          LET now == shared.seen'[who]
          IN  now # shared.seen[who] /\ now # Unread
                => now >= announced[DataOf(who)] /\ (shared.seen[who] # Unread => now >= shared.seen[who])]_storeVars
=============================================================================
