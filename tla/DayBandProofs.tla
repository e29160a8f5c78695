---------------------------- MODULE DayBandProofs ----------------------------
(***************************************************************************)
(* The day editor and its band, for any lanes, horizon, actions, pointers  *)
(* and schedules, and any number of presses.  First what the band draws:   *)
(* runs of equal slots between edges.  Then each method of the editor, and *)
(* what it leaves of the draft, the edges and the session.  Then the band  *)
(* with its presses, and the theorems.                                     *)
(***************************************************************************)
EXTENDS DayBand, FiniteSetTheorems, WellFoundedInduction, TLAPS
----------------------------------------------------------------------------
LEMMA LargerOfTwo ==
  \A a, b \in Int : Max({a, b}) = IF a >= b THEN a ELSE b
<1> TAKE a, b \in Int
<1> DEFINE m == IF a >= b THEN a ELSE b
<1>1. m \in {a, b} /\ \A y \in {a, b} : m >= y
  OBVIOUS
<1>2. \A x \in {a, b} : (\A y \in {a, b} : x >= y) => x = m
  OBVIOUS
<1> HIDE DEF m
<1>3. Max({a, b}) = m
  BY <1>1, <1>2 DEF Max
<1> QED
  BY <1>3 DEF m

LEMMA SmallerOfTwo ==
  \A a, b \in Int : Min({a, b}) = IF a <= b THEN a ELSE b
<1> TAKE a, b \in Int
<1> DEFINE m == IF a <= b THEN a ELSE b
<1>1. m \in {a, b} /\ \A y \in {a, b} : m <= y
  OBVIOUS
<1>2. \A x \in {a, b} : (\A y \in {a, b} : x <= y) => x = m
  OBVIOUS
<1> HIDE DEF m
<1>3. Min({a, b}) = m
  BY <1>1, <1>2 DEF Min
<1> QED
  BY <1>3 DEF m

LEMMA ClampIs ==
  ASSUME NEW x \in Int, NEW low \in Int, NEW high \in Int
  PROVE  Clamp(x, low, high) = IF x <= high THEN (IF x >= low THEN x ELSE low)
                               ELSE IF high >= low THEN high ELSE low
<1> DEFINE m == Min({x, high})
<1>1. m = IF x <= high THEN x ELSE high
  BY SmallerOfTwo
<1>2. Clamp(x, low, high) = Max({m, low})
  BY DEF Clamp
<1> HIDE DEF m
<1>3. Max({m, low}) = IF m >= low THEN m ELSE low
  BY <1>1, LargerOfTwo
<1> QED
  BY <1>1, <1>2, <1>3

----------------------------------------------------------------------------
(* What the band draws.                                                      *)

Assigned == [by : {"user", "automation"}, act : Actions]
Schedules == [Lanes -> [Slots -> Assignments]]
Grounded == now \in Slots /\ baseline \in Schedules /\ stored \in Schedules

LEMMA AssignmentsAre ==
  /\ Assignments = Assigned \union {NoAct}
  /\ NoAct \notin Assigned
  /\ \A a \in Actions : /\ User(a) \in Assigned /\ User(a).by = "user" /\ User(a).act = a
                        /\ Automation(a) \in Assigned
  /\ \A x \in Assigned : x.by = "user" => x = User(x.act) /\ x.act \in Actions
BY NoActAssumption DEF Assignments, Assigned, User, Automation

LEMMA SlotsAre ==
  /\ NSlots \in Nat /\ NSlots > 0
  /\ \A s : s \in Slots <=> s \in Int /\ 0 <= s /\ s < NSlots
BY EditorBounds DEF Slots

LEMMA WhatIsShown ==
  ASSUME Grounded, NEW l \in Lanes, NEW d \in Drafts, NEW s \in Slots
  PROVE  ShownIn(l, d, s) \in Assignments
BY AssignmentsAre, NoActAssumption DEF Grounded, Schedules, Drafts, ShownIn

(* Two slots belong together on the band; a block is a stretch that does.    *)
Joined(l, d, splits, k) == Agree(l, d, k) /\ k \notin splits
IsBlock(l, d, splits, from, to) ==
  /\ from \in Slots /\ to \in 0..NSlots /\ from < to
  /\ ShownIn(l, d, from) # NoAct
  /\ \A k \in (from + 1)..(to - 1) : Joined(l, d, splits, k)
  /\ ~Joined(l, d, splits, from) /\ ~Joined(l, d, splits, to)

LEMMA BlocksAre ==
  ASSUME NEW l, NEW d, NEW splits
  PROVE  Blocks(l, d, splits) = {b \in Ranges : IsBlock(l, d, splits, b.from, b.to)}
<1>1. ASSUME NEW b \in Ranges, b.from < b.to
      PROVE  b.from \in Slots /\ b.to \in 0..NSlots
  BY <1>1, SlotsAre DEF Ranges
<1> QED
  BY <1>1 DEF Blocks, IsBlock, Joined

(* A block shows the same in all its slots.                                  *)
LEMMA BlockIsOfOne ==
  ASSUME Grounded, NEW l, NEW d, NEW splits, NEW from, NEW to,
         IsBlock(l, d, splits, from, to), NEW s \in from..(to - 1)
  PROVE  s \in Slots /\ ShownIn(l, d, s) = ShownIn(l, d, from)
<1> DEFINE others == {k \in Nat : k >= from /\ k < to /\ ShownIn(l, d, k) # ShownIn(l, d, from)}
<1>1. from \in Nat /\ to \in Nat /\ to <= NSlots /\ s \in Slots
  BY SlotsAre DEF IsBlock
<1>2. SUFFICES others = {}
  BY <1>1, <1>2, SlotsAre
<1>3. SUFFICES ASSUME others # {} PROVE FALSE
  OBVIOUS
<1>4. PICK k \in others : \A other \in others : ~(other < k)
  <2>1. others \in SUBSET Nat
    OBVIOUS
  <2>2. \E x \in others : \A y \in others : ~(<<y, x>> \in OpToRel(<, Nat))
    BY <1>3, <2>1, WFMin, NatLessThanWellFounded
  <2> QED
    BY <2>1, <2>2 DEF OpToRel
<1>5. k \in Nat /\ k > from /\ k < to
  BY <1>1, <1>4
<1>6. ShownIn(l, d, k - 1) = ShownIn(l, d, from)
  BY <1>1, <1>4, <1>5
<1>7. ShownIn(l, d, k - 1) = ShownIn(l, d, k)
  BY <1>1, <1>5 DEF IsBlock, Joined, Agree
<1> QED
  BY <1>4, <1>6, <1>7

(* Two drafts that show the same have the same blocks, if the edges differ in *)
(* nothing that holds apart.                                                 *)
LEMMA SameBlocks ==
  ASSUME Grounded, NEW l, NEW c, NEW d, NEW these, NEW those,
         \A s \in Slots : ShownIn(l, c, s) = ShownIn(l, d, s),
         \A k \in 1..(NSlots - 1) : Agree(l, d, k) => (k \in these <=> k \in those)
  PROVE  HorizonBlocks(l, c, these) = HorizonBlocks(l, d, those)
<1>1. \A k : Agree(l, c, k) <=> Agree(l, d, k)
  BY SlotsAre DEF Agree
<1>2. \A k : Joined(l, c, these, k) <=> Joined(l, d, those, k)
  BY <1>1 DEF Joined, Agree
<1>3. \A from, to : IsBlock(l, c, these, from, to) <=> IsBlock(l, d, those, from, to)
  BY <1>2 DEF IsBlock
<1>4. Blocks(l, c, these) = Blocks(l, d, those)
  BY <1>3, BlocksAre
<1>5. \A b \in Blocks(l, d, those) : ShownIn(l, c, b.from) = ShownIn(l, d, b.from)
  BY BlocksAre DEF IsBlock
<1> QED
  BY <1>4, <1>5 DEF HorizonBlocks

LEMMA PruneKeeps ==
  ASSUME NEW l, NEW d, NEW splits
  PROVE  /\ Prune(l, d, splits) \subseteq splits
         /\ \A k : k \in Prune(l, d, splits) <=> k \in splits /\ Agree(l, d, k)
         /\ (\A k \in splits : Agree(l, d, k)) <=> splits = Prune(l, d, splits)
BY DEF Prune
----------------------------------------------------------------------------
(* The editor.                                                               *)

EdgesHold(e) == \A l \in Lanes : \A k \in e.edges[l] : Agree(l, e.drafts[l], k)

(* What a session was opened on is a block of the user's as it then was, from *)
(* its start or from the slot that ran then.                                 *)
OpenedOn(l, d, splits, s) ==
  \E from \in Slots :
    /\ IsBlock(l, d, splits, from, s.origin.to)
    /\ ShownIn(l, d, from).by = "user"
    /\ from <= s.origin.from /\ s.origin.from < s.origin.to
    /\ s.clamped = TRUE => s.origin.from <= now
    /\ s.clamped = FALSE => s.origin.from = from

BeforeStands(e, s) ==
  /\ \A l \in Lanes : l # e.lane => e.before.edges[l] = e.edges[l]
  /\ \A k \in e.before.edges[e.lane] : Agree(e.lane, e.before.draft, k)
  /\ s.origin # NoAct => OpenedOn(e.lane, e.before.draft, e.before.edges[e.lane], s)

SessionStands(e) ==
  e.session # NoAct => e.lane \in Lanes /\ e.session.from < e.session.to /\ BeforeStands(e, e.session)

EditorSound(e) ==
  /\ e \in Editors /\ EdgesHold(e) /\ SessionStands(e)
  /\ e.picked # NoAct => e.lane \in Lanes /\ e.picked.is # NoAct

LEMMA PlacedIsADraft ==
  ASSUME NEW d \in Drafts, NEW l \in Lanes, NEW origin \in Ranges \union {NoAct}
  PROVE  /\ Free(l, d, origin) \in Drafts
         /\ FreeOrigin(l, d, origin) \in Drafts
         /\ \A r : \A a \in Actions : Place(l, d, origin, r, a) \in Drafts
<1>1. Free(l, d, origin) \in Drafts
  BY NoActAssumption DEF Drafts, Free
<1>2. FreeOrigin(l, d, origin) \in Drafts
  BY <1>1 DEF FreeOrigin
<1>3. ASSUME NEW r, NEW a \in Actions PROVE Place(l, d, origin, r, a) \in Drafts
  BY <1>2 DEF Drafts, Place
<1> QED
  BY <1>1, <1>2, <1>3

(* A draft that takes another's place in its lane leaves the lane's edges that *)
(* still hold runs apart.                                                    *)
LEMMA DraftTakesPlace ==
  ASSUME NEW e \in Editors, e.lane \in Lanes, NEW d \in Drafts
  PROVE  LET w == WithDraft(e, d) IN
         /\ w \in Editors /\ w.lane = e.lane /\ w.session = e.session /\ w.before = e.before
         /\ w.picked = e.picked
         /\ w.drafts[e.lane] = d /\ w.edges[e.lane] = Prune(e.lane, d, e.edges[e.lane])
         /\ \A l \in Lanes : l # e.lane => w.drafts[l] = e.drafts[l] /\ w.edges[l] = e.edges[l]
<1> DEFINE w == WithDraft(e, d)
           ds == [e.drafts EXCEPT ![e.lane] = d]
           es == [e.edges EXCEPT ![e.lane] = Prune(e.lane, d, @)]
<1>1. w = [drafts |-> ds, edges |-> es, lane |-> e.lane, session |-> e.session, before |-> e.before,
           picked |-> e.picked, notice |-> FALSE]
  <2>1. e = [drafts |-> e.drafts, edges |-> e.edges, lane |-> e.lane, session |-> e.session,
             before |-> e.before, picked |-> e.picked, notice |-> e.notice]
    BY DEF Editors
  <2>2. w = [[[e EXCEPT !.drafts = ds] EXCEPT !.edges = es] EXCEPT !.notice = FALSE]
    BY <2>1 DEF WithDraft
  <2> HIDE DEF ds, es, w
  <2> QED
    BY <2>1, <2>2
<1>2. ds \in [Lanes -> Drafts] /\ ds[e.lane] = d /\ \A l \in Lanes : l # e.lane => ds[l] = e.drafts[l]
  BY DEF Editors
<1>3. Prune(e.lane, d, e.edges[e.lane]) \in SUBSET (0..NSlots)
  BY PruneKeeps DEF Editors, Edges
<1>4. es \in Edges /\ es[e.lane] = Prune(e.lane, d, e.edges[e.lane])
      /\ \A l \in Lanes : l # e.lane => es[l] = e.edges[l]
  BY <1>3 DEF Editors, Edges
<1> HIDE DEF ds, es
<1>5. w \in Editors
  BY <1>1, <1>2, <1>4 DEF Editors
<1> QED
  BY <1>1, <1>2, <1>4, <1>5

(* The session is replayed over what was there before it.                    *)
LEMMA Replayed ==
  ASSUME Grounded, NEW e \in Editors, e.lane \in Lanes,
         \A l \in Lanes : l # e.lane => \A k \in e.edges[l] : Agree(l, e.drafts[l], k),
         e.picked # NoAct => e.picked.is # NoAct,
         NEW s \in Sessions, s.from < s.to, BeforeStands(e, s)
  PROVE  LET u == Updated(e, s) IN
         /\ EditorSound(u) /\ u.lane = e.lane /\ u.session = s /\ u.before = e.before /\ u.picked = e.picked
<1> DEFINE outside == {k \in e.before.edges[e.lane] : k <= s.from \/ k >= s.to}
           es == IF Places(s) THEN [e.before.edges EXCEPT ![e.lane] = outside] ELSE e.before.edges
           m  == [e EXCEPT !.session = s, !.edges = es]
           d  == IF Places(s) THEN Place(e.lane, e.before.draft, s.origin, s, s.action)
                 ELSE FreeOrigin(e.lane, e.before.draft, s.origin)
           u  == WithDraft(m, d)
<1>1. Updated(e, s) = u
  <2>1. CASE Places(s)
    BY <2>1 DEF Updated
  <2>2. CASE ~Places(s)
    BY <2>2 DEF Updated
  <2> QED
    BY <2>1, <2>2
<1>2. d \in Drafts
  <2>1. s.origin \in Ranges \union {NoAct} /\ e.before.draft \in Drafts
    BY DEF Sessions, Editors
  <2>2. Places(s) => s.action \in Actions
    BY DEF Sessions, Places
  <2> QED
    BY <2>1, <2>2, PlacedIsADraft
<1>3. es \in Edges /\ \A l \in Lanes : l # e.lane => es[l] = e.edges[l]
  BY DEF Editors, Edges, BeforeStands
<1> HIDE DEF es, d
<1>4. m \in Editors /\ m.lane = e.lane /\ m.session = s /\ m.before = e.before /\ m.picked = e.picked
      /\ m.edges = es /\ m.drafts = e.drafts
  BY <1>3 DEF Editors
<1> HIDE DEF m
<1>5. /\ u \in Editors /\ u.lane = e.lane /\ u.session = s /\ u.before = e.before /\ u.picked = e.picked
      /\ u.drafts[e.lane] = d /\ u.edges[e.lane] = Prune(e.lane, d, es[e.lane])
      /\ \A l \in Lanes : l # e.lane => u.drafts[l] = e.drafts[l] /\ u.edges[l] = e.edges[l]
  BY <1>2, <1>3, <1>4, DraftTakesPlace
<1> HIDE DEF u
<1>6. EdgesHold(u)
  BY <1>5, PruneKeeps DEF EdgesHold
<1>7. BeforeStands(u, s)
  BY <1>5 DEF BeforeStands
<1> QED
  BY <1>1, <1>5, <1>6, <1>7 DEF EditorSound, SessionStands

(* The end of a session leaves the edges it showed, as far as they hold apart. *)
LEMMA CommitLeaves ==
  ASSUME NEW e, EditorSound(e)
  PROVE  LET c == Committed(e) IN
         /\ c \in Editors /\ EdgesHold(c) /\ c.session = NoAct /\ c.lane = e.lane
         /\ c.drafts = e.drafts /\ c.picked = e.picked /\ c.notice = e.notice
         /\ \A l \in Lanes : \A k \in 1..(NSlots - 1) :
              Agree(l, e.drafts[l], k) => (k \in c.edges[l] <=> k \in LaneSplits(e, l))
<1>1. CASE e.session = NoAct
  BY <1>1 DEF Committed, EditorSound, LaneSplits
<1>2. CASE e.session # NoAct
  <2> DEFINE own == IF Places(e.session) THEN SessionEdges(e.session) ELSE {}
             es  == [e.edges EXCEPT ![e.lane] = Prune(e.lane, e.drafts[e.lane], @ \union own)]
             c   == Committed(e)
  <2>1. e \in Editors /\ e.lane \in Lanes /\ EdgesHold(e) /\ e.session \in Sessions
    BY <1>2 DEF EditorSound, SessionStands, Editors
  <2>2. own \subseteq 0..NSlots
    BY <2>1 DEF SessionEdges, Sessions
  <2>3. es[e.lane] = Prune(e.lane, e.drafts[e.lane], e.edges[e.lane] \union own)
        /\ \A l \in Lanes : l # e.lane => es[l] = e.edges[l]
    BY <2>1 DEF Editors, Edges
  <2>4. es \in Edges
    <3>1. e.edges[e.lane] \union own \in SUBSET (0..NSlots)
      BY <2>1, <2>2 DEF Editors, Edges
    <3>2. Prune(e.lane, e.drafts[e.lane], e.edges[e.lane] \union own) \in SUBSET (0..NSlots)
      BY <3>1, PruneKeeps
    <3> QED
      BY <2>1, <3>2 DEF Editors, Edges
  <2>5. NoBefore \in [draft : Drafts, edges : Edges]
    BY DEF NoBefore, Untouched, Drafts, Edges
  <2>6. c = [drafts |-> e.drafts, edges |-> es, lane |-> e.lane, session |-> NoAct, before |-> NoBefore,
             picked |-> e.picked, notice |-> e.notice]
    BY <1>2, <2>1 DEF Committed, Editors
  <2>8. \A l \in Lanes : LaneSplits(e, l) = IF l = e.lane THEN e.edges[l] \union own ELSE e.edges[l]
    BY <1>2 DEF LaneSplits
  <2> HIDE DEF es, own
  <2>7. c \in Editors
    BY <2>1, <2>4, <2>5, <2>6 DEF Editors
  <2>9. EdgesHold(c)
    BY <2>1, <2>3, <2>6, PruneKeeps DEF EdgesHold
  <2>10. ASSUME NEW l \in Lanes, NEW k \in 1..(NSlots - 1), Agree(l, e.drafts[l], k)
         PROVE  k \in c.edges[l] <=> k \in LaneSplits(e, l)
    BY <2>3, <2>6, <2>8, <2>10, PruneKeeps
  <2> QED
    BY <2>6, <2>7, <2>9, <2>10
<1> QED
  BY <1>1, <1>2

LEMMA ClearLeaves ==
  ASSUME NEW e, EditorSound(e)
  PROVE  LET c == Cleared(e) IN
         /\ EditorSound(c) /\ c.session = NoAct /\ c.picked = NoAct /\ c.lane = e.lane
         /\ c.drafts = e.drafts /\ c.notice = e.notice
         /\ \A l \in Lanes : \A k \in 1..(NSlots - 1) :
              Agree(l, e.drafts[l], k) => (k \in c.edges[l] <=> k \in LaneSplits(e, l))
<1> DEFINE m == Committed(e)
           c == [m EXCEPT !.picked = NoAct]
<1>1. Cleared(e) = c
  BY DEF Cleared
<1>2. /\ m \in Editors /\ EdgesHold(m) /\ m.session = NoAct /\ m.lane = e.lane
      /\ m.drafts = e.drafts /\ m.notice = e.notice
      /\ \A l \in Lanes : \A k \in 1..(NSlots - 1) :
           Agree(l, e.drafts[l], k) => (k \in m.edges[l] <=> k \in LaneSplits(e, l))
  BY CommitLeaves
<1> HIDE DEF m
<1>3. c \in Editors /\ c.session = NoAct /\ c.picked = NoAct /\ c.lane = m.lane /\ c.drafts = m.drafts
      /\ c.edges = m.edges /\ c.notice = m.notice
  BY <1>2 DEF Editors
<1> HIDE DEF c
<1> QED
  BY <1>1, <1>2, <1>3 DEF EditorSound, SessionStands, EdgesHold
----------------------------------------------------------------------------
(* The blocks ahead, and what an editor makes of one.                        *)

LEMMA HorizonBlockIs ==
  ASSUME Grounded, NEW l \in Lanes, NEW d \in Drafts, NEW splits, NEW b \in HorizonBlocks(l, d, splits)
  PROVE  /\ b \in BandRuns /\ b.is \in Assigned
         /\ now <= b.from /\ b.from < b.to /\ b.to <= NSlots
         /\ IsBlock(l, d, splits, b.key, b.to) /\ b.is = ShownIn(l, d, b.key)
         /\ b.key <= b.from /\ b.from = IF b.key >= now THEN b.key ELSE now
         /\ b.cut = (b.key < now)
<1>1. PICK x \in {y \in Blocks(l, d, splits) : y.to > now} :
        b = [from |-> Max({x.from, now}), to |-> x.to, key |-> x.from, cut |-> x.from < now,
             is |-> ShownIn(l, d, x.from)]
  BY DEF HorizonBlocks
<1>2. x \in Ranges /\ IsBlock(l, d, splits, x.from, x.to) /\ x.to > now
  BY <1>1, BlocksAre
<1>3. now \in Int /\ now >= 0 /\ now < NSlots /\ NSlots \in Nat
  BY SlotsAre DEF Grounded
<1>4. x.from \in Slots /\ x.from \in Int /\ x.from >= 0 /\ x.to \in 0..NSlots /\ x.from < x.to
  BY <1>2, <1>3, SlotsAre DEF IsBlock
<1>5. Max({x.from, now}) = IF x.from >= now THEN x.from ELSE now
  BY <1>3, <1>4, LargerOfTwo
<1>6. ShownIn(l, d, x.from) \in Assigned
  BY <1>2, <1>4, WhatIsShown, AssignmentsAre DEF IsBlock
<1>7. /\ b.from = IF x.from >= now THEN x.from ELSE now
      /\ b.to = x.to /\ b.key = x.from /\ b.cut = (x.from < now) /\ b.is = ShownIn(l, d, x.from)
  BY <1>1, <1>5
<1>8. b \in BandRuns
  <2>1. Max({x.from, now}) \in 0..NSlots /\ x.from \in 0..NSlots /\ x.to \in 0..NSlots
        /\ (x.from < now) \in BOOLEAN /\ ShownIn(l, d, x.from) \in Assignments
    BY <1>3, <1>4, <1>5, <1>6, AssignmentsAre
  <2> QED
    BY <1>1, <2>1 DEF BandRuns
<1> QED
  BY <1>2, <1>3, <1>4, <1>6, <1>7, <1>8

(* Two blocks that begin in one slot are one.                                *)
LEMMA BlockByItsStart ==
  ASSUME NEW l, NEW d, NEW splits, NEW from, NEW to, NEW other,
         IsBlock(l, d, splits, from, to), IsBlock(l, d, splits, from, other)
  PROVE  to = other
<1>1. from \in Int /\ to \in Int /\ other \in Int /\ from < to /\ from < other
  BY SlotsAre DEF IsBlock
<1>2. ~(to < other)
  <2>1. SUFFICES ASSUME to < other PROVE FALSE
    OBVIOUS
  <2>2. to \in (from + 1)..(other - 1)
    BY <1>1, <2>1
  <2> QED
    BY <2>2 DEF IsBlock
<1>3. ~(other < to)
  <2>1. SUFFICES ASSUME other < to PROVE FALSE
    OBVIOUS
  <2>2. other \in (from + 1)..(to - 1)
    BY <1>1, <2>1
  <2> QED
    BY <2>2 DEF IsBlock
<1> QED
  BY <1>1, <1>2, <1>3

(* Letting go of everything leaves the blocks as they are drawn.             *)
LEMMA ClearedBlocks ==
  ASSUME Grounded, NEW e, EditorSound(e), NEW l \in Lanes
  PROVE  BandBlocks(e, l) = BandBlocks(Cleared(e), l)
         /\ BandBlocks(Cleared(e), l) = HorizonBlocks(l, e.drafts[l], Cleared(e).edges[l])
<1> DEFINE c == Cleared(e)
<1>1. /\ c.session = NoAct /\ c.drafts = e.drafts
      /\ \A k \in 1..(NSlots - 1) : Agree(l, e.drafts[l], k) => (k \in c.edges[l] <=> k \in LaneSplits(e, l))
  BY ClearLeaves
<1> HIDE DEF c
<1>2. BandBlocks(c, l) = HorizonBlocks(l, e.drafts[l], c.edges[l])
  BY <1>1 DEF BandBlocks, LaneSplits
<1>3. HorizonBlocks(l, e.drafts[l], LaneSplits(e, l)) = HorizonBlocks(l, e.drafts[l], c.edges[l])
  BY <1>1, SameBlocks
<1> QED
  BY <1>2, <1>3 DEF BandBlocks, c

(* A session begins over what can still be changed, on nothing or on a block  *)
(* of the user's.                                                            *)
Opening(r, from, origin, action, cut) ==
  [origin |-> IF origin = NoAct THEN NoAct ELSE [from |-> from, to |-> origin.to],
   from |-> from, to |-> r.to, action |-> action, valid |-> TRUE,
   clamped |-> from > r.from \/ cut]

LEMMA Begins ==
  ASSUME Grounded, NEW e, EditorSound(e), e.lane \in Lanes,
         NEW r, r.from \in 0..NSlots, r.to \in 0..NSlots,
         NEW action \in Actions \union {NoAct}, NEW cut \in BOOLEAN,
         NEW origin, origin = NoAct \/ /\ origin \in BandBlocks(e, e.lane) /\ r = origin
                                       /\ cut = origin.cut /\ origin.is.by = "user"
  PROVE  LET b    == Begun(e, origin, r, action, cut)
             from == IF r.from >= now THEN r.from ELSE now
         IN  /\ EditorSound(b) /\ b.lane = e.lane
             /\ from < r.to => b.session = Opening(r, from, origin, action, cut)
             /\ from >= r.to => b = e
<1> DEFINE from == IF r.from >= now THEN r.from ELSE now
           c    == Cleared(e)
           m    == [c EXCEPT !.before = [draft |-> c.drafts[c.lane], edges |-> c.edges]]
           s    == Opening(r, from, origin, action, cut)
<1>1. now \in Int /\ now >= 0 /\ now < NSlots /\ NSlots \in Nat /\ r.from \in Int /\ r.to \in Int
      /\ r.from >= 0 /\ r.to <= NSlots
  BY SlotsAre DEF Grounded
<1>2. Max({r.from, now}) = from
  BY <1>1, LargerOfTwo
<1>3. CASE from >= r.to
  <2>1. Begun(e, origin, r, action, cut) = e
    BY <1>2, <1>3 DEF Begun
  <2>2. ~(from < r.to)
    BY <1>1, <1>3
  <2> HIDE DEF from
  <2> QED
    BY <2>1, <2>2, <1>3 DEF from
<1>4. CASE ~(from >= r.to)
  <2>1. Begun(e, origin, r, action, cut) = Updated(m, s)
    BY <1>2, <1>4 DEF Begun, Opening
  <2>2. /\ EditorSound(c) /\ c.session = NoAct /\ c.picked = NoAct /\ c.lane = e.lane /\ c.drafts = e.drafts
        /\ BandBlocks(e, e.lane) = HorizonBlocks(e.lane, e.drafts[e.lane], c.edges[e.lane])
    BY ClearLeaves, ClearedBlocks
  <2> HIDE DEF c
  <2>3. c \in Editors /\ EdgesHold(c) /\ e.drafts[e.lane] \in Drafts
    BY <2>2 DEF EditorSound, Editors
  <2>4. /\ m \in Editors /\ m.lane = e.lane /\ m.edges = c.edges /\ m.drafts = c.drafts /\ m.picked = NoAct
        /\ m.before.draft = c.drafts[e.lane] /\ m.before.edges = c.edges
    <3>1. [draft |-> c.drafts[c.lane], edges |-> c.edges] \in [draft : Drafts, edges : Edges]
      BY <2>2, <2>3 DEF Editors
    <3> QED
      BY <2>2, <2>3, <3>1 DEF Editors
  <2> HIDE DEF m
  <2>5. from \in Int /\ from >= 0 /\ from <= NSlots /\ from < r.to /\ from >= now /\ from >= r.from
    BY <1>1, <1>4
  <2> HIDE DEF from
  <2>6. ASSUME origin # NoAct
        PROVE  /\ origin \in BandRuns /\ origin.is \in Assigned /\ origin.from < origin.to /\ origin.from >= now
               /\ IsBlock(e.lane, e.drafts[e.lane], c.edges[e.lane], origin.key, origin.to)
               /\ origin.is = ShownIn(e.lane, e.drafts[e.lane], origin.key)
               /\ origin.key <= origin.from /\ origin.from = IF origin.key >= now THEN origin.key ELSE now
               /\ cut = (origin.key < now) /\ r = origin /\ origin.is.by = "user"
    BY <2>2, <2>3, <2>6, HorizonBlockIs
  <2>7. s \in Sessions /\ s.from < s.to
    <3>1. origin # NoAct => [from |-> from, to |-> origin.to] \in Ranges
      BY <2>5, <2>6, <1>1 DEF Ranges, BandRuns
    <3>2. (IF origin = NoAct THEN NoAct ELSE [from |-> from, to |-> origin.to]) \in Ranges \union {NoAct}
      BY <3>1
    <3>3. from \in 0..NSlots /\ (from > r.from \/ cut) \in BOOLEAN
      BY <1>1, <2>5
    <3> QED
      BY <1>1, <2>5, <3>2, <3>3 DEF Sessions, Opening
  <2>8. s.origin # NoAct => OpenedOn(e.lane, m.before.draft, m.before.edges[e.lane], s)
    <3>1. SUFFICES ASSUME s.origin # NoAct PROVE OpenedOn(e.lane, m.before.draft, m.before.edges[e.lane], s)
      OBVIOUS
    <3>2. origin # NoAct /\ s.origin.from = from /\ s.origin.to = origin.to /\ s.clamped = (from > r.from \/ cut)
      BY <3>1 DEF Opening
    <3>3. from = origin.from /\ origin.key \in Slots /\ origin.key \in Int
      BY <1>1, <2>6, <3>2, SlotsAre DEF from, BandRuns, IsBlock
    <3>4. /\ IsBlock(e.lane, m.before.draft, m.before.edges[e.lane], origin.key, s.origin.to)
          /\ ShownIn(e.lane, m.before.draft, origin.key).by = "user"
      BY <2>2, <2>4, <2>6, <3>2
    <3>5. origin.key <= s.origin.from /\ s.origin.from < s.origin.to
      BY <2>5, <2>6, <3>2, <3>3
    <3>6. s.clamped = (origin.key < now)
      <4>1. r.from = from /\ ~(from > r.from)
        BY <1>1, <2>6, <3>2, <3>3
      <4>2. s.clamped = cut
        BY <3>2, <4>1
      <4> QED
        BY <2>6, <3>2, <4>2
    <3>7. (s.clamped = TRUE => s.origin.from <= now) /\ (s.clamped = FALSE => s.origin.from = origin.key)
      BY <1>1, <2>6, <3>2, <3>3, <3>6
    <3> QED
      BY <3>3, <3>4, <3>5, <3>7 DEF OpenedOn
  <2>9. BeforeStands(m, s)
    BY <2>2, <2>3, <2>4, <2>8 DEF BeforeStands, EdgesHold
  <2>10. \A l \in Lanes : l # m.lane => \A k \in m.edges[l] : Agree(l, m.drafts[l], k)
    BY <2>3, <2>4 DEF EdgesHold
  <2> HIDE DEF s
  <2>11. EditorSound(Updated(m, s)) /\ Updated(m, s).lane = e.lane /\ Updated(m, s).session = s
    BY <2>4, <2>7, <2>9, <2>10, Replayed
  <2>12. from < r.to
    BY <2>5
  <2> QED
    BY <2>1, <2>5, <2>11, <2>12 DEF s, from
<1> QED
  BY <1>3, <1>4
LEMMA Revised ==
  ASSUME Grounded, NEW e, EditorSound(e), e.session # NoAct,
         NEW s \in Sessions, s.from < s.to, s.origin = e.session.origin, s.clamped = e.session.clamped
  PROVE  LET u == Updated(e, s) IN
         /\ EditorSound(u) /\ u.lane = e.lane /\ u.session = s /\ u.before = e.before
<1>1. e \in Editors /\ e.lane \in Lanes /\ BeforeStands(e, e.session) /\ EdgesHold(e)
      /\ (e.picked # NoAct => e.picked.is # NoAct)
  BY DEF EditorSound, SessionStands
<1>2. BeforeStands(e, s)
  BY <1>1 DEF BeforeStands, OpenedOn
<1>3. \A l \in Lanes : l # e.lane => \A k \in e.edges[l] : Agree(l, e.drafts[l], k)
  BY <1>1 DEF EdgesHold
<1> QED
  BY <1>1, <1>2, <1>3, Replayed

LEMMA LaneTaken ==
  ASSUME NEW e, EditorSound(e), NEW l \in Lanes \union {NoAct}
  PROVE  EditorSound(OnLane(e, l)) /\ OnLane(e, l).lane = l
<1> DEFINE c == Cleared(e)
           m == [c EXCEPT !.lane = l]
<1>1. CASE e.lane = l
  BY <1>1 DEF OnLane
<1>2. CASE e.lane # l
  <2>1. OnLane(e, l) = m
    BY <1>2 DEF OnLane
  <2>2. EditorSound(c) /\ c.session = NoAct /\ c.picked = NoAct
    BY ClearLeaves
  <2> HIDE DEF c
  <2>3. m \in Editors /\ m.session = NoAct /\ m.picked = NoAct /\ m.drafts = c.drafts /\ m.edges = c.edges
        /\ m.lane = l
    BY <2>2 DEF EditorSound, Editors
  <2> HIDE DEF m
  <2> QED
    BY <2>1, <2>2, <2>3 DEF EditorSound, SessionStands, EdgesHold
<1> QED
  BY <1>1, <1>2

(* A press on a block opens it, picks it, or finds it gone or open already.  *)
LEMMA SelectsABlock ==
  ASSUME Grounded, NEW e, EditorSound(e), NEW l \in Lanes, NEW block
  PROVE  EditorSound(BlockSelected(e, l, block)) /\ BlockSelected(e, l, block).lane = l
<1> DEFINE on    == OnLane(e, l)
           found == {b \in BandBlocks(on, l) : b.key = block.key /\ b.is.act = block.is.act}
           b     == CHOOSE x \in found : TRUE
           sel   == BlockSelected(e, l, block)
           open  == /\ on.session # NoAct /\ Places(on.session)
                    /\ b.from < on.session.to /\ b.to > on.session.from
           c     == Cleared(on)
           m     == [c EXCEPT !.picked = b]
<1>1. EditorSound(on) /\ on.lane = l
  BY LaneTaken
<1>2. /\ found = {} => sel = on
      /\ found # {} /\ b.is.by = "automation" => sel = m
      /\ found # {} /\ b.is.by = "user" => sel = IF open THEN on ELSE Begun(on, b, b, b.is.act, b.cut)
  BY DEF BlockSelected
<1> HIDE DEF on, sel
<1>3. CASE found = {}
  BY <1>1, <1>2, <1>3 DEF sel
<1>4. CASE found # {}
  <2>1. b \in BandBlocks(on, l)
    BY <1>4
  <2> HIDE DEF found, b
  <2>2. on \in Editors /\ on.drafts[l] \in Drafts
    BY <1>1 DEF EditorSound, Editors
  <2>3. b \in BandRuns /\ b.is \in Assigned /\ b.from < b.to
    BY <2>1, <2>2, HorizonBlockIs DEF BandBlocks
  <2>4. /\ b.is.by \in {"user", "automation"} /\ b.is.act \in Actions /\ b.is # NoAct /\ b.cut \in BOOLEAN
        /\ b.from \in 0..NSlots /\ b.to \in 0..NSlots
    BY <2>3, AssignmentsAre DEF Assigned, BandRuns
  <2>5. CASE b.is.by = "automation"
    <3>1. EditorSound(c) /\ c.session = NoAct /\ c.lane = l
      BY <1>1, ClearLeaves
    <3> HIDE DEF c
    <3>2. m \in Editors /\ m.session = NoAct /\ m.picked = b /\ m.drafts = c.drafts /\ m.edges = c.edges
          /\ m.lane = l
      BY <2>3, <3>1 DEF EditorSound, Editors
    <3>3. sel = m
      BY <1>2, <1>4, <2>5
    <3> HIDE DEF m
    <3>4. EditorSound(m)
      BY <2>4, <3>1, <3>2 DEF EditorSound, SessionStands, EdgesHold
    <3> QED
      BY <3>2, <3>3, <3>4 DEF sel
  <2>6. CASE b.is.by = "user"
    <3>1. EditorSound(Begun(on, b, b, b.is.act, b.cut)) /\ Begun(on, b, b, b.is.act, b.cut).lane = l
      BY <1>1, <2>1, <2>4, <2>6, Begins
    <3>2. sel = on \/ sel = Begun(on, b, b, b.is.act, b.cut)
      BY <1>2, <1>4, <2>6
    <3> QED
      BY <1>1, <3>1, <3>2 DEF sel
  <2> QED
    BY <2>4, <2>5, <2>6
<1> QED
  BY <1>3, <1>4

LEMMA Paints ==
  ASSUME Grounded, NEW e, EditorSound(e), e.lane \in Lanes, lastAction \in [Lanes -> Actions],
         NEW r \in Ranges, r.from < r.to, NEW first
  PROVE  EditorSound(Painted(e, r, first)) /\ Painted(e, r, first).lane = e.lane
<1> DEFINE c == Cleared(e)
           s == [e.session EXCEPT !.from = r.from, !.to = r.to]
<1>1. CASE first \/ e.session = NoAct
  <2>1. Painted(e, r, first) = Begun(c, NoAct, r, lastAction[e.lane], FALSE)
    BY <1>1 DEF Painted
  <2>2. EditorSound(c) /\ c.lane = e.lane
    BY ClearLeaves
  <2> HIDE DEF c
  <2> DEFINE a == lastAction[e.lane]
             uncut == FALSE
             x == Begun(c, NoAct, r, a, uncut)
  <2>3. uncut \in BOOLEAN /\ a \in Actions \union {NoAct} /\ r.from \in 0..NSlots /\ r.to \in 0..NSlots /\ c.lane \in Lanes
    BY <2>2 DEF Ranges
  <2> HIDE DEF a, uncut
  <2>4. EditorSound(x) /\ x.lane = c.lane
    BY <2>2, <2>3, Begins
  <2> HIDE DEF x
  <2> QED
    BY <2>1, <2>2, <2>4 DEF x, a, uncut
<1>2. CASE ~first /\ e.session # NoAct
  <2>1. Painted(e, r, first) = Updated(e, s)
    BY <1>2 DEF Painted
  <2>2. e.session \in Sessions
    BY <1>2 DEF EditorSound, Editors
  <2>3. s \in Sessions /\ s.from < s.to /\ s.origin = e.session.origin /\ s.clamped = e.session.clamped
    BY <2>2 DEF Sessions, Ranges
  <2> HIDE DEF s
  <2> QED
    BY <1>2, <2>1, <2>3, Revised
<1> QED
  BY <1>1, <1>2

LEMMA Reshapes ==
  ASSUME Grounded, NEW e, EditorSound(e), NEW r \in Ranges
  PROVE  /\ EditorSound(Reshaped(e, r)) /\ Reshaped(e, r).lane = e.lane
         /\ e.session # NoAct => Reshaped(e, r).session.origin = e.session.origin
<1> DEFINE s == [e.session EXCEPT !.from = r.from, !.to = r.to]
<1>1. CASE e.session = NoAct \/ r.to <= r.from
  BY <1>1 DEF Reshaped
<1>2. CASE e.session # NoAct /\ r.from < r.to
  <2>1. Reshaped(e, r) = Updated(e, s)
    BY <1>2 DEF Reshaped, Ranges
  <2>2. e.session \in Sessions
    BY <1>2 DEF EditorSound, Editors
  <2>3. s \in Sessions /\ s.from < s.to /\ s.origin = e.session.origin /\ s.clamped = e.session.clamped
    BY <1>2, <2>2 DEF Sessions, Ranges
  <2> HIDE DEF s
  <2> QED
    BY <1>2, <2>1, <2>3, Revised
<1> QED
  BY <1>1, <1>2 DEF Ranges

LEMMA Deletes ==
  ASSUME NEW e, EditorSound(e), e.session # NoAct
  PROVE  EditorSound(Deleted(e)) /\ Deleted(e).lane = e.lane
<1> DEFINE m == [e EXCEPT !.edges = e.before.edges]
           d == FreeOrigin(e.lane, e.before.draft, e.session.origin)
           w == WithDraft(m, d)
           u == [w EXCEPT !.session = NoAct, !.before = NoBefore]
<1>1. /\ e \in Editors /\ e.lane \in Lanes /\ EdgesHold(e) /\ BeforeStands(e, e.session)
      /\ e.session \in Sessions /\ (e.picked # NoAct => e.picked.is # NoAct)
  BY DEF EditorSound, SessionStands, Editors
<1>2. d \in Drafts
  BY <1>1, PlacedIsADraft DEF Editors, Sessions
<1>3. m \in Editors /\ m.lane = e.lane /\ m.edges = e.before.edges /\ m.drafts = e.drafts /\ m.picked = e.picked
  BY <1>1 DEF Editors
<1>4. Deleted(e) = u
  BY DEF Deleted
<1> HIDE DEF m, d
<1>5. /\ w \in Editors /\ w.lane = e.lane /\ w.picked = e.picked
      /\ w.drafts[e.lane] = d /\ w.edges[e.lane] = Prune(e.lane, d, m.edges[e.lane])
      /\ \A l \in Lanes : l # e.lane => w.drafts[l] = m.drafts[l] /\ w.edges[l] = m.edges[l]
  BY <1>1, <1>2, <1>3, DraftTakesPlace
<1> HIDE DEF w
<1>6. EdgesHold(w)
  BY <1>1, <1>3, <1>5, PruneKeeps DEF EdgesHold, BeforeStands
<1>7. NoBefore \in [draft : Drafts, edges : Edges]
  BY DEF NoBefore, Untouched, Drafts, Edges
<1>8. /\ u \in Editors /\ u.session = NoAct /\ u.lane = e.lane /\ u.picked = e.picked
      /\ u.drafts = w.drafts /\ u.edges = w.edges
  BY <1>5, <1>7 DEF Editors
<1> HIDE DEF u
<1> QED
  BY <1>1, <1>4, <1>6, <1>8 DEF EditorSound, SessionStands, EdgesHold

LEMMA Seeds ==
  ASSUME NEW target \in Lanes \union {NoAct}
  PROVE  EditorSound(Seeded(target)) /\ Seeded(target).lane = target
<1>1. [l \in Lanes |-> Untouched] \in [Lanes -> Drafts] /\ [l \in Lanes |-> {}] \in Edges
      /\ NoBefore \in [draft : Drafts, edges : Edges]
  BY DEF NoBefore, Untouched, Drafts, Edges
<1>2. Seeded(target) \in Editors
  BY <1>1 DEF Seeded, Editors
<1> QED
  BY <1>2 DEF Seeded, EditorSound, SessionStands, EdgesHold
----------------------------------------------------------------------------
(* The band.                                                                 *)

(* The press under way is of a stretch that is ahead; it reshapes what is a  *)
(* block of the user's, and paints over anything else.                       *)
DragStands(d) ==
  /\ d \in Drags /\ d.from < d.to /\ d.min <= d.from /\ d.min <= now
  /\ d.mode = "paint" <=> (d.block = NoAct \/ d.block.is.by # "user")
  /\ d.block = NoAct => d.gap # NoAct
  /\ d.block # NoAct => d.block.is \in Assigned

SentTyped ==
  sent # NoAct => \A s \in DOMAIN sent : sent[s] \in [Lanes -> Actions \union {NoAct}]

Alike(e, f) == [e EXCEPT !.notice = FALSE] = [f EXCEPT !.notice = FALSE]

Typed == /\ Grounded /\ clock \in Slots /\ now <= clock /\ clock <= now + 1
         /\ lastAction \in [Lanes -> Actions] /\ SentTyped
         /\ EditorSound(ed) /\ viewStart \in Nat \union {NoAct}

(* What the hands are at.  A drag goes on under a pointer of its own, and no  *)
(* pan beside it; what was there when the fingers came down is in the         *)
(* snapshot, or there still.                                                  *)
HandsStand ==
  /\ touches \subseteq pressed /\ pressed \subseteq Pointers
  /\ pan \in pressed \union {NoAct, Two} /\ (pan = Two => pressed # {})
  /\ pressed = {} => snapshot = NoAct
  /\ snapshot # NoAct => EditorSound(snapshot)
  /\ drag # NoAct => /\ DragStands(drag) /\ drag.finger \in pressed /\ ed.lane \in Lanes
                     /\ snapshot # NoAct /\ pan = NoAct
  /\ touches # {} => IF snapshot = NoAct THEN Alike(ed, atPress) ELSE Alike(snapshot, atPress)
  /\ pan = Two => Alike(ed, atPress)

(* A block that is pressed is on the band until the press decides or a slot ends. *)
PressedIsThere ==
  drag # NoAct /\ drag.started = FALSE /\ drag.min = now /\ drag.block # NoAct =>
    drag.block \in BandBlocks(ed, ed.lane)

BandInv == Typed /\ HandsStand /\ PressedIsThere

(* An editor stays sound while the schedule it was seeded from stands.        *)
LEMMA StaysSound ==
  ASSUME NEW e, EditorSound(e), baseline' = baseline, now \in Int, now' \in Int, now <= now'
  PROVE  (ed' = e => EditorSound(ed)') /\ (snapshot' = e => EditorSound(snapshot)')
<1>1. ASSUME NEW o \in Int, o <= now PROVE o <= now'
  BY <1>1
<1>2. ASSUME e.session # NoAct, e.session.origin # NoAct PROVE e.session.origin.from \in Int
  BY <1>2 DEF EditorSound, Editors, Sessions, Ranges
<1>3. ASSUME ed' = e PROVE EditorSound(ed)'
  <2>1. (ed \in Editors)' /\ EdgesHold(ed)'
        /\ (ed.picked # NoAct => ed.lane \in Lanes /\ ed.picked.is # NoAct)'
    BY <1>3 DEF EditorSound, EdgesHold, Agree, ShownIn
  <2>2. SessionStands(ed)'
    BY <1>1, <1>2, <1>3
       DEF EditorSound, SessionStands, BeforeStands, OpenedOn, IsBlock, Joined, Agree, ShownIn
  <2> QED
    BY <2>1, <2>2 DEF EditorSound
<1>4. ASSUME snapshot' = e PROVE EditorSound(snapshot)'
  <2>1. (snapshot \in Editors)' /\ EdgesHold(snapshot)'
        /\ (snapshot.picked # NoAct => snapshot.lane \in Lanes /\ snapshot.picked.is # NoAct)'
    BY <1>4 DEF EditorSound, EdgesHold, Agree, ShownIn
  <2>2. SessionStands(snapshot)'
    BY <1>1, <1>2, <1>4
       DEF EditorSound, SessionStands, BeforeStands, OpenedOn, IsBlock, Joined, Agree, ShownIn
  <2> QED
    BY <2>1, <2>2 DEF EditorSound
<1> QED
  BY <1>3, <1>4

LEMMA AlikeIs ==
  /\ \A e : Alike(e, e)
  /\ \A e, f, g : Alike(e, f) /\ Alike(f, g) => Alike(e, g)
  /\ \A e \in Editors : \A b \in BOOLEAN : Alike([e EXCEPT !.notice = b], e)
BY DEF Alike, Editors

(* A slot of the window is one ahead.                                        *)
LEMMA WindowStart ==
  ASSUME Typed
  PROVE  /\ View.from \in Int /\ View.from >= now /\ View.from <= NSlots /\ 0 <= now /\ now < NSlots
         /\ View.to \in Int /\ View.to <= NSlots
<1>1. now \in Int /\ now >= 0 /\ now < NSlots /\ NSlots \in Nat /\ Width \in Int /\ Width >= 1 /\ Width <= NSlots
  BY SlotsAre, PointersAssumption DEF Typed, Grounded
<1> DEFINE start == IF viewStart = NoAct THEN now ELSE ClampView(viewStart)
<1>2. start \in Int /\ start >= now /\ start <= NSlots
  <2>1. CASE viewStart = NoAct
    BY <1>1, <2>1
  <2>2. CASE viewStart # NoAct
    <3>1. viewStart \in Int
      BY <2>2 DEF Typed
    <3>2. ClampView(viewStart) = Clamp(viewStart, now, NSlots - Width)
      BY DEF ClampView
    <3> QED
      BY <1>1, <2>2, <3>1, <3>2, ClampIs
  <2> QED
    BY <2>1, <2>2
<1>3. View.from = start /\ View.to = Min({start + Width, NSlots})
  BY DEF View
<1> HIDE DEF start
<1> QED
  BY <1>1, <1>2, <1>3, SmallerOfTwo

LEMMA InTheWindow ==
  ASSUME Typed, NEW p \in View.from..(View.to - 1)
  PROVE  p \in Slots /\ p >= now /\ Snaps(p) \subseteq 0..NSlots
<1>1. p \in Int /\ p >= 0 /\ p >= now /\ p < NSlots /\ NSlots \in Int
  BY WindowStart, SlotsAre DEF Typed, Grounded
<1> QED
  BY <1>1, SlotsAre DEF Snaps

LEMMA GapsAre ==
  ASSUME Typed, NEW g \in Gaps
  PROVE  g \in Ranges
<1>1. PICK r \in Ranges : g = [from |-> Max({r.from, View.from}), to |-> r.to]
  BY DEF Gaps
<1>2. Max({r.from, View.from}) \in 0..NSlots
  BY LargerOfTwo, WindowStart, SlotsAre DEF Ranges, Typed, Grounded
<1> QED
  BY <1>1, <1>2 DEF Ranges
LEMMA DragIsOf ==
  ASSUME Grounded, drag # NoAct, DragStands(drag)
  PROVE  /\ drag.from \in Int /\ drag.to \in Int /\ drag.min \in Int /\ drag.grab \in Int /\ NSlots \in Int
         /\ 0 <= drag.min /\ drag.min <= drag.from /\ drag.from < drag.to /\ drag.to <= NSlots
         /\ drag.min < NSlots /\ drag.mode \in {"move", "start", "end", "paint"}
BY SlotsAre DEF DragStands, Drags

LEMMA PaintsARange ==
  ASSUME Grounded, drag # NoAct, DragStands(drag), NEW p \in Slots
  PROVE  PaintRange(p) \in Ranges /\ PaintRange(p).from < PaintRange(p).to
<1> DEFINE at == Clamp(p, drag.min, NSlots - 1)
<1>1. at \in Int /\ at >= 0 /\ at < NSlots
  BY DragIsOf, SlotsAre, ClampIs
<1>2. PaintRange(p) = [from |-> Min({drag.from, at}), to |-> Max({drag.to, at + 1})]
  BY DEF PaintRange
<1> HIDE DEF at
<1>3. Min({drag.from, at}) = IF drag.from <= at THEN drag.from ELSE at
  BY <1>1, DragIsOf, SmallerOfTwo
<1>4. Max({drag.to, at + 1}) = IF drag.to >= at + 1 THEN drag.to ELSE at + 1
  BY <1>1, DragIsOf, LargerOfTwo
<1> QED
  BY <1>1, <1>2, <1>3, <1>4, DragIsOf DEF Ranges

LEMMA DragsARange ==
  ASSUME Grounded, drag # NoAct, DragStands(drag), drag.mode # "paint", NEW q \in 0..NSlots
  PROVE  DragRange(q) \in Ranges /\ DragRange(q).from < DragRange(q).to
<1>1. CASE drag.mode = "start"
  <2> DEFINE m == Max({q, drag.min})
  <2>1. m = IF q >= drag.min THEN q ELSE drag.min
    BY DragIsOf, LargerOfTwo
  <2>2. DragRange(q) = [from |-> Min({m, drag.to - 1}), to |-> drag.to]
    BY <1>1 DEF DragRange
  <2> HIDE DEF m
  <2>3. Min({m, drag.to - 1}) = IF m <= drag.to - 1 THEN m ELSE drag.to - 1
    BY <2>1, DragIsOf, SmallerOfTwo
  <2> QED
    BY <2>1, <2>2, <2>3, DragIsOf DEF Ranges
<1>2. CASE drag.mode = "end"
  <2>1. Max({q, drag.from + 1}) = IF q >= drag.from + 1 THEN q ELSE drag.from + 1
    BY DragIsOf, LargerOfTwo
  <2>2. DragRange(q) = [from |-> drag.from, to |-> Max({q, drag.from + 1})]
    BY <1>2 DEF DragRange
  <2> QED
    BY <2>1, <2>2, DragIsOf DEF Ranges
<1>3. CASE drag.mode = "move"
  <2> DEFINE length == drag.to - drag.from
             x      == drag.from + (q - drag.grab)
             from   == Clamp(x, drag.min, NSlots - length)
  <2>1. length \in Int /\ length > 0 /\ length <= NSlots - drag.min
    BY DragIsOf
  <2>2. x \in Int
    BY DragIsOf
  <2>3. DragRange(q) = [from |-> from, to |-> from + length]
    BY <1>3 DEF DragRange
  <2> HIDE DEF length, x
  <2>4. from \in Int /\ from >= drag.min /\ from <= NSlots - length
    BY <2>1, <2>2, DragIsOf, ClampIs
  <2> HIDE DEF from
  <2> QED
    BY <2>1, <2>3, <2>4, DragIsOf DEF Ranges
<1> QED
  BY <1>1, <1>2, <1>3, DragIsOf

LEMMA NoHands ==
  ASSUME BandInv, pressed = {}
  PROVE  drag = NoAct /\ touches = {} /\ pan = NoAct /\ snapshot = NoAct
BY DEF BandInv, HandsStand

(* ---------------- Nothing the band has a hand in. ---------------- *)

(* The schedule and the clocks move under it.                                *)
LEMMA BandRests ==
  ASSUME BandInv, UNCHANGED <<baseline, ed, lastAction, drag, pan, touches, pressed, snapshot, atPress>>,
         SentTyped', stored' \in Schedules, now' \in Slots, clock' \in Slots,
         now <= now', now' <= clock', clock' <= now' + 1, viewStart' \in Nat \union {NoAct}
  PROVE  BandInv'
<1>1. now \in Int /\ now' \in Int
  BY SlotsAre DEF BandInv, Typed, Grounded
<1>2. Typed'
  <2>1. EditorSound(ed)'
    BY <1>1, StaysSound DEF BandInv, Typed
  <2> QED
    BY <2>1 DEF BandInv, Typed, Grounded
<1>3. HandsStand'
  <2>1. (snapshot # NoAct => EditorSound(snapshot))'
    BY <1>1, StaysSound DEF BandInv, HandsStand
  <2>2. (drag # NoAct => DragStands(drag))'
    <3>1. \A x \in Int : x <= now => x <= now'
      BY <1>1
    <3> QED
      BY <3>1, SlotsAre DEF BandInv, HandsStand, DragStands, Drags
  <2> QED
    BY <2>1, <2>2 DEF BandInv, HandsStand, Alike
<1>4. PressedIsThere'
  <2>1. SUFFICES ASSUME drag # NoAct, drag.started = FALSE, drag.min = now', drag.block # NoAct
                 PROVE  (drag.block \in BandBlocks(ed, ed.lane))'
    BY DEF PressedIsThere
  <2>2. now' = now
    BY <1>1, <2>1, SlotsAre DEF BandInv, HandsStand, DragStands, Drags
  <2>3. drag.block \in BandBlocks(ed, ed.lane)
    BY <2>1, <2>2 DEF BandInv, PressedIsThere
  <2>4. BandBlocks(ed, ed.lane)' = BandBlocks(ed, ed.lane)
    BY <2>2 DEF BandBlocks, HorizonBlocks, Blocks, Agree, ShownIn, LaneSplits, Places, SessionEdges
  <2> QED
    BY <2>3, <2>4
<1> QED
  BY <1>2, <1>3, <1>4 DEF BandInv

(* ---------------- The panel, the keyboard. ---------------- *)

LEMMA EditorGoesOn ==
  ASSUME BandInv, pressed = {}, UNCHANGED <<clock, now, stored, baseline>>, UNCHANGED bandVars,
         NEW e, EditorSound(e), ed' = e, lastAction' \in [Lanes -> Actions], SentTyped'
  PROVE  BandInv'
<1>1. now \in Int /\ now' = now
  BY SlotsAre DEF BandInv, Typed, Grounded
<1>2. Typed'
  <2>1. EditorSound(ed)'
    BY <1>1, StaysSound
  <2> QED
    BY <2>1 DEF BandInv, Typed, Grounded, bandVars
<1>3. drag' = NoAct /\ touches' = {} /\ pan' = NoAct /\ snapshot' = NoAct /\ pressed' = {}
  BY NoHands DEF bandVars
<1> QED
  BY <1>2, <1>3, NoActAssumption, PointersAssumption DEF BandInv, HandsStand, PressedIsThere, Two
LEMMA PressOfThePanel ==
  ASSUME BandInv, pressed = {}, UNCHANGED bandVars, NEW e, EditorSound(e), PanelPress(e)
  PROVE  BandInv'
BY EditorGoesOn DEF PanelPress, Leaves, BandInv, Typed, SentTyped

(* A revision of the session keeps what it was opened on.                    *)
LEMMA SessionRevised ==
  ASSUME Typed, ed.session # NoAct, NEW from \in 0..NSlots, NEW to \in 0..NSlots, from < to
  PROVE  EditorSound(Updated(ed, [ed.session EXCEPT !.from = from, !.to = to]))
<1> DEFINE s == [ed.session EXCEPT !.from = from, !.to = to]
<1>1. ed.session \in Sessions /\ EditorSound(ed) /\ Grounded
  BY DEF Typed, EditorSound, Editors
<1>2. s \in Sessions /\ s.from < s.to /\ s.origin = ed.session.origin /\ s.clamped = ed.session.clamped
  BY <1>1 DEF Sessions
<1> HIDE DEF s
<1>3. EditorSound(Updated(ed, s))
  BY <1>1, <1>2, Revised
<1> QED
  BY <1>3 DEF s

LEMMA SessionIs ==
  ASSUME Typed, ed.session # NoAct
  PROVE  /\ ed.session \in Sessions /\ ed.lane \in Lanes /\ ed.session.from \in Int /\ ed.session.to \in Int
         /\ 0 <= ed.session.from /\ ed.session.from < ed.session.to /\ ed.session.to <= NSlots
         /\ now \in Int /\ 0 <= now /\ now < NSlots
BY SlotsAre DEF Typed, Grounded, EditorSound, Editors, SessionStands, Sessions

LEMMA StartChanges ==
  ASSUME BandInv, pressed = {}, UNCHANGED bandVars, ChangesStart
  PROVE  BandInv'
<1>1. Typed /\ ed.session # NoAct
  BY DEF BandInv, ChangesStart
<1> DEFINE length == ed.session.to - ed.session.from
           End(from) == IF from < ed.session.to THEN ed.session.to ELSE Min({from + length, NSlots})
<1>2. PICK from \in now..(NSlots - 1) :
        PanelPress(Updated(ed, [ed.session EXCEPT !.from = from, !.to = End(from)]))
  BY DEF ChangesStart
<1>3. from \in Int /\ from >= 0 /\ from < NSlots /\ length \in Int /\ length > 0 /\ NSlots \in Int
  BY <1>1, SessionIs, SlotsAre
<1>4. Min({from + length, NSlots}) = IF from + length <= NSlots THEN from + length ELSE NSlots
  BY <1>3, SmallerOfTwo
<1>5. from \in 0..NSlots /\ End(from) \in 0..NSlots /\ from < End(from)
  BY <1>1, <1>3, <1>4, SessionIs
<1> HIDE DEF End
<1>6. EditorSound(Updated(ed, [ed.session EXCEPT !.from = from, !.to = End(from)]))
  BY <1>1, <1>5, SessionRevised
<1> QED
  BY <1>2, <1>6, PressOfThePanel

LEMMA EndChanges ==
  ASSUME BandInv, pressed = {}, UNCHANGED bandVars, ChangesEnd
  PROVE  BandInv'
<1>1. Typed /\ ed.session # NoAct
  BY DEF BandInv, ChangesEnd
<1>2. PICK to \in (Max({now, ed.session.from}) + 1)..NSlots :
        PanelPress(Updated(ed, [ed.session EXCEPT !.to = to]))
  BY DEF ChangesEnd
<1>3. Max({now, ed.session.from}) = IF now >= ed.session.from THEN now ELSE ed.session.from
  BY <1>1, SessionIs, LargerOfTwo
<1>4. to \in 0..NSlots /\ ed.session.from \in 0..NSlots /\ ed.session.from < to
  BY <1>1, <1>2, <1>3, SessionIs, SlotsAre
<1>5. [ed.session EXCEPT !.to = to] = [ed.session EXCEPT !.from = ed.session.from, !.to = to]
  BY <1>1, SessionIs DEF Sessions
<1>6. EditorSound(Updated(ed, [ed.session EXCEPT !.to = to]))
  BY <1>1, <1>4, <1>5, SessionRevised
<1> QED
  BY <1>2, <1>6, PressOfThePanel

LEMMA ActionChanges ==
  ASSUME BandInv, pressed = {}, UNCHANGED bandVars, ChangesAction
  PROVE  BandInv'
<1>1. Typed /\ ed.session # NoAct
  BY DEF BandInv, ChangesAction
<1>2. PICK a \in Actions \union {NoAct}, valid \in BOOLEAN :
        /\ Leaves(Updated(ed, [ed.session EXCEPT !.action = a, !.valid = valid]))
        /\ lastAction' = IF valid /\ a # NoAct THEN [lastAction EXCEPT ![ed.lane] = a] ELSE lastAction
  BY DEF ChangesAction
<1> DEFINE s == [ed.session EXCEPT !.action = a, !.valid = valid]
<1>3. s \in Sessions /\ s.from < s.to /\ s.origin = ed.session.origin /\ s.clamped = ed.session.clamped
  BY <1>1, SessionIs DEF Sessions
<1>4. lastAction' \in [Lanes -> Actions]
  BY <1>1, <1>2 DEF Typed
<1> HIDE DEF s
<1>5. EditorSound(Updated(ed, s))
  BY <1>1, <1>3, Revised DEF Typed
<1>6. Leaves(Updated(ed, s))
  BY <1>2 DEF s
<1> QED
  BY <1>1, <1>4, <1>5, <1>6, EditorGoesOn DEF Leaves, Typed, SentTyped

LEMMA PickIsOverridden ==
  ASSUME BandInv, pressed = {}, UNCHANGED bandVars, Overrides
  PROVE  BandInv'
<1>1. Typed /\ ed.picked # NoAct /\ EditorSound(ed) /\ Grounded
      /\ PanelPress(Begun(ed, NoAct, ed.picked, ed.picked.is.act, ed.picked.cut))
  BY DEF BandInv, Overrides, Typed
<1>2. ed.picked \in BandRuns /\ ed.lane \in Lanes /\ ed.picked.is \in Assigned
  BY <1>1, AssignmentsAre DEF EditorSound, Editors, BandRuns
<1> DEFINE a == ed.picked.is.act
           cut == ed.picked.cut
<1>3. a \in Actions \union {NoAct} /\ cut \in BOOLEAN /\ ed.picked.from \in 0..NSlots /\ ed.picked.to \in 0..NSlots
  BY <1>2 DEF BandRuns, Assigned
<1> HIDE DEF a, cut
<1>4. EditorSound(Begun(ed, NoAct, ed.picked, a, cut))
  BY <1>1, <1>2, <1>3, Begins
<1> QED
  BY <1>1, <1>4, PressOfThePanel DEF a, cut

LEMMA StartsInTheWindow ==
  ASSUME BandInv, pressed = {}, UNCHANGED bandVars, StartsHere(View.from)
  PROVE  BandInv'
<1>1. Typed /\ EditorSound(ed) /\ Grounded /\ lastAction \in [Lanes -> Actions] /\ ed.lane \in Lanes
  BY DEF BandInv, StartsHere, Typed, EditorSound, Editors
<1> DEFINE from == View.from
           there == baseline[ed.lane][from]
           a == IF there = NoAct THEN lastAction[ed.lane] ELSE there.act
           uncut == FALSE
<1>2. PICK to \in (from + 1)..NSlots : PanelPress(Begun(ed, NoAct, [from |-> from, to |-> to], a, uncut))
  BY DEF StartsHere
<1>3. from \in Int /\ from >= 0 /\ from < to /\ to \in Int /\ to <= NSlots /\ NSlots \in Int
  <2>1. from \in Int /\ from >= now /\ now \in Int /\ 0 <= now /\ NSlots \in Int
    BY <1>1, WindowStart, SlotsAre DEF Grounded
  <2> HIDE DEF from
  <2> QED
    BY <1>2, <2>1
<1> HIDE DEF from
<1>4. from \in Slots
  BY <1>3, SlotsAre
<1>5. a \in Actions \union {NoAct}
  <2>1. there \in Assignments
    BY <1>1, <1>4 DEF Grounded, Schedules
  <2>2. there # NoAct => there.act \in Actions
    BY <2>1, AssignmentsAre DEF Assigned
  <2> QED
    BY <1>1, <2>2
<1>6. uncut \in BOOLEAN
  OBVIOUS
<1> DEFINE r == [from |-> from, to |-> to]
<1>7. r.from \in 0..NSlots /\ r.to \in 0..NSlots
  BY <1>3
<1> HIDE DEF a, uncut, r
<1>8. EditorSound(Begun(ed, NoAct, r, a, uncut))
  BY <1>1, <1>5, <1>6, <1>7, Begins
<1> QED
  BY <1>2, <1>8, PressOfThePanel DEF r

LEMMA BatchIsTyped ==
  ASSUME Typed, NEW s \in DOMAIN Batch
  PROVE  s \in Slots /\ Batch[s] \in [Lanes -> Actions \union {NoAct}]
<1>1. s \in Slots /\ Batch[s] = PatchOf(s)
  BY DEF Batch, PatchedSlots
<1>2. ASSUME NEW l \in Lanes
      PROVE  (IF SlotIsDirty(l, ed.drafts[l], s)
              THEN IF ed.drafts[l][s] = Freed THEN NoAct ELSE ed.drafts[l][s]
              ELSE IF IsUsers(stored, l, s) THEN stored[l][s].act ELSE NoAct) \in Actions \union {NoAct}
  <2>1. ed.drafts[l][s] \in Actions \union {NoAct, Freed}
    BY <1>1 DEF Typed, EditorSound, Editors, Drafts
  <2>2. stored[l][s] \in Assignments
    BY <1>1 DEF Typed, Grounded, Schedules
  <2>3. IsUsers(stored, l, s) => stored[l][s].act \in Actions
    BY <2>2, AssignmentsAre DEF IsUsers, Assigned
  <2> QED
    BY <2>1, <2>3
<1> QED
  BY <1>1, <1>2 DEF PatchOf

LEMMA SavingSends ==
  ASSUME BandInv, pressed = {}, UNCHANGED bandVars, Saves \/ DeclinesToSave
  PROVE  BandInv'
<1>1. Typed /\ EditorSound(ed) /\ lastAction \in [Lanes -> Actions]
  BY DEF BandInv, Typed
<1>2. CASE Saves
  <2> DEFINE c == Committed(ed)
             n == (PatchedSlots = {})
             e == [c EXCEPT !.notice = n]
  <2>1. /\ c \in Editors /\ EdgesHold(c) /\ c.session = NoAct /\ c.lane = ed.lane /\ c.picked = ed.picked
    BY <1>1, CommitLeaves
  <2>2. ed' = e /\ sent' = (IF PatchedSlots = {} THEN NoAct ELSE Batch)
        /\ UNCHANGED <<clock, now, stored, baseline, lastAction>>
    BY <1>2 DEF Saves
  <2>3. n \in BOOLEAN
    OBVIOUS
  <2> HIDE DEF c, n
  <2>4. /\ e \in Editors /\ e.drafts = c.drafts /\ e.edges = c.edges /\ e.session = NoAct /\ e.lane = ed.lane
        /\ e.picked = ed.picked
    BY <2>1, <2>3 DEF Editors
  <2> HIDE DEF e
  <2>5. EditorSound(e)
    BY <1>1, <2>1, <2>4 DEF EditorSound, SessionStands, EdgesHold
  <2>6. SentTyped'
    BY <1>1, <2>2, BatchIsTyped DEF SentTyped
  <2> QED
    BY <1>1, <2>2, <2>5, <2>6, EditorGoesOn
<1>3. CASE DeclinesToSave
  <2> DEFINE e == [ed EXCEPT !.notice = TRUE]
  <2>1. ed' = e /\ UNCHANGED <<clock, now, stored, baseline, lastAction, sent>>
    BY <1>3 DEF DeclinesToSave
  <2>2. EditorSound(e)
    BY <1>1 DEF EditorSound, SessionStands, EdgesHold, BeforeStands, Editors
  <2> HIDE DEF e
  <2> QED
    BY <1>1, <2>1, <2>2, EditorGoesOn DEF Typed, SentTyped
<1> QED
  BY <1>2, <1>3

LEMMA PanelIsUsed ==
  ASSUME BandInv, pressed = {}, UNCHANGED bandVars, Panel \/ StartsHere(View.from)
  PROVE  BandInv'
<1>1. EditorSound(ed) /\ lastAction \in [Lanes -> Actions]
  BY DEF BandInv, Typed
<1>2. CASE Removes
  BY <1>1, <1>2, Deletes, PressOfThePanel DEF Removes
<1>3. CASE LetsGo
  BY <1>1, <1>3, ClearLeaves, PressOfThePanel DEF LetsGo
<1>4. CASE LeavesTheLanes
  BY <1>1, <1>4, LaneTaken, PressOfThePanel DEF LeavesTheLanes
<1>5. CASE SwitchesMode
  BY <1>1, <1>5, ClearLeaves, EditorGoesOn DEF SwitchesMode, Leaves, BandInv, Typed, SentTyped
<1> QED
  BY <1>2, <1>3, <1>4, <1>5, StartChanges, EndChanges, ActionChanges, PickIsOverridden, StartsInTheWindow,
     SavingSends
  DEF Panel

LEMMA BeginsOnNothing ==
  ASSUME Grounded, NEW e, EditorSound(e), e.lane \in Lanes,
         NEW r, r.from \in 0..NSlots, r.to \in 0..NSlots,
         NEW action \in Actions \union {NoAct}, NEW cut \in BOOLEAN
  PROVE  EditorSound(Begun(e, NoAct, r, action, cut)) /\ Begun(e, NoAct, r, action, cut).lane = e.lane
BY Begins

(* A press on nothing opens what the lane did last, an hour of it at most.    *)
LEMMA GapOpens ==
  ASSUME Grounded, NEW e, EditorSound(e), NEW l \in Lanes, lastAction \in [Lanes -> Actions],
         NEW from \in 0..NSlots, NEW limit \in 0..NSlots
  PROVE  EditorSound(GapSelected(e, l, from, limit)) /\ GapSelected(e, l, from, limit).lane = l
<1> DEFINE to == Min({DefaultEnd(from), limit})
           r  == [from |-> from, to |-> to]
           a  == lastAction[l]
           uncut == FALSE
           on == OnLane(e, l)
<1>1. NSlots \in Nat /\ HourSlots \in Nat /\ from \in Nat /\ limit \in Nat /\ limit <= NSlots
  BY EditorBounds
<1>2. Min({from + HourSlots, NSlots}) = IF from + HourSlots <= NSlots THEN from + HourSlots ELSE NSlots
  BY <1>1, SmallerOfTwo
<1>3. DefaultEnd(from) \in Int /\ DefaultEnd(from) >= 0
  BY <1>1, <1>2 DEF DefaultEnd
<1>4. to = IF DefaultEnd(from) <= limit THEN DefaultEnd(from) ELSE limit
  BY <1>1, <1>3, SmallerOfTwo
<1>5. to \in 0..NSlots
  BY <1>1, <1>3, <1>4
<1> HIDE DEF to
<1>6. r.from \in 0..NSlots /\ r.to \in 0..NSlots /\ a \in Actions \union {NoAct} /\ uncut \in BOOLEAN
  BY <1>5
<1>7. GapSelected(e, l, from, limit) = Begun(on, NoAct, r, a, uncut)
  BY DEF GapSelected, to
<1>8. EditorSound(on) /\ on.lane = l /\ on.lane \in Lanes
  BY LaneTaken
<1> DEFINE x == Begun(on, NoAct, r, a, uncut)
<1> HIDE DEF on, r, a, uncut
<1>9. EditorSound(x) /\ x.lane = on.lane
  BY <1>6, <1>8, BeginsOnNothing
<1> QED
  BY <1>7, <1>8, <1>9

(* What a press that is held has hold of is under it.                        *)
LEMMA PressDecides ==
  ASSUME Typed, drag = NoAct, NEW f \in Pointers, NEW l \in Lanes, NEW p \in View.from..(View.to - 1),
         Presses(f, l, p)
  PROVE  IF drag' = NoAct THEN ed' = ed \/ ed' = OnLane(ed, l)
         ELSE /\ ed' = ed /\ ed.lane \in Lanes /\ drag'.finger = f /\ DragStands(drag')
              /\ drag'.block # NoAct => drag'.block \in BandBlocks(ed, ed.lane)
<1>1. CASE explaining \/ l # ed.lane
  BY <1>1 DEF Presses
<1>2. CASE ~explaining /\ l = ed.lane
  <2> DEFINE first == Clamp(p, now, NSlots - 1)
  <2>1. p \in Slots /\ p >= now /\ Snaps(p) \subseteq 0..NSlots
    BY InTheWindow
  <2>2. now \in Int /\ now >= 0 /\ now < NSlots /\ NSlots \in Int /\ now \in Slots
    BY SlotsAre DEF Typed, Grounded
  <2>3. first \in Int /\ first >= now /\ first < NSlots
    BY <2>1, <2>2, SlotsAre, ClampIs
  <2>4. ASSUME NEW b \in BandBlocks(ed, l), NEW grab \in Snaps(p), NEW mode \in Modes(b),
               drag' = DragFrom(f, b, NoAct, mode, p, grab)
        PROVE  /\ drag' # NoAct /\ drag'.finger = f /\ DragStands(drag') /\ drag'.block = b
    <3>1. b \in BandRuns /\ b.is \in Assigned /\ now <= b.from /\ b.from < b.to /\ b.to <= NSlots /\ b # NoAct
      BY <1>2, NoActAssumption, HorizonBlockIs DEF Typed, EditorSound, Editors, BandBlocks
    <3>2. mode \in {"move", "start", "end"} /\ grab \in 0..NSlots /\ b.from \in 0..NSlots /\ b.to \in 0..NSlots
      BY <2>1, <3>1 DEF Modes, BandRuns
    <3> DEFINE d == DragFrom(f, b, NoAct, mode, p, grab)
               users == (b.is.by = "user")
    <3>3. d = [finger |-> f, block |-> b, gap |-> NoAct, mode |-> IF users THEN mode ELSE "paint",
               from |-> IF users THEN b.from ELSE first, to |-> IF users THEN b.to ELSE first + 1,
               grab |-> grab, min |-> now, started |-> FALSE]
      BY <3>1 DEF DragFrom
    <3>4. users \in BOOLEAN
      OBVIOUS
    <3> HIDE DEF first, d
    <3>5. d \in Drags /\ d.from < d.to /\ d.min <= d.from /\ d.min <= now
      <4>1. CASE users
        BY <2>2, <3>1, <3>2, <3>3, <4>1 DEF Drags
      <4>2. CASE ~users
        BY <2>2, <2>3, <3>1, <3>2, <3>3, <4>2 DEF Drags
      <4> QED
        BY <4>1, <4>2
    <3>6. DragStands(d)
      BY <3>1, <3>2, <3>3, <3>5 DEF DragStands
    <3>7. d # NoAct
      BY <3>5, PointersAssumption
    <3> QED
      BY <2>4, <3>3, <3>6, <3>7 DEF d
  <2>5. ASSUME NEW g \in Gaps, NEW grab \in Snaps(p), drag' = DragFrom(f, NoAct, g, "move", p, grab)
        PROVE  /\ drag' # NoAct /\ drag'.finger = f /\ DragStands(drag') /\ drag'.block = NoAct
    <3>1. g \in Ranges /\ grab \in 0..NSlots /\ g # NoAct
      BY <2>1, GapsAre, NoActAssumption
    <3> DEFINE d == DragFrom(f, NoAct, g, "move", p, grab)
    <3>2. d = [finger |-> f, block |-> NoAct, gap |-> g, mode |-> "paint", from |-> first, to |-> first + 1,
               grab |-> grab, min |-> now, started |-> FALSE]
      BY DEF DragFrom
    <3> HIDE DEF first, d
    <3>3. d \in Drags /\ d.from < d.to /\ d.min <= d.from /\ d.min <= now
      BY <2>2, <2>3, <3>1, <3>2 DEF Drags
    <3>4. DragStands(d) /\ d # NoAct
      BY <3>1, <3>2, <3>3, PointersAssumption DEF DragStands
    <3> QED
      BY <2>5, <3>2, <3>4 DEF d
  <2>6. /\ ed' = ed
        /\ \/ \E b \in BandBlocks(ed, l), grab \in Snaps(p) : \E mode \in Modes(b) :
                 drag' = DragFrom(f, b, NoAct, mode, p, grab)
           \/ \E g \in Gaps, grab \in Snaps(p) : drag' = DragFrom(f, NoAct, g, "move", p, grab)
    BY <1>2 DEF Presses
  <2>7. CASE \E b \in BandBlocks(ed, l), grab \in Snaps(p) : \E mode \in Modes(b) :
                 drag' = DragFrom(f, b, NoAct, mode, p, grab)
    BY <1>2, <2>4, <2>6, <2>7
  <2>8. CASE \E g \in Gaps, grab \in Snaps(p) : drag' = DragFrom(f, NoAct, g, "move", p, grab)
    BY <1>2, <2>5, <2>6, <2>8
  <2> QED
    BY <2>6, <2>7, <2>8
<1> QED
  BY <1>1, <1>2

LEMMA BandKeys ==
  ASSUME BandInv, pressed = {}, KeyPresses
  PROVE  BandInv'
<1>1. Typed /\ EditorSound(ed) /\ Grounded /\ lastAction \in [Lanes -> Actions]
  BY DEF BandInv, Typed
<1>2. UNCHANGED <<clock, now, stored, baseline, lastAction, sent>> /\ UNCHANGED bandVars
  BY DEF KeyPresses, BandFrame
<1>3. PICK l \in Lanes : \/ ed' = OnLane(ed, l)
                         \/ \E b : ed' = BlockSelected(ed, l, b)
                         \/ l = ed.lane /\ \E g \in Gaps : ed' = GapSelected(ed, l, g.from, g.to)
  BY DEF KeyPresses
<1>4. \E e : EditorSound(e) /\ ed' = e
  <2>1. CASE ed' = OnLane(ed, l)
    BY <1>1, <2>1, LaneTaken
  <2>2. ASSUME NEW b, ed' = BlockSelected(ed, l, b) PROVE \E e : EditorSound(e) /\ ed' = e
    BY <1>1, <2>2, SelectsABlock
  <2>3. ASSUME NEW g \in Gaps, l = ed.lane, ed' = GapSelected(ed, l, g.from, g.to)
        PROVE  \E e : EditorSound(e) /\ ed' = e
    BY <1>1, <2>3, GapsAre, GapOpens DEF Ranges
  <2> QED
    BY <1>3, <2>1, <2>2, <2>3
<1>5. lastAction' \in [Lanes -> Actions] /\ SentTyped'
  BY <1>1, <1>2 DEF Typed, SentTyped
<1> QED
  BY <1>2, <1>4, <1>5, EditorGoesOn

(* ---------------- The pointers. ---------------- *)

(* Before a finger has gone down beside it, a press has moved nothing.       *)
LEMMA HandsAre ==
  ASSUME BandInv
  PROVE  /\ EditorSound(ed) /\ ed \in Editors /\ Grounded /\ now \in Int /\ NoAct \notin pressed
         /\ Two \notin pressed
         /\ snapshot # NoAct => EditorSound(snapshot) /\ snapshot \in Editors
BY SlotsAre, PointersAssumption DEF BandInv, Typed, HandsStand, EditorSound, Grounded, Pointers, Two

LEMMA PressIsStarted ==
  ASSUME BandInv, NEW f \in Pointers, PointerDown(f)
  PROVE  BandInv'
<1>1. Typed /\ EditorSound(ed) /\ ed \in Editors /\ Grounded /\ drag = NoAct /\ touches = {} /\ pan = NoAct
      /\ snapshot = NoAct
  BY NoHands, HandsAre DEF BandInv, PointerDown
<1>2. /\ UNCHANGED <<clock, now, stored, baseline, lastAction, sent, pan, viewStart>>
      /\ pressed' = {f} /\ snapshot' = ed
      /\ touches' = (IF f = Mouse THEN touches ELSE {f}) /\ atPress' = (IF f = Mouse THEN atPress ELSE ed)
  BY <1>1 DEF PointerDown, BandFrame, PressCaptured, SnapshotAtPress
<1>3. PICK l \in Lanes, p \in View.from..(View.to - 1) : Presses(f, l, p)
  BY DEF PointerDown
<1>4. now' \in Int /\ now \in Int /\ now <= now' /\ ed # NoAct
  BY <1>1, <1>2, HandsAre, NoActAssumption
<1>5. EditorSound(snapshot)'
  BY <1>1, <1>2, <1>4, StaysSound
<1>6. SentTyped' /\ Grounded'
  BY <1>1, <1>2 DEF Typed, SentTyped, Grounded
<1>7. CASE drag' = NoAct
  <2>1. \E e : EditorSound(e) /\ ed' = e /\ (e = ed \/ e = OnLane(ed, l))
    BY <1>1, <1>3, LaneTaken, <1>7, PressDecides DEF Presses
  <2>2. EditorSound(ed)'
    BY <1>2, <1>4, <2>1, StaysSound
  <2>3. Typed'
    BY <1>1, <1>2, <1>6, <2>2 DEF Typed
  <2>4. HandsStand'
    BY <1>1, <1>2, <1>4, <1>5, <1>7, AlikeIs, PointersAssumption DEF HandsStand, Pointers, Two, Alike
  <2> QED
    BY <1>7, <2>3, <2>4 DEF BandInv, PressedIsThere
<1>8. CASE drag' # NoAct
  <2>1. ed' = ed /\ ed.lane \in Lanes /\ DragStands(drag') /\ drag'.finger = f
        /\ (drag'.block # NoAct => drag'.block \in BandBlocks(ed, ed.lane))
    BY <1>1, <1>3, <1>8, PressDecides
  <2>2. EditorSound(ed)'
    BY <1>1, <1>2, <1>4, <2>1, StaysSound
  <2>3. Typed'
    BY <1>1, <1>2, <1>6, <2>2 DEF Typed
  <2>4. DragStands(drag)'
    BY <1>2, <2>1 DEF DragStands
  <2>5. HandsStand'
    BY <1>1, <1>2, <1>4, <1>5, <2>1, <2>4, AlikeIs, PointersAssumption DEF HandsStand, Pointers, Two, Alike
  <2>6. BandBlocks(ed, ed.lane)' = BandBlocks(ed, ed.lane)
    BY <1>2, <2>1 DEF BandBlocks, HorizonBlocks, Blocks, Agree, ShownIn, LaneSplits, Places, SessionEdges
  <2>7. PressedIsThere'
    BY <2>1, <2>6 DEF PressedIsThere
  <2> QED
    BY <2>3, <2>5, <2>7 DEF BandInv
<1> QED
  BY <1>7, <1>8

LEMMA PanIsStarted ==
  ASSUME BandInv, NEW f \in Pointers, PanBegins(f)
  PROVE  BandInv'
<1>1. Typed /\ EditorSound(ed) /\ ed \in Editors /\ Grounded /\ drag = NoAct /\ touches = {} /\ pan = NoAct
      /\ snapshot = NoAct
  BY NoHands, HandsAre DEF BandInv, PanBegins
<1>2. /\ UNCHANGED <<clock, now, stored, baseline, lastAction, sent, viewStart, ed, drag>>
      /\ pressed' = {f} /\ snapshot' = ed /\ pan' = f
      /\ touches' = (IF f = Mouse THEN touches ELSE {f}) /\ atPress' = (IF f = Mouse THEN atPress ELSE ed)
  BY <1>1 DEF PanBegins, BandFrame, PressCaptured, SnapshotAtPress
<1>3. now' \in Int /\ now \in Int /\ now <= now' /\ ed # NoAct
  BY <1>1, <1>2, HandsAre, NoActAssumption
<1>4. EditorSound(snapshot)' /\ EditorSound(ed)'
  BY <1>1, <1>2, <1>3, StaysSound
<1>5. Typed'
  BY <1>1, <1>2, <1>4 DEF Typed, SentTyped, Grounded
<1>6. HandsStand'
  BY <1>1, <1>2, <1>3, <1>4, AlikeIs, PointersAssumption DEF HandsStand, Pointers, Alike
<1> QED
  BY <1>1, <1>2, <1>5, <1>6 DEF BandInv, PressedIsThere

(* The second finger puts back what was there when the first came down.      *)
LEMMA FingerJoins ==
  ASSUME BandInv, NEW f \in Touches, SecondFingerDown(f)
  PROVE  BandInv'
<1> DEFINE snap == SnapshotAtPress
           e == [snap EXCEPT !.notice = ed.notice]
<1>1. /\ UNCHANGED <<clock, now, stored, baseline, lastAction, sent, viewStart, atPress>>
      /\ pressed' = pressed \union {f} /\ touches' = touches \union {f} /\ drag' = NoAct
      /\ ed' = e /\ snapshot' = NoAct /\ pan' = Two
  BY DEF SecondFingerDown, BandFrame, PressCaptured, Restored
<1>2. Typed /\ HandsStand /\ EditorSound(ed) /\ ed \in Editors /\ Grounded
  BY HandsAre DEF BandInv
<1>3. touches # {}
  <2>1. Cardinality(touches) = 1
    BY DEF SecondFingerDown
  <2> QED
    BY <2>1, FS_EmptySet
<1>4. EditorSound(snap) /\ snap \in Editors /\ Alike(snap, atPress)
  BY <1>2, <1>3, HandsAre DEF HandsStand, SnapshotAtPress, EditorSound
<1> HIDE DEF snap
<1>5. ed.notice \in BOOLEAN
  BY <1>2 DEF Editors
<1>6. EditorSound(e) /\ Alike(e, snap)
  <2>1. e \in Editors /\ e.drafts = snap.drafts /\ e.edges = snap.edges /\ e.lane = snap.lane
        /\ e.session = snap.session /\ e.before = snap.before /\ e.picked = snap.picked
    BY <1>4, <1>5 DEF Editors
  <2>2. Alike(e, snap)
    BY <1>4, <1>5, AlikeIs
  <2> HIDE DEF e
  <2> QED
    BY <1>4, <2>1, <2>2 DEF EditorSound, SessionStands, BeforeStands, EdgesHold
<1> HIDE DEF e
<1>7. EditorSound(ed)' /\ Alike(ed, atPress)'
  <2>1. now \in Int /\ now' = now
    BY <1>1, HandsAre
  <2>2. Alike(e, atPress)
    BY <1>4, <1>6, AlikeIs
  <2> QED
    BY <1>1, <1>6, <2>1, <2>2, StaysSound DEF Alike
<1>8. Typed'
  BY <1>1, <1>2, <1>7 DEF Typed, SentTyped, Grounded
<1>9. HandsStand'
  BY <1>1, <1>2, <1>7 DEF HandsStand, Pointers
<1> QED
  BY <1>1, <1>8, <1>9 DEF BandInv, PressedIsThere

(* A drag that goes on reshapes what it holds, which it selects first.       *)
LEMMA MovesAre ==
  ASSUME BandInv, PointerMoves
  PROVE  /\ drag # NoAct /\ DragStands(drag) /\ ed.lane \in Lanes
         /\ UNCHANGED <<clock, now, stored, baseline, lastAction, explaining, sent, foreign, acts, pan,
                        touches, pressed, snapshot, viewStart, atPress>>
         /\ drag' = [drag EXCEPT !.started = TRUE]
         /\ EditorSound(ed') /\ ed'.lane = ed.lane
         /\ drag.mode # "paint" =>
              LET e == IF Selects THEN BlockSelected(ed, ed.lane, drag.block) ELSE ed
              IN  ed' = e \/ \E r \in Ranges : ed' = Reshaped(e, r)
<1> DEFINE e == IF Selects THEN BlockSelected(ed, ed.lane, drag.block) ELSE ed
           painting == drag.mode = "paint"
           first == painting /\ reach = NoAct
<1>1. /\ drag # NoAct /\ DragStands(drag) /\ ed.lane \in Lanes /\ Grounded /\ EditorSound(ed) /\ Typed
      /\ lastAction \in [Lanes -> Actions]
      /\ UNCHANGED <<clock, now, stored, baseline, lastAction, explaining, sent, foreign, acts, pan,
                     touches, pressed, snapshot, viewStart, atPress>>
      /\ drag' = [drag EXCEPT !.started = TRUE]
  BY DEF PointerMoves, BandInv, Typed, HandsStand, BandFrame
<1>2. EditorSound(e) /\ e.lane = ed.lane
  BY <1>1, SelectsABlock
<1>3. PICK p \in View.from..(View.to - 1) : \E q \in Snaps(p) :
        LET range == IF painting THEN PaintRange(p) ELSE DragRange(q)
        IN  ed' = IF range = reach THEN e
                  ELSE IF painting THEN Painted(e, range, first) ELSE Reshaped(e, range)
  BY DEF PointerMoves
<1>4. PICK q \in Snaps(p) :
        LET range == IF painting THEN PaintRange(p) ELSE DragRange(q)
        IN  ed' = IF range = reach THEN e
                  ELSE IF painting THEN Painted(e, range, first) ELSE Reshaped(e, range)
  BY <1>3
<1>5. p \in Slots /\ q \in 0..NSlots
  BY <1>1, InTheWindow
<1> HIDE DEF e, first
<1>6. CASE painting
  <2>1. ed' = e \/ ed' = Painted(e, PaintRange(p), first)
    BY <1>4, <1>6
  <2>2. PaintRange(p) \in Ranges /\ PaintRange(p).from < PaintRange(p).to
    BY <1>1, <1>5, PaintsARange
  <2>3. EditorSound(Painted(e, PaintRange(p), first)) /\ Painted(e, PaintRange(p), first).lane = e.lane
    BY <1>1, <1>2, <2>2, Paints
  <2> QED
    BY <1>1, <1>2, <1>6, <2>1, <2>3
<1>7. CASE ~painting
  <2>1. ed' = e \/ ed' = Reshaped(e, DragRange(q))
    BY <1>4, <1>7
  <2>2. DragRange(q) \in Ranges
    BY <1>1, <1>5, <1>7, DragsARange
  <2>3. EditorSound(Reshaped(e, DragRange(q))) /\ Reshaped(e, DragRange(q)).lane = e.lane
    BY <1>1, <1>2, <2>2, Reshapes
  <2> QED
    BY <1>1, <1>2, <2>1, <2>2, <2>3 DEF e
<1> QED
  BY <1>6, <1>7

LEMMA DragGoesOn ==
  ASSUME BandInv, PointerMoves
  PROVE  BandInv'
<1>1. /\ drag # NoAct /\ DragStands(drag) /\ ed.lane \in Lanes
      /\ UNCHANGED <<clock, now, stored, baseline, lastAction, sent, pan,
                     touches, pressed, snapshot, viewStart, atPress>>
      /\ drag' = [drag EXCEPT !.started = TRUE]
      /\ EditorSound(ed') /\ ed'.lane = ed.lane
  BY MovesAre
<1>2. Typed /\ HandsStand /\ now \in Int /\ now' = now
  BY <1>1, HandsAre DEF BandInv
<1>3. EditorSound(ed)'
  BY <1>1, <1>2, StaysSound
<1>4. Typed'
  BY <1>1, <1>2, <1>3 DEF Typed, SentTyped, Grounded
<1>5. drag'.started = TRUE /\ drag'.finger = drag.finger /\ DragStands(drag)'
  BY <1>1, <1>2 DEF DragStands, Drags
<1>6. (snapshot # NoAct => EditorSound(snapshot))'
  BY <1>1, <1>2, StaysSound DEF HandsStand
<1>7. HandsStand'
  BY <1>1, <1>2, <1>5, <1>6, PointersAssumption DEF HandsStand, Alike
<1> QED
  BY <1>4, <1>5, <1>7 DEF BandInv, PressedIsThere

(* A press that never moved is a tap.                                        *)
LEMMA TapsAre ==
  ASSUME BandInv, drag # NoAct
  PROVE  EditorSound(Tapped(drag.grab)) /\ Tapped(drag.grab).lane = ed.lane
<1>1. /\ DragStands(drag) /\ ed.lane \in Lanes /\ Grounded /\ EditorSound(ed) /\ lastAction \in [Lanes -> Actions]
  BY DEF BandInv, Typed, HandsStand
<1>2. CASE drag.block = NoAct
  <2> DEFINE high == Max({drag.gap.to - 1, drag.gap.from})
             at == Clamp(drag.grab, drag.gap.from, high)
  <2>1. drag.gap \in Ranges
    BY <1>1, <1>2 DEF DragStands, Drags
  <2>2. drag.gap.from \in 0..NSlots /\ drag.gap.to \in 0..NSlots /\ drag.grab \in 0..NSlots /\ NSlots \in Nat
    BY <1>1, <2>1, SlotsAre DEF DragStands, Drags, Ranges
  <2>3. high = IF drag.gap.to - 1 >= drag.gap.from THEN drag.gap.to - 1 ELSE drag.gap.from
    BY <2>2, LargerOfTwo
  <2>4. high \in 0..NSlots
    BY <2>2, <2>3
  <2>5. at \in 0..NSlots
    <3> HIDE DEF high
    <3> QED
      BY <2>2, <2>4, ClampIs
  <2>6. Tapped(drag.grab) = GapSelected(ed, ed.lane, at, drag.gap.to)
    BY <1>2 DEF Tapped
  <2> DEFINE limit == drag.gap.to
             x     == GapSelected(ed, ed.lane, at, limit)
  <2>7. limit \in 0..NSlots
    BY <2>2
  <2> HIDE DEF at, limit
  <2>8. EditorSound(x) /\ x.lane = ed.lane
    BY <1>1, <2>5, <2>7, GapOpens
  <2> QED
    BY <2>6, <2>8 DEF limit
<1>3. CASE drag.block # NoAct
  <2>1. Tapped(drag.grab) = Cleared(ed) \/ Tapped(drag.grab) = BlockSelected(ed, ed.lane, drag.block)
    BY <1>3 DEF Tapped
  <2> QED
    BY <1>1, <2>1, ClearLeaves, SelectsABlock
<1> QED
  BY <1>2, <1>3

LEMMA PressEnds ==
  ASSUME BandInv, NEW f \in Pointers, NEW lost \in BOOLEAN, PointerUp(f, lost)
  PROVE  BandInv'
<1>1. /\ UNCHANGED <<clock, now, stored, baseline, lastAction, sent, viewStart>>
      /\ pressed' = pressed \ {f} /\ touches' = touches \ {f}
      /\ snapshot' = (IF pressed' = {} THEN NoAct ELSE snapshot)
      /\ pan' = (IF pan \in {Two, f} THEN NoAct ELSE pan)
      /\ atPress' = (IF touches' = {} THEN NoAct ELSE atPress)
  BY DEF PointerUp, BandFrame
<1>2. Typed /\ HandsStand /\ EditorSound(ed) /\ Grounded /\ now \in Int /\ now' = now
  BY <1>1, HandsAre DEF BandInv
<1>3. IF drag # NoAct /\ drag.finger = f THEN drag' = NoAct /\ (ed' = ed \/ ed' = Tapped(drag.grab))
      ELSE drag' = drag /\ ed' = ed
  BY DEF PointerUp
<1>4. \E e : EditorSound(e) /\ ed' = e
  BY <1>2, <1>3, TapsAre
<1>5. EditorSound(ed)'
  BY <1>1, <1>2, <1>4, StaysSound
<1>6. Typed'
  BY <1>1, <1>2, <1>5 DEF Typed, SentTyped, Grounded
<1>7. (snapshot # NoAct => EditorSound(snapshot))'
  BY <1>1, <1>2, StaysSound DEF HandsStand
<1>8. /\ (touches \subseteq pressed /\ pressed \subseteq Pointers)'
      /\ (pressed = {} => snapshot = NoAct)'
      /\ pan' # Two /\ pan' \in pressed' \union {NoAct}
  BY <1>1, <1>2, PointersAssumption DEF HandsStand
<1>9. (drag # NoAct => /\ DragStands(drag) /\ drag.finger \in pressed /\ ed.lane \in Lanes
                       /\ snapshot # NoAct /\ pan = NoAct)'
  <2>1. SUFFICES ASSUME drag' # NoAct
                 PROVE  /\ DragStands(drag)' /\ drag'.finger \in pressed' /\ ed'.lane \in Lanes
                        /\ snapshot' # NoAct /\ pan' = NoAct
    OBVIOUS
  <2>2. drag' = drag /\ ed' = ed /\ drag # NoAct /\ drag.finger # f
    BY <1>3, <2>1
  <2>3. drag'.finger \in pressed'
    BY <1>1, <1>2, <2>2 DEF HandsStand
  <2>4. DragStands(drag)'
    BY <1>2, <2>2 DEF HandsStand, DragStands
  <2> QED
    BY <1>1, <1>2, <2>2, <2>3, <2>4 DEF HandsStand
<1>10. (touches # {} => IF snapshot = NoAct THEN Alike(ed, atPress) ELSE Alike(snapshot, atPress))'
  <2>1. SUFFICES ASSUME touches' # {}
                 PROVE  (IF snapshot = NoAct THEN Alike(ed, atPress) ELSE Alike(snapshot, atPress))'
    OBVIOUS
  <2>2. touches # {} /\ pressed' # {} /\ snapshot' = snapshot /\ atPress' = atPress
    BY <1>1, <1>2, <2>1 DEF HandsStand
  <2>3. CASE snapshot = NoAct
    <3>1. ed' = ed
      BY <1>2, <1>3, <2>3 DEF HandsStand
    <3> QED
      BY <1>2, <2>2, <2>3, <3>1 DEF HandsStand, Alike
  <2>4. CASE snapshot # NoAct
    BY <1>2, <2>2, <2>4 DEF HandsStand, Alike
  <2> QED
    BY <2>3, <2>4
<1>11. HandsStand'
  BY <1>7, <1>8, <1>9, <1>10 DEF HandsStand
<1>12. PressedIsThere'
  <2>1. SUFFICES ASSUME drag' # NoAct, drag'.started = FALSE, drag'.min = now', drag'.block # NoAct
                 PROVE  (drag.block \in BandBlocks(ed, ed.lane))'
    BY DEF PressedIsThere
  <2>2. drag' = drag /\ ed' = ed
    BY <1>3, <2>1
  <2>3. drag.block \in BandBlocks(ed, ed.lane)
    BY <1>2, <2>1, <2>2 DEF BandInv, PressedIsThere
  <2>4. BandBlocks(ed, ed.lane)' = BandBlocks(ed, ed.lane)
    BY <1>1, <2>2 DEF BandBlocks, HorizonBlocks, Blocks, Agree, ShownIn, LaneSplits, Places, SessionEdges
  <2> QED
    BY <2>2, <2>3, <2>4
<1> QED
  BY <1>6, <1>11, <1>12 DEF BandInv

(* ---------------- The steps. ---------------- *)

LEMMA WindowIsMoved ==
  ASSUME BandInv, WindowMoves
  PROVE  BandInv'
<1>1. UNCHANGED editorVars /\ UNCHANGED <<drag, reach, pan, touches, pressed, snapshot, atPress>>
  BY DEF WindowMoves
<1>2. viewStart' \in Nat \union {NoAct}
  <2>1. PICK start \in now..NSlots : ViewMoves(start)
    BY DEF WindowMoves
  <2>2. now \in Int /\ now >= 0 /\ now < NSlots /\ NSlots \in Int /\ Width \in Int /\ Width >= 1 /\ Width <= NSlots
    BY SlotsAre, PointersAssumption DEF BandInv, Typed, Grounded
  <2>3. ClampView(start) \in Int /\ ClampView(start) >= now
    BY <2>2, ClampIs DEF ClampView
  <2> QED
    BY <2>1, <2>2, <2>3 DEF ViewMoves
<1>3. Typed /\ now' = now /\ clock' = clock /\ sent' = sent /\ stored' = stored
  BY <1>1 DEF BandInv, editorVars
<1>4. SentTyped' /\ stored' \in Schedules /\ now' \in Slots /\ clock' \in Slots
      /\ now <= now' /\ now' <= clock' /\ clock' <= now' + 1
  BY <1>3, SlotsAre DEF Typed, SentTyped, Grounded
<1> QED
  BY <1>1, <1>2, <1>4, BandRests DEF editorVars

LEMMA TheOthersMove ==
  ASSUME BandInv, SaveRefused \/ AnotherWrites \/ SlotElapses \/ ClockSampled, UNCHANGED bandVars
  PROVE  BandInv'
<1>1. Typed /\ now \in Int /\ clock \in Int /\ now <= clock /\ clock <= now + 1 /\ Grounded
      /\ now \in Slots /\ clock \in Slots /\ NSlots \in Int
  BY SlotsAre DEF BandInv, Typed, Grounded
<1>2. UNCHANGED <<baseline, ed, lastAction>>
      /\ UNCHANGED <<drag, pan, touches, pressed, snapshot, atPress, viewStart>>
  BY DEF SaveRefused, AnotherWrites, SlotElapses, ClockSampled, bandVars
<1>3. SentTyped'
  BY <1>1 DEF SaveRefused, AnotherWrites, SlotElapses, ClockSampled, Typed, SentTyped
<1>4. stored' \in Schedules
  <2>1. CASE AnotherWrites
    <3>1. PICK w \in Foreign : stored' = [stored EXCEPT ![w.lane][w.slot] = w.as]
      BY <2>1 DEF AnotherWrites
    <3>2. w.lane \in Lanes /\ w.slot \in Slots /\ w.as \in Assignments
      BY EditorBounds
    <3> QED
      BY <1>1, <3>1, <3>2 DEF Grounded, Schedules
  <2>2. CASE SaveRefused \/ SlotElapses \/ ClockSampled
    BY <1>1, <2>2 DEF SaveRefused, SlotElapses, ClockSampled, Grounded
  <2> QED
    BY <2>1, <2>2
<1>5. /\ now' \in Slots /\ clock' \in Slots /\ now <= now' /\ now' <= clock' /\ clock' <= now' + 1
      /\ viewStart' \in Nat \union {NoAct}
  BY <1>1, <1>2, SlotsAre DEF SaveRefused, AnotherWrites, SlotElapses, ClockSampled, Typed
<1> QED
  BY <1>2, <1>3, <1>4, <1>5, BandRests

LEMMA WrittenIsASchedule ==
  ASSUME NEW plan \in Schedules, NEW batch, \A s \in DOMAIN batch : batch[s] \in [Lanes -> Actions \union {NoAct}]
  PROVE  Written(plan, batch) \in Schedules
<1>1. ASSUME NEW l \in Lanes, NEW s \in Slots
      PROVE  (IF s \notin DOMAIN batch THEN plan[l][s]
              ELSE IF batch[s][l] = NoAct THEN NoAct ELSE User(batch[s][l])) \in Assignments
  <2>1. plan[l][s] \in Assignments
    BY DEF Schedules
  <2>2. ASSUME s \in DOMAIN batch, batch[s][l] # NoAct PROVE User(batch[s][l]) \in Assignments
    BY <2>2, AssignmentsAre
  <2> QED
    BY <2>1, <2>2, AssignmentsAre
<1> QED
  BY <1>1 DEF Written, Schedules

LEMMA DialogReopens ==
  ASSUME BandInv, Reopens
  PROVE  BandInv'
<1>1. Typed /\ Grounded /\ now \in Int
  BY HandsAre DEF BandInv
<1>2. /\ UNCHANGED <<clock, now>> /\ sent # NoAct /\ sent' = NoAct /\ stored' = Written(stored, sent)
      /\ baseline' = stored' /\ lastAction' = [l \in Lanes |-> CHOOSE a \in Actions : TRUE]
      /\ drag' = NoAct /\ pan' = NoAct /\ touches' = {} /\ pressed' = {}
      /\ snapshot' = NoAct /\ viewStart' = NoAct
  BY DEF Reopens, SaveStored
<1>3. PICK target \in Lanes \union {NoAct} : ed' = Seeded(target)
  BY DEF Reopens, SaveStored
<1>4. Grounded'
  BY <1>1, <1>2, WrittenIsASchedule DEF Grounded, Typed, SentTyped
<1>5. EditorSound(ed)'
  <2>1. ed' = [drafts |-> [l \in Lanes |-> Untouched], edges |-> [l \in Lanes |-> {}], lane |-> target,
               session |-> NoAct, before |-> NoBefore, picked |-> NoAct, notice |-> FALSE]
    BY <1>3 DEF Seeded
  <2>2. ed' \in Editors
    BY <1>3, Seeds DEF EditorSound
  <2> QED
    BY <2>1, <2>2 DEF EditorSound, SessionStands, EdgesHold
<1>6. lastAction' \in [Lanes -> Actions]
  BY <1>2, EditorBounds
<1>7. Typed'
  BY <1>1, <1>2, <1>4, <1>5, <1>6 DEF Typed, SentTyped
<1> QED
  BY <1>2, <1>7, PointersAssumption DEF BandInv, HandsStand, PressedIsThere

LEMMA BandStarts ==
  ASSUME BandInit
  PROVE  BandInv
<1>1. PICK target \in Lanes \union {NoAct} : ed = Seeded(target)
  BY DEF BandInit, EditorInit
<1>2. EditorSound(ed)
  BY <1>1, Seeds
<1>3. stored \in Schedules /\ baseline \in Schedules /\ now \in Slots /\ clock = now /\ sent = NoAct
      /\ lastAction \in [Lanes -> Actions] /\ now \in Int
  BY EditorBounds, SlotsAre DEF BandInit, EditorInit, Schedules
<1>4. Typed
  BY <1>2, <1>3 DEF BandInit, Typed, Grounded, SentTyped
<1> QED
  BY <1>4, PointersAssumption DEF BandInit, BandInv, HandsStand, PressedIsThere

LEMMA BandGoesOn ==
  BandInv /\ [BandNext]_<<editorVars, bandVars>> => BandInv'
<1> SUFFICES ASSUME BandInv, [BandNext]_<<editorVars, bandVars>> PROVE BandInv'
  OBVIOUS
<1>1. CASE UNCHANGED <<editorVars, bandVars>>
  <2>1. now \in Int /\ Typed /\ UNCHANGED editorVars /\ UNCHANGED bandVars
    BY <1>1, HandsAre DEF BandInv
  <2>2. SentTyped' /\ stored' \in Schedules /\ now' \in Slots /\ clock' \in Slots /\ now <= now' /\ now' <= clock'
        /\ clock' <= now' + 1 /\ viewStart' \in Nat \union {NoAct}
    BY <2>1 DEF editorVars, bandVars, Typed, Grounded, SentTyped
  <2> QED
    BY <2>1, <2>2, BandRests DEF editorVars, bandVars
<1>2. ASSUME NEW f \in Pointers, PointerDown(f) \/ PanBegins(f) PROVE BandInv'
  BY <1>2, PressIsStarted, PanIsStarted
<1>3. ASSUME NEW f \in Touches, SecondFingerDown(f) PROVE BandInv'
  BY <1>3, FingerJoins
<1>4. ASSUME NEW f \in Pointers, NEW lost \in BOOLEAN, PointerUp(f, lost) PROVE BandInv'
  BY <1>4, PressEnds
<1>5. CASE pressed = {} /\ (Panel \/ StartsHere(View.from)) /\ UNCHANGED bandVars
  BY <1>5, PanelIsUsed
<1> QED
  BY <1>1, <1>2, <1>3, <1>4, <1>5, DragGoesOn, WindowIsMoved, BandKeys, TheOthersMove, DialogReopens DEF BandNext

(* The band and the editor hold what they need of each other in every state.  *)
LEMMA BandHolds ==
  BandSpec => []BandInv
BY BandStarts, BandGoesOn, PTL DEF BandSpec
----------------------------------------------------------------------------
(* What holds of the editor and its band.                                    *)

(* Over the range it was opened on, and with the action it had, a session     *)
(* shows what was there, and its two edges are where the block ended.         *)
LEMMA MovedBack ==
  ASSUME Grounded, EditorSound(ed) PROVE MovedBackIsAsBefore
<1> SUFFICES ASSUME ed.session # NoAct, ed.session.origin # NoAct, ed.session.origin.from >= now
             PROVE  LET s == ed.session
                        b == Updated(ed, [s EXCEPT !.from = s.origin.from, !.to = s.origin.to,
                                                   !.action = ShownIn(ed.lane, ed.before.draft, s.origin.from).act,
                                                   !.valid = TRUE])
                    IN  BandBlocks(b, ed.lane) = HorizonBlocks(ed.lane, ed.before.draft, ed.before.edges[ed.lane])
  BY DEF MovedBackIsAsBefore
<1> DEFINE l  == ed.lane
           o  == ed.session.origin
           bd == ed.before.draft
           be == ed.before.edges[ed.lane]
           act == ShownIn(l, bd, o.from).act
           u  == [ed.session EXCEPT !.from = o.from, !.to = o.to, !.action = act, !.valid = TRUE]
           b  == Updated(ed, u)
<1>1. /\ ed \in Editors /\ l \in Lanes /\ ed.session \in Sessions /\ bd \in Drafts /\ ed.before.edges \in Edges
      /\ \A k \in be : Agree(l, bd, k)
      /\ OpenedOn(l, bd, be, ed.session)
  BY DEF EditorSound, SessionStands, BeforeStands, Editors
<1>2. o \in Ranges /\ o.from \in Int /\ o.to \in Int /\ 0 <= o.from /\ o.to <= NSlots /\ now \in Int /\ NSlots \in Int
  BY <1>1, SlotsAre DEF Sessions, Ranges, Grounded
<1>3. PICK from \in Slots :
        /\ IsBlock(l, bd, be, from, o.to) /\ ShownIn(l, bd, from).by = "user"
        /\ from <= o.from /\ o.from < o.to
        /\ ed.session.clamped = TRUE => o.from <= now
        /\ ed.session.clamped = FALSE => o.from = from
  BY <1>1 DEF OpenedOn
<1> HIDE DEF o, bd, be, l
<1>4. from \in Int /\ o.from \in from..(o.to - 1) /\ o.from \in Slots
  BY <1>2, <1>3, SlotsAre
<1>5. \A s \in from..(o.to - 1) : ShownIn(l, bd, s) = ShownIn(l, bd, from)
  BY <1>3, BlockIsOfOne
<1>6. ShownIn(l, bd, from) = User(act) /\ act \in Actions
  <2>1. ShownIn(l, bd, from) \in Assigned
    BY <1>1, <1>3, WhatIsShown, AssignmentsAre DEF IsBlock
  <2>2. ShownIn(l, bd, o.from) = ShownIn(l, bd, from)
    BY <1>4, <1>5
  <2> QED
    BY <1>3, <2>1, <2>2, AssignmentsAre
<1> HIDE DEF act
<1>7. /\ u \in Sessions /\ u.from = o.from /\ u.to = o.to /\ u.action = act /\ u.valid = TRUE /\ u.origin = o
      /\ u.clamped = ed.session.clamped /\ u.clamped \in BOOLEAN
  BY <1>1, <1>2, <1>6 DEF Sessions, Ranges, o
<1>8. Places(u)
  BY <1>6, <1>7, NoActAssumption DEF Places
<1> HIDE DEF u
<1> DEFINE outside == {k \in be : k <= u.from \/ k >= u.to}
           es == [ed.before.edges EXCEPT ![ed.lane] = outside]
           m  == [ed EXCEPT !.session = u, !.edges = es]
           p  == Place(l, bd, o, u, act)
<1>9. b = WithDraft(m, p)
  BY <1>7, <1>8 DEF Updated, l, bd, be
<1>10. p \in Drafts
  BY <1>1, <1>2, <1>6, PlacedIsADraft
<1>11. m \in Editors /\ m.lane = l /\ m.session = u /\ m.edges[l] = outside
  <2>1. es \in Edges /\ es[l] = outside
    BY <1>1 DEF Edges, be, l
  <2> HIDE DEF es
  <2> QED
    BY <1>1, <1>7, <2>1 DEF Editors, l
<1>12. \A s \in Slots : p[s] = IF o.from <= s /\ s < o.to THEN act ELSE bd[s]
  <2>1. o # NoAct /\ FreeOrigin(l, bd, o) = Free(l, bd, o)
    BY <1>2, NoActAssumption DEF FreeOrigin
  <2>2. ASSUME NEW s \in Slots
        PROVE  p[s] = IF s >= now /\ Covers(u, s) THEN act ELSE Free(l, bd, o)[s]
    BY <2>1 DEF Place
  <2>3. ASSUME NEW s \in Slots, ~(s >= now /\ Covers(o, s))
        PROVE  Free(l, bd, o)[s] = bd[s]
    BY <2>3 DEF Free
  <2>4. \A s \in Slots : (s >= now /\ Covers(u, s)) <=> (o.from <= s /\ s < o.to)
    BY <1>2, <1>7, SlotsAre DEF Covers, o
  <2>5. \A s \in Slots : (s >= now /\ Covers(o, s)) <=> (o.from <= s /\ s < o.to)
    BY <1>2, SlotsAre DEF Covers, o
  <2> HIDE DEF p
  <2> QED
    BY <2>2, <2>3, <2>4, <2>5
<1> HIDE DEF p, outside, m
<1>13. ASSUME NEW s \in Slots PROVE ShownIn(l, p, s) = ShownIn(l, bd, s)
  <2>1. CASE o.from <= s /\ s < o.to
    <3>1. p[s] = act
      BY <1>12, <2>1
    <3>2. ShownIn(l, p, s) = User(act)
      BY <1>6, <3>1, NoActAssumption DEF ShownIn
    <3>3. s \in from..(o.to - 1)
      BY <1>2, <1>3, <1>4, <2>1, SlotsAre
    <3> QED
      BY <1>5, <1>6, <3>2, <3>3
  <2>2. CASE ~(o.from <= s /\ s < o.to)
    BY <1>12, <2>2 DEF ShownIn
  <2> QED
    BY <2>1, <2>2
<1>14. \A k : Agree(l, p, k) <=> Agree(l, bd, k)
  BY <1>13, SlotsAre DEF Agree
<1>15. /\ b.lane = l /\ b.session = u /\ b.drafts[l] = p /\ b.edges[l] = Prune(l, p, outside)
  BY <1>1, <1>9, <1>10, <1>11, DraftTakesPlace
<1>16. LaneSplits(b, l) = Prune(l, p, outside) \union SessionEdges(u)
  <2>1. u # NoAct
    BY <1>7, NoActAssumption
  <2> HIDE DEF b
  <2> QED
    BY <1>8, <1>15, <2>1 DEF LaneSplits
<1> HIDE DEF b
<1>17. ASSUME NEW k \in 1..(NSlots - 1), Agree(l, bd, k)
       PROVE  k \in LaneSplits(b, l) <=> k \in be
  <2>1. ASSUME k \in be PROVE k \in LaneSplits(b, l)
    <3>1. k \notin (from + 1)..(o.to - 1)
      BY <1>3, <2>1 DEF IsBlock, Joined
    <3>2. k \in outside
      BY <1>2, <1>3, <1>4, <1>7, <2>1, <3>1 DEF outside
    <3>3. k \in Prune(l, p, outside)
      BY <1>14, <1>17, <3>2, PruneKeeps
    <3> QED
      BY <1>16, <3>3
  <2>2. ASSUME k \in Prune(l, p, outside) PROVE k \in be
    BY <2>2, PruneKeeps DEF outside
  <2>3. ASSUME k \in SessionEdges(u) PROVE k \in be
    <3>1. k = o.to \/ (k = o.from /\ ~(u.clamped /\ o.from <= now))
      BY <1>7, <2>3 DEF SessionEdges
    <3>2. ASSUME k = o.to PROVE k \in be
      BY <1>3, <1>17, <3>2 DEF IsBlock, Joined
    <3>3. ASSUME k = o.from, ~(u.clamped /\ o.from <= now) PROVE k \in be
      <4>1. u.clamped = FALSE
        BY <1>3, <1>7, <3>3
      <4>2. k = from
        BY <1>3, <1>7, <3>3, <4>1
      <4> QED
        BY <1>3, <1>17, <4>2 DEF IsBlock, Joined
    <3> QED
      BY <3>1, <3>2, <3>3
  <2> QED
    BY <1>16, <2>1, <2>2, <2>3
<1>18. BandBlocks(b, l) = HorizonBlocks(l, p, LaneSplits(b, l))
  BY <1>15 DEF BandBlocks
<1>19. HorizonBlocks(l, p, LaneSplits(b, l)) = HorizonBlocks(l, bd, be)
  BY <1>13, <1>17, SameBlocks
<1> QED
  BY <1>18, <1>19 DEF b, u, act, o, bd, be, l

(* Whatever is pressed, dragged, painted, picked or typed, in any lane and in *)
(* any order: every edge the editor keeps still holds two runs apart, letting *)
(* go of the selection leaves the blocks as they are drawn, and a block that  *)
(* is moved back is as it was among the others                                *)
(* (_pruneBlockSplits, _commitEditSession, _updateEditSession).               *)
THEOREM BandStands == BandSpec => []BandInvariant
<1>1. BandInv => BandInvariant
  <2> SUFFICES ASSUME BandInv PROVE BandInvariant
    OBVIOUS
  <2>1. Typed /\ Grounded /\ EditorSound(ed) /\ ed \in Editors /\ now \in Int /\ clock \in Int
        /\ ed.lane \in Lanes \union {NoAct}
    BY HandsAre, SlotsAre DEF BandInv, Typed, Editors
  <2>2. BandTypeOK
    BY <2>1, NoActAssumption, SlotsAre
       DEF BandTypeOK, BandInv, Typed, HandsStand, EditorSound, SessionStands, Editors, Drafts
  <2>3. EveryEdgeHoldsApart
    BY <2>1, PruneKeeps DEF EveryEdgeHoldsApart, EditorSound, EdgesHold
  <2>4. LettingGoKeepsTheBlocks
    BY <2>1, ClearedBlocks DEF LettingGoKeepsTheBlocks
  <2> QED
    BY <2>1, <2>2, <2>3, <2>4, MovedBack DEF BandInvariant
<1> QED
  BY <1>1, BandHolds, PTL

(* A pan by two fingers leaves the draft, the edges and the selection as they *)
(* were before the first of them came down (_handleBandGestureCancel).        *)
THEOREM PansLeaveTheDraft == BandSpec => []PanLeavesTheDraftAlone
<1>1. BandInv => PanLeavesTheDraftAlone
  BY DEF BandInv, HandsStand, Alike, PanLeavesTheDraftAlone
<1> QED
  BY <1>1, BandHolds, PTL

(* What a save sends leaves every slot the draft changed with what the band   *)
(* shows there, and every other one with the user's plan as last read, also   *)
(* where someone else has written in between (buildEntityScheduleLanePatches).*)
THEOREM SavesSendWhatIsShown == BandSpec => SavesWhatIsShown
<1> DEFINE Shown ==
      sent = NoAct /\ sent' # NoAct =>
         \A l \in Lanes, s \in Slots :
            /\ s \in DOMAIN sent' => s >= clock
            /\ s >= clock /\ SlotIsDirty(l, ed.drafts[l], s)
               => Written(stored, sent')[l][s] = ShownIn(l, ed.drafts[l], s)
            /\ ~SlotIsDirty(l, ed.drafts[l], s) /\ IsUsers(stored, l, s)
               => Written(stored, sent')[l][s] = stored[l][s]
<1>1. BandInv /\ [BandNext]_<<editorVars, bandVars>> => Shown
  <2> SUFFICES ASSUME BandInv, [BandNext]_<<editorVars, bandVars>>, sent = NoAct, sent' # NoAct,
                      NEW l \in Lanes, NEW s \in Slots
               PROVE  /\ s \in DOMAIN sent' => s >= clock
                      /\ s >= clock /\ SlotIsDirty(l, ed.drafts[l], s)
                         => Written(stored, sent')[l][s] = ShownIn(l, ed.drafts[l], s)
                      /\ ~SlotIsDirty(l, ed.drafts[l], s) /\ IsUsers(stored, l, s)
                         => Written(stored, sent')[l][s] = stored[l][s]
    OBVIOUS
  <2>1. sent' = Batch
    BY DEF BandNext, editorVars, PointerDown, PanBegins, SecondFingerDown, PointerMoves, PointerUp, BandFrame,
           WindowMoves, KeyPresses, Panel, StartsHere, ChangesStart, ChangesEnd, ChangesAction, Removes, Overrides,
           LetsGo, LeavesTheLanes, SwitchesMode, Saves, DeclinesToSave, PanelPress, Leaves, SaveRefused,
           AnotherWrites, SlotElapses, ClockSampled, Reopens, SaveStored
  <2> DEFINE d == ed.drafts[l][s]
             t == stored[l][s]
             w == Written(stored, sent')[l][s]
  <2>2. d \in Actions \union {NoAct, Freed} /\ t \in Assignments
    BY HandsAre DEF Editors, Drafts, Grounded, Schedules
  <2>3. DOMAIN Batch = PatchedSlots /\ (s \in PatchedSlots => Batch[s] = PatchOf(s) /\ s >= clock)
    BY DEF Batch, PatchedSlots
  <2>4. w = IF s \notin PatchedSlots THEN t ELSE IF PatchOf(s)[l] = NoAct THEN NoAct ELSE User(PatchOf(s)[l])
    BY <2>1, <2>3 DEF Written
  <2>5. PatchOf(s)[l] = IF SlotIsDirty(l, ed.drafts[l], s) THEN IF d = Freed THEN NoAct ELSE d
                        ELSE IF IsUsers(stored, l, s) THEN t.act ELSE NoAct
    BY DEF PatchOf
  <2>6. IsUsers(stored, l, s) => t = User(t.act) /\ t.act \in Actions
    BY <2>2, AssignmentsAre DEF IsUsers
  <2>7. SlotIsDirty(l, ed.drafts[l], s) => d # NoAct
    BY NoActAssumption DEF SlotIsDirty
  <2>8. ShownIn(l, ed.drafts[l], s) = CASE d = NoAct -> baseline[l][s] [] d = Freed -> NoAct [] OTHER -> User(d)
    BY DEF ShownIn
  <2>9. ASSUME s \notin PatchedSlots, s >= clock, SlotIsDirty(l, ed.drafts[l], s)
        PROVE  IsUsers(stored, l, s) /\ PatchOf(s)[l] = t.act
    BY <2>9 DEF PatchedSlots
  <2> HIDE DEF w, d, t
  <2>10. ASSUME s >= clock, SlotIsDirty(l, ed.drafts[l], s) PROVE w = ShownIn(l, ed.drafts[l], s)
    <3>1. CASE s \in PatchedSlots
      BY <2>2, <2>4, <2>5, <2>7, <2>8, <2>10, <3>1, NoActAssumption
    <3>2. CASE s \notin PatchedSlots
      <4>1. t = User(t.act) /\ t.act \in Actions /\ PatchOf(s)[l] = t.act /\ w = t
        BY <2>4, <2>6, <2>9, <2>10, <3>2
      <4>2. d = t.act /\ d # NoAct /\ d # Freed
        BY <2>5, <2>10, <4>1, NoActAssumption
      <4> QED
        BY <2>8, <4>1, <4>2
    <3> QED
      BY <3>1, <3>2
  <2>11. ASSUME ~SlotIsDirty(l, ed.drafts[l], s), IsUsers(stored, l, s) PROVE w = t
    BY <2>4, <2>5, <2>6, <2>11, NoActAssumption
  <2> QED
    BY <2>1, <2>3, <2>10, <2>11 DEF w, t
<1> QED
  BY <1>1, BandHolds, PTL DEF BandSpec, SavesWhatIsShown

(* A drag selects what it pressed before it reshapes anything.               *)
LEMMA FirstMoveSelects ==
  ASSUME BandInv, drag # NoAct, drag.started = FALSE, drag.mode # "paint", ~IsEditing(drag.block), drag.min = now
  PROVE  LET e == BlockSelected(ed, ed.lane, drag.block)
         IN  /\ EditorSound(e) /\ e.session # NoAct /\ e.session.origin # NoAct
             /\ e.session.origin.from < drag.block.to /\ e.session.origin.to > drag.block.from
<1> DEFINE block == drag.block
           l     == ed.lane
           found == {x \in BandBlocks(ed, l) : x.key = block.key /\ x.is.act = block.is.act}
           e     == BlockSelected(ed, l, block)
<1>1. Grounded /\ EditorSound(ed) /\ ed \in Editors /\ l \in Lanes /\ DragStands(drag) /\ drag.block # NoAct
      /\ block.is.by = "user" /\ block \in BandBlocks(ed, l)
  BY HandsAre DEF BandInv, HandsStand, PressedIsThere, DragStands
<1>2. \A x \in BandBlocks(ed, l) :
        /\ x \in BandRuns /\ x.is \in Assigned /\ now <= x.from /\ x.from < x.to
        /\ IsBlock(l, ed.drafts[l], LaneSplits(ed, l), x.key, x.to) /\ x.is = ShownIn(l, ed.drafts[l], x.key)
        /\ x.from = (IF x.key >= now THEN x.key ELSE now) /\ x.cut = (x.key < now)
  BY <1>1, HorizonBlockIs DEF BandBlocks, Editors
<1>3. \A x \in found : x = block
  <2>1. SUFFICES ASSUME NEW x \in BandBlocks(ed, l), x.key = block.key PROVE x = block
    OBVIOUS
  <2>2. x.to = block.to
    BY <1>1, <1>2, <2>1, BlockByItsStart
  <2> QED
    BY <1>1, <1>2, <2>1, <2>2 DEF BandRuns
<1>4. found # {} /\ (CHOOSE x \in found : TRUE) = block
  BY <1>1, <1>3
<1>5. OnLane(ed, l) = ed
  BY DEF OnLane
<1>6. ~(ed.session # NoAct /\ Places(ed.session) /\ block.from < ed.session.to /\ block.to > ed.session.from)
  BY <1>1, NoActAssumption DEF IsEditing, Selection, Editors
<1> DEFINE a == block.is.act
           cut == block.cut
<1>7. e = Begun(ed, block, block, a, cut)
  BY <1>1, <1>4, <1>5, <1>6 DEF BlockSelected
<1>8. /\ a \in Actions \union {NoAct} /\ cut \in BOOLEAN /\ block.from \in 0..NSlots /\ block.to \in 0..NSlots
      /\ now \in Int /\ now <= block.from /\ block.from < block.to /\ block # NoAct /\ block \in BandRuns
  BY <1>1, <1>2, HandsAre, AssignmentsAre DEF BandRuns, Assigned
<1> DEFINE from == IF block.from >= now THEN block.from ELSE now
<1>9. EditorSound(e) /\ (from < block.to => e.session = Opening(block, from, block, a, cut))
  <2> HIDE DEF block, e
  <2>1. cut = block.cut
    OBVIOUS
  <2> HIDE DEF a, cut
  <2> QED
    BY <1>1, <1>7, <1>8, <2>1, Begins
<1>10. from = block.from
  BY <1>8
<1> HIDE DEF e, block, a, cut
<1>11. e.session = Opening(block, block.from, block, a, cut)
  BY <1>8, <1>9, <1>10
<1>12. e.session.origin = [from |-> block.from, to |-> block.to]
  BY <1>8, <1>11 DEF Opening
<1>13. e.session # NoAct
  <2>1. [from |-> block.from, to |-> block.to] \in Ranges
    BY <1>8 DEF Ranges
  <2>2. Opening(block, block.from, block, a, cut) \in Sessions
    BY <1>8, <2>1 DEF Opening, Sessions
  <2> QED
    BY <1>11, <2>2, NoActAssumption
<1>14. e.session.origin \in Ranges /\ e.session.origin # NoAct
  BY <1>8, <1>12, NoActAssumption DEF Ranges
<1> QED
  BY <1>8, <1>9, <1>12, <1>13, <1>14 DEF e, block

(* As long as no slot has ended since the press, what a drag reshapes is a     *)
(* session opened on the block that was pressed, and not the one that was      *)
(* selected before (_handlePointerMove, _handleBandBlockSelect).               *)
THEOREM DragsReshapeWhatTheyPressed == BandSpec => DragsItsOwnBlock
<1>1. BandInv /\ [BandNext]_<<editorVars, bandVars>> => (drag # NoAct /\ drag.min = now => ReshapesWhatItPressed)
  <2> SUFFICES ASSUME BandInv, [BandNext]_<<editorVars, bandVars>>, drag # NoAct, drag.min = now,
                      ~drag.started, drag.mode # "paint", ~IsEditing(drag.block), drag' # NoAct,
                      ed'.session # NoAct, ed'.session # ed.session
               PROVE  /\ ed'.session.origin # NoAct
                      /\ ed'.session.origin.from < drag.block.to
                      /\ ed'.session.origin.to > drag.block.from
    BY DEF ReshapesWhatItPressed
  <2>1. pressed # {} /\ DragStands(drag) /\ Grounded
    BY DEF BandInv, HandsStand, Typed
  <2>2. PointerMoves
    <3>1. ed' # ed
      OBVIOUS
    <3> QED
      BY <2>1, <3>1 DEF BandNext, editorVars, PointerDown, PanBegins, SecondFingerDown, PointerUp, WindowMoves,
                        SaveRefused, AnotherWrites, SlotElapses, ClockSampled, Reopens
  <2> DEFINE e == BlockSelected(ed, ed.lane, drag.block)
  <2>3. drag.started = FALSE
    BY <2>1 DEF DragStands, Drags
  <2>4. /\ EditorSound(e) /\ e.session # NoAct /\ e.session.origin # NoAct
        /\ e.session.origin.from < drag.block.to /\ e.session.origin.to > drag.block.from
    BY <2>3, FirstMoveSelects
  <2>5. Selects
    BY <2>3 DEF Selects
  <2>6. ed' = e \/ \E r \in Ranges : ed' = Reshaped(e, r)
    BY <2>2, <2>5, MovesAre
  <2> HIDE DEF e
  <2> QED
    BY <2>1, <2>4, <2>6, Reshapes
<1> QED
  BY <1>1, BandHolds, PTL DEF BandSpec, DragsItsOwnBlock
============================================================================
