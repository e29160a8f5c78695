--------------------------- MODULE WebSharedProofs ---------------------------
(***************************************************************************)
(* What the views of a tab share, for any number of commands, events,      *)
(* mounts and lost answers.  First the reads: of the store, nothing kept,  *)
(* given or shown is behind what was announced; of the energy card's host  *)
(* over them, the newest load ends in what is stored, whatever overtook    *)
(* it.  Then the schedule and the dialog that edits it.  The wire: each    *)
(* command has one name and one answer, in the order the server took them. *)
(* The owner: its strengthening OwnerInv says that whatever is behind has  *)
(* a read under way or about to be asked for.  The day editor's host over  *)
(* it.  Last the tab as a whole.                                           *)
(***************************************************************************)
EXTENDS MCWebShared, FiniteSetTheorems, SequenceTheorems, TLAPS
----------------------------------------------------------------------------
(* ------------------------ the shared store ------------------------ *)

Versions == [Data -> Nat]
ReadRec == [id : Nat \ {0}, what : Data, at : Nat, turn : Nat]
CallRec == [who : Readers, read : Nat, opened : Nat, again : Nat]
StoreRec == [kept : [Data -> {Unread} \cup Nat], joined : [Data -> Nat], turn : [Data -> Nat],
             opened : Nat, reads : SUBSET ReadRec, count : Nat, calls : SUBSET CallRec,
             seen : [Readers -> {Unread} \cup Nat], missed : [Readers -> BOOLEAN],
             mounted : SUBSET Readers]

(* A read of this turn is the one to join, and was asked for since the last        *)
(* announcement; the one to join is of this turn.                                   *)
ReadsStand(s, v, a) ==
  /\ \A r \in s.reads : r.id <= s.count /\ r.at <= v[r.what] /\ r.turn <= s.turn[r.what]
  /\ \A q, r \in s.reads : q.id = r.id => q = r
  /\ \A r \in s.reads : r.turn = s.turn[r.what] => r.id = s.joined[r.what] /\ r.at >= a[r.what]
  /\ \A what \in Data : s.joined[what] # 0 =>
       \E r \in s.reads : r.id = s.joined[what] /\ r.what = what /\ r.turn = s.turn[what]

KeptStands(s, v, a) ==
  \A what \in Data : s.kept[what] # Unread =>
    s.kept[what] >= a[what] /\ s.kept[what] <= v[what] /\ s.joined[what] = 0

(* Explain awaits its call only while it has not begun anew. *)
Awaits(s, call) == call.who = "explain" => call.opened = s.opened

CallsStand(s) ==
  \A call \in s.calls : call.opened <= s.opened /\
    \E r \in s.reads : /\ r.id = call.read /\ r.what = DataOf(call.who)
                       /\ "explain" \in s.mounted /\ call.who = "explain" /\ Awaits(s, call)
                            => r.turn = s.turn[r.what]

(* What a reader shows is not ahead of what it may be given next. *)
SeenStands(s, v) ==
  \A who \in Readers :
    LET what == DataOf(who) IN
    s.seen[who] # Unread /\ (who = "explain" => who \in s.mounted) =>
      /\ s.seen[who] <= v[what]
      /\ s.kept[what] # Unread => s.seen[who] <= s.kept[what]
      /\ \A r \in s.reads : r.what = what /\ r.turn = s.turn[what] => s.seen[who] <= r.at

CaughtUp(s, a, who) ==
  \/ s.missed[who]
  \/ s.seen[who] # Unread /\ s.seen[who] >= a[DataOf(who)]
  \/ \E call \in s.calls : call.who = who /\ Awaits(s, call)

StoreSound(s, v, a) ==
  /\ s \in StoreRec /\ v \in Versions /\ a \in Versions /\ \A what \in Data : a[what] <= v[what]
  /\ ReadsStand(s, v, a) /\ KeptStands(s, v, a) /\ CallsStand(s) /\ SeenStands(s, v)

StoreInv == /\ StoreSound(shared, versions, announced)
            /\ \A who \in shared.mounted : CaughtUp(shared, announced, who)

LEMMA AwaitingIs ==
  ASSUME NEW s, NEW callers, NEW who
  PROVE  who \in Awaiting(s, callers) <=> \E call \in callers : call.who = who /\ Awaits(s, call)
BY DEF Awaiting, Awaits

LEMMA DataOfReaders ==
  /\ \A who \in Readers : DataOf(who) \in Data
  /\ \A who \in Readers : DataOf(who) = "records" <=> who = "explain"
BY DEF Readers, Data, DataOf

(* What a reader may be given is what is kept, unless it is out of the page. *)
LEMMA GivenKeeps ==
  ASSUME NEW s, NEW v, NEW a, StoreSound(s, v, a), NEW what \in Data, NEW callers, NEW now \in Nat,
         now <= v[what],
         \A who \in Awaiting(s, callers) :
           /\ who \in Readers /\ DataOf(who) = what
           /\ (who = "explain" => who \in s.mounted) => s.kept[what] = now
  PROVE  LET t == Given(s, callers, now) IN
         /\ StoreSound(t, v, a) /\ t.mounted = s.mounted
         /\ \A who \in Readers : t.seen[who] = IF who \in Awaiting(s, callers) THEN now ELSE s.seen[who]
         /\ \A who \in s.mounted : who \in Awaiting(s, callers) \/ CaughtUp(s, a, who) => CaughtUp(t, a, who)
<1> DEFINE given == Awaiting(s, callers)
           t == Given(s, callers, now)
<1>1. /\ t \in StoreRec /\ t.kept = s.kept /\ t.joined = s.joined /\ t.turn = s.turn /\ t.opened = s.opened
      /\ t.reads = s.reads /\ t.count = s.count /\ t.calls = s.calls /\ t.mounted = s.mounted
      /\ \A who \in Readers : t.seen[who] = IF who \in given THEN now ELSE s.seen[who]
      /\ \A who \in Readers : t.missed[who] = (s.missed[who] /\ who \notin given)
  BY DEF Given, StoreSound, StoreRec
<1>2. given \subseteq Readers
  OBVIOUS
<1> HIDE DEF t, given
<1>3. ReadsStand(t, v, a) /\ KeptStands(t, v, a)
  BY <1>1 DEF StoreSound, ReadsStand, KeptStands
<1>4. CallsStand(t)
  BY <1>1 DEF StoreSound, CallsStand, Awaits
<1>5. SeenStands(t, v)
  <2> SUFFICES ASSUME NEW who \in Readers, t.seen[who] # Unread, who = "explain" => who \in t.mounted
               PROVE  /\ t.seen[who] <= v[DataOf(who)]
                      /\ t.kept[DataOf(who)] # Unread => t.seen[who] <= t.kept[DataOf(who)]
                      /\ \A r \in t.reads : r.what = DataOf(who) /\ r.turn = t.turn[DataOf(who)] => t.seen[who] <= r.at
    BY DEF SeenStands
  <2>1. CASE who \notin given
    BY <1>1, <2>1 DEF StoreSound, SeenStands
  <2>2. CASE who \in given
    <3>1. DataOf(who) = what /\ s.kept[what] = now /\ t.seen[who] = now
      BY <1>1, <2>2 DEF given
    <3>2. s.joined[what] = 0
      BY <3>1, UnreadAssumption DEF StoreSound, KeptStands
    <3>3. \A r \in s.reads : ~(r.what = what /\ r.turn = s.turn[what])
      BY <3>2 DEF StoreSound, ReadsStand, StoreRec, ReadRec
    <3> QED
      BY <1>1, <3>1, <3>3
  <2> QED
    BY <2>1, <2>2
<1>6. ASSUME NEW who \in s.mounted, who \in given \/ CaughtUp(s, a, who) PROVE CaughtUp(t, a, who)
  <2>1. who \in Readers
    BY DEF StoreSound, StoreRec
  <2>2. CASE who \in given
    <3>1. t.seen[who] = now /\ DataOf(who) = what /\ s.kept[what] = now
      BY <1>1, <2>1, <2>2 DEF given
    <3> QED
      BY <3>1, UnreadAssumption DEF CaughtUp, StoreSound, KeptStands
  <2>3. CASE who \notin given /\ CaughtUp(s, a, who)
    BY <1>1, <2>1, <2>3 DEF CaughtUp, Awaits
  <2> QED
    BY <1>6, <2>2, <2>3
<1>7. StoreSound(t, v, a)
  BY <1>1, <1>3, <1>4, <1>5 DEF StoreSound
<1> QED
  BY <1>1, <1>6, <1>7 DEF t, given

LEMMA RefusedKeeps ==
  ASSUME NEW s, NEW v, NEW a, StoreSound(s, v, a), NEW callers, Awaiting(s, callers) \subseteq Readers
  PROVE  LET t == Refused(s, callers) IN
         /\ StoreSound(t, v, a) /\ t.mounted = s.mounted
         /\ \A who \in Readers : t.seen[who] = s.seen[who] \/ t.seen[who] = Unread
         /\ \A who \in s.mounted : who \in Awaiting(s, callers) \/ CaughtUp(s, a, who) => CaughtUp(t, a, who)
<1> DEFINE rejected == Awaiting(s, callers)
           t == Refused(s, callers)
<1>1. /\ t.kept = s.kept /\ t.joined = s.joined /\ t.turn = s.turn /\ t.opened = s.opened
      /\ t.reads = s.reads /\ t.count = s.count /\ t.calls = s.calls /\ t.mounted = s.mounted
      /\ \A who \in Readers : t.seen[who] = IF who = "host" /\ who \in rejected THEN Unread ELSE s.seen[who]
      /\ \A who \in Readers : t.missed[who] = (s.missed[who] \/ who \in rejected)
      /\ t \in StoreRec
  BY DEF Refused, StoreSound, StoreRec, Readers
<1> HIDE DEF t, rejected
<1>3. ReadsStand(t, v, a) /\ KeptStands(t, v, a)
  BY <1>1 DEF StoreSound, ReadsStand, KeptStands
<1>4. CallsStand(t)
  BY <1>1 DEF StoreSound, CallsStand, Awaits
<1>5. SeenStands(t, v)
  BY <1>1 DEF SeenStands, StoreSound
<1>6. ASSUME NEW who \in s.mounted, who \in rejected \/ CaughtUp(s, a, who) PROVE CaughtUp(t, a, who)
  <2>1. who \in Readers
    BY DEF StoreSound, StoreRec
  <2> QED
    BY <1>1, <1>6, <2>1 DEF CaughtUp, Awaits
<1>7. StoreSound(t, v, a)
  BY <1>1, <1>3, <1>4, <1>5 DEF StoreSound
<1> QED
  BY <1>1, <1>6, <1>7 DEF t, rejected

(* Whoever asks is given what is kept, or awaits a read of this turn. *)
LEMMA AsksKeeps ==
  ASSUME NEW s, NEW a, StoreSound(s, versions, a), NEW what \in Data, NEW callers,
         \A call \in callers : call \in CallRec /\ DataOf(call.who) = what /\ call.opened <= s.opened
  PROVE  LET t == Asks(s, what, callers) IN
         /\ StoreSound(t, versions, a) /\ t.mounted = s.mounted
         /\ \A who \in Readers : \/ t.seen[who] = s.seen[who]
                                 \/ who \in Awaiting(s, callers) /\ s.kept[what] # Unread /\ t.seen[who] = s.kept[what]
         /\ \A who \in s.mounted : who \in Awaiting(s, callers) \/ CaughtUp(s, a, who) => CaughtUp(t, a, who)
<1> DEFINE t == Asks(s, what, callers)
<1>0. s.kept[what] \in {Unread} \cup Nat
  BY DEF StoreSound, StoreRec
<1>1. CASE callers = {}
  <2>1. t = s
    BY <1>1 DEF Asks
  <2>2. Awaiting(s, callers) = {}
    BY <1>1 DEF Awaiting
  <2> QED
    BY <2>1, <2>2
<1>2. CASE callers # {} /\ s.kept[what] # Unread
  <2>1. t = Given(s, callers, s.kept[what])
    BY <1>2 DEF Asks
  <2>2. \A who \in Awaiting(s, callers) : who \in Readers /\ DataOf(who) = what
    BY AwaitingIs DEF CallRec
  <2>3. s.kept[what] \in Nat /\ s.kept[what] <= versions[what]
    BY <1>0, <1>2 DEF StoreSound, KeptStands
  <2> DEFINE g == Given(s, callers, s.kept[what])
  <2>4. /\ StoreSound(g, versions, a) /\ g.mounted = s.mounted
        /\ \A who \in Readers : g.seen[who] = IF who \in Awaiting(s, callers) THEN s.kept[what] ELSE s.seen[who]
        /\ \A who \in s.mounted : who \in Awaiting(s, callers) \/ CaughtUp(s, a, who) => CaughtUp(g, a, who)
    BY <2>2, <2>3, GivenKeeps
  <2> HIDE DEF g
  <2> QED
    BY <1>2, <2>1, <2>4 DEF g
<1>3. CASE callers # {} /\ s.kept[what] = Unread
  <2> DEFINE new  == s.joined[what] = 0
             id   == IF new THEN s.count + 1 ELSE s.joined[what]
             asked == {[call EXCEPT !.read = id] : call \in callers}
             r0   == [id |-> id, what |-> what, at |-> versions[what], turn |-> s.turn[what]]
             reads == IF new THEN s.reads \cup {r0} ELSE s.reads
  <2>1. /\ s \in StoreRec /\ versions[what] \in Nat /\ s.count \in Nat /\ s.joined[what] \in Nat
        /\ s.turn[what] \in Nat
    BY DEF StoreSound, StoreRec, Versions
  <2>2. id \in Nat \ {0} /\ r0 \in ReadRec
    BY <2>1 DEF ReadRec
  <2>3. /\ asked \subseteq CallRec
        /\ \A call \in asked : call.read = id /\ DataOf(call.who) = what /\ call.opened <= s.opened
        /\ \A who \in Awaiting(s, callers) : \E call \in asked : call.who = who /\ Awaits(s, call)
    <3>1. \A call \in callers : LET c == [call EXCEPT !.read = id] IN
            /\ c \in CallRec /\ c.read = id /\ c.who = call.who /\ c.opened = call.opened
      BY <2>2 DEF CallRec
    <3>2. \A call \in callers : Awaits(s, call) => Awaits(s, [call EXCEPT !.read = id])
      BY <3>1 DEF Awaits
    <3> HIDE DEF id
    <3>3. asked \subseteq CallRec /\ \A call \in asked : call.read = id /\ DataOf(call.who) = what /\ call.opened <= s.opened
      BY <3>1
    <3>4. ASSUME NEW who \in Awaiting(s, callers) PROVE \E call \in asked : call.who = who /\ Awaits(s, call)
      <4>1. PICK call \in callers : call.who = who /\ Awaits(s, call)
        BY AwaitingIs
      <4>2. [call EXCEPT !.read = id] \in asked
        OBVIOUS
      <4> HIDE DEF asked
      <4> QED
        BY <3>1, <3>2, <4>1, <4>2
    <3> QED
      BY <3>3, <3>4
  <2>4. /\ t \in StoreRec /\ t.kept = s.kept /\ t.turn = s.turn /\ t.opened = s.opened
        /\ t.seen = s.seen /\ t.missed = s.missed /\ t.mounted = s.mounted
        /\ t.calls = s.calls \cup asked /\ t.reads = reads
        /\ t.count = (IF new THEN id ELSE s.count)
        /\ \A k \in Data : t.joined[k] = IF k = what THEN id ELSE s.joined[k]
    <3>1. t = [s EXCEPT !.calls = @ \cup asked, !.joined[what] = id, !.count = IF new THEN id ELSE @,
                        !.reads = IF new THEN @ \cup {r0} ELSE @]
      BY <1>3 DEF Asks
    <3> HIDE DEF t, id, asked, r0, new
    <3> QED
      BY <2>1, <2>2, <2>3, <3>1 DEF StoreRec
  <2> HIDE DEF t, asked
  <2>5. \A r \in s.reads : r.what \in Data /\ r.id \in Nat /\ r.id # 0 /\ r.id <= s.count
    BY <2>1 DEF StoreSound, ReadsStand, StoreRec, ReadRec
  <2>6. ASSUME new
        PROVE  /\ ReadsStand(t, versions, a) /\ SeenStands(t, versions) /\ s.reads \subseteq t.reads
               /\ \E r \in t.reads : r.id = id /\ r.what = what /\ r.turn = t.turn[what]
    <3>1. \A r \in s.reads : r.id # id
      BY <2>1, <2>5, <2>6
    <3>2. \A r \in s.reads : ~(r.what = what /\ r.turn = s.turn[what])
      BY <2>5, <2>6 DEF StoreSound, ReadsStand
    <3>3. reads = s.reads \cup {r0} /\ r0.id = id /\ r0.what = what /\ r0.at = versions[what] /\ r0.turn = s.turn[what]
      BY <2>6
    <3>4. a[what] <= versions[what] /\ id = s.count + 1
      BY <2>6 DEF StoreSound
    <3> HIDE DEF r0, reads, id, new
    <3>5. ReadsStand(t, versions, a)
      <4>1. \A r \in t.reads : r.id <= t.count /\ r.at <= versions[r.what] /\ r.turn <= t.turn[r.what]
        BY <2>1, <2>4, <2>5, <2>6, <3>3, <3>4 DEF StoreSound, ReadsStand
      <4>2. \A q, r \in t.reads : q.id = r.id => q = r
        BY <2>4, <3>1, <3>3 DEF StoreSound, ReadsStand
      <4>3. \A r \in t.reads : r.turn = t.turn[r.what] => r.id = t.joined[r.what] /\ r.at >= a[r.what]
        BY <2>1, <2>4, <2>5, <3>2, <3>3, <3>4 DEF StoreSound, ReadsStand
      <4>4. \A k \in Data : t.joined[k] # 0 =>
              \E r \in t.reads : r.id = t.joined[k] /\ r.what = k /\ r.turn = t.turn[k]
        BY <2>4, <3>3 DEF StoreSound, ReadsStand
      <4> QED
        BY <4>1, <4>2, <4>3, <4>4 DEF ReadsStand
    <3>6. SeenStands(t, versions)
      BY <1>3, <2>1, <2>4, <3>3 DEF StoreSound, SeenStands, StoreRec
    <3>7. \E r \in t.reads : r.id = id /\ r.what = what /\ r.turn = t.turn[what]
      BY <2>4, <3>3
    <3>8. s.reads \subseteq t.reads
      BY <2>4, <3>3
    <3> QED
      BY <3>5, <3>6, <3>7, <3>8
  <2>7. ASSUME ~new
        PROVE  /\ ReadsStand(t, versions, a) /\ SeenStands(t, versions) /\ s.reads \subseteq t.reads
               /\ \E r \in t.reads : r.id = id /\ r.what = what /\ r.turn = t.turn[what]
    <3>1. t.reads = s.reads /\ t.count = s.count /\ id = s.joined[what] /\ id # 0
      BY <2>4, <2>7
    <3> HIDE DEF r0, reads, id, new
    <3>2. \A k \in Data : t.joined[k] = s.joined[k]
      BY <2>4, <3>1
    <3>3. ReadsStand(t, versions, a)
      BY <2>4, <2>5, <3>1, <3>2 DEF StoreSound, ReadsStand
    <3>4. SeenStands(t, versions)
      BY <2>4, <3>1 DEF StoreSound, SeenStands
    <3>5. \E r \in t.reads : r.id = id /\ r.what = what /\ r.turn = t.turn[what]
      BY <2>4, <3>1 DEF StoreSound, ReadsStand
    <3> QED
      BY <3>1, <3>3, <3>4, <3>5
  <2> HIDE DEF r0, reads, id, new
  <2>8. /\ ReadsStand(t, versions, a) /\ SeenStands(t, versions) /\ s.reads \subseteq t.reads
        /\ \E r \in t.reads : r.id = id /\ r.what = what /\ r.turn = t.turn[what]
    BY <2>6, <2>7
  <2>9. KeptStands(t, versions, a)
    BY <1>3, <2>4 DEF StoreSound, KeptStands
  <2>10. CallsStand(t)
    <3> SUFFICES ASSUME NEW call \in t.calls
                 PROVE  /\ call.opened <= t.opened
                        /\ \E r \in t.reads : /\ r.id = call.read /\ r.what = DataOf(call.who)
                                              /\ "explain" \in t.mounted /\ call.who = "explain" /\ Awaits(t, call)
                                                   => r.turn = t.turn[r.what]
      BY DEF CallsStand
    <3>1. CASE call \in s.calls
      BY <2>4, <2>8, <3>1 DEF StoreSound, CallsStand, Awaits
    <3>2. CASE call \in asked
      BY <2>3, <2>4, <2>8, <3>2
    <3> QED
      BY <2>4, <3>1, <3>2
  <2>11. StoreSound(t, versions, a)
    BY <2>4, <2>8, <2>9, <2>10 DEF StoreSound
  <2>12. ASSUME NEW who \in s.mounted, who \in Awaiting(s, callers) \/ CaughtUp(s, a, who)
         PROVE  CaughtUp(t, a, who)
    BY <2>3, <2>4, <2>12 DEF CaughtUp, Awaits
  <2> QED
    BY <2>4, <2>11, <2>12 DEF t
<1> QED
  BY <1>0, <1>1, <1>2, <1>3

(* Counting how often a caller may ask again leaves it the same caller. *)
LEMMA AskingAgainKeeps ==
  ASSUME NEW s, NEW callers, NEW n \in Int,
         \A call \in callers : call \in CallRec /\ call.again + n >= 0
  PROVE  LET counted == AskingAgain(callers, n) IN
         /\ \A c \in counted : c \in CallRec /\ \E call \in callers : c.who = call.who /\ c.opened = call.opened
         /\ Awaiting(s, counted) = Awaiting(s, callers)
<1> DEFINE one(call) == [call EXCEPT !.again = @ + n]
           counted == AskingAgain(callers, n)
<1>1. \A call \in callers : one(call) \in CallRec /\ one(call).who = call.who /\ one(call).opened = call.opened
  BY DEF CallRec
<1>2. counted = {one(call) : call \in callers}
  BY DEF AskingAgain
<1> HIDE DEF one, counted
<1>3. \A c \in counted : c \in CallRec /\ \E call \in callers : c.who = call.who /\ c.opened = call.opened
  BY <1>1, <1>2
<1>4. \A call \in callers : \E c \in counted : c.who = call.who /\ c.opened = call.opened
  BY <1>1, <1>2
<1>5. ASSUME NEW who PROVE who \in Awaiting(s, counted) <=> who \in Awaiting(s, callers)
  BY <1>3, <1>4, AwaitingIs DEF Awaits
<1> QED
  BY <1>3, <1>5 DEF counted

(* Readers that ask, each for itself. *)
LEMMA AskedByKeeps ==
  ASSUME NEW s, NEW a, StoreSound(s, versions, a), NEW what \in Data, NEW readers \in SUBSET Readers,
         \A who \in readers : DataOf(who) = what
  PROVE  LET t == AskedBy(s, what, readers) IN
         /\ StoreSound(t, versions, a) /\ t.mounted = s.mounted
         /\ \A who \in Readers : \/ t.seen[who] = s.seen[who]
                                 \/ who \in readers /\ s.kept[what] # Unread /\ t.seen[who] = s.kept[what]
         /\ \A who \in s.mounted : who \in readers \/ CaughtUp(s, a, who) => CaughtUp(t, a, who)
<1> DEFINE callers == {[who |-> who, read |-> 0, opened |-> s.opened, again |-> 0] : who \in readers}
           t == Asks(s, what, callers)
<1>1. s.opened \in Nat
  BY DEF StoreSound, StoreRec
<1>2. \A call \in callers : call \in CallRec /\ DataOf(call.who) = what /\ call.opened <= s.opened
  BY <1>1 DEF CallRec
<1>3. ASSUME NEW who \in Readers PROVE who \in Awaiting(s, callers) <=> who \in readers
  <2>1. ASSUME who \in readers PROVE \E call \in callers : call.who = who /\ Awaits(s, call)
    <3>1. [who |-> who, read |-> 0, opened |-> s.opened, again |-> 0] \in callers
      BY <2>1
    <3> QED
      BY <3>1 DEF Awaits
  <2>2. \A call \in callers : call.who \in readers
    OBVIOUS
  <2> QED
    BY <2>1, <2>2, AwaitingIs
<1> HIDE DEF callers
<1>4. /\ StoreSound(t, versions, a) /\ t.mounted = s.mounted
      /\ \A who \in Readers : \/ t.seen[who] = s.seen[who]
                              \/ who \in Awaiting(s, callers) /\ s.kept[what] # Unread /\ t.seen[who] = s.kept[what]
      /\ \A who \in s.mounted : who \in Awaiting(s, callers) \/ CaughtUp(s, a, who) => CaughtUp(t, a, who)
  BY <1>2, AsksKeeps
<1>5. s.mounted \subseteq Readers
  BY DEF StoreSound, StoreRec
<1>6. AskedBy(s, what, readers) = t
  BY DEF AskedBy, callers
<1> HIDE DEF t
<1> QED
  BY <1>3, <1>4, <1>5, <1>6

(* An event about what begins a turn: nothing of it is kept, joined or awaited. *)
LEMMA EmptiedKeeps ==
  ASSUME NEW s, NEW a, StoreSound(s, versions, a), NEW what \in Data,
         \A who \in s.mounted : CaughtUp(s, a, who)
  PROVE  LET t == Emptied(s, what)
             b == [a EXCEPT ![what] = versions[what]]
         IN /\ StoreSound(t, versions, b) /\ t.mounted = s.mounted
            /\ \A who \in Readers : t.seen[who] = s.seen[who] \/ t.seen[who] = Unread
            /\ \A who \in t.mounted : CaughtUp(t, b, who)
<1> DEFINE listening == {who \in s.mounted : DataOf(who) = what}
           e == [s EXCEPT !.kept[what] = Unread, !.joined[what] = 0, !.turn[what] = @ + 1,
                          !.opened = IF "explain" \in listening THEN @ + 1 ELSE @,
                          !.seen = [who \in Readers |-> IF who \in listening \ {"lanes"} THEN Unread ELSE @[who]],
                          !.missed = [who \in Readers |-> @[who] /\ who \notin listening]]
           b == [a EXCEPT ![what] = versions[what]]
           t == Emptied(s, what)
<1>1. t = AskedBy(e, what, listening)
  BY DEF Emptied
<1>2. s \in StoreRec /\ versions \in Versions /\ a \in Versions
  BY DEF StoreSound
<1>3. /\ e \in StoreRec /\ e.reads = s.reads /\ e.count = s.count /\ e.calls = s.calls /\ e.mounted = s.mounted
      /\ e.opened = (IF "explain" \in listening THEN s.opened + 1 ELSE s.opened)
      /\ \A k \in Data : /\ e.kept[k] = IF k = what THEN Unread ELSE s.kept[k]
                         /\ e.joined[k] = IF k = what THEN 0 ELSE s.joined[k]
                         /\ e.turn[k] = IF k = what THEN s.turn[k] + 1 ELSE s.turn[k]
      /\ \A who \in Readers : /\ e.seen[who] = IF who \in listening \ {"lanes"} THEN Unread ELSE s.seen[who]
                              /\ e.missed[who] = (s.missed[who] /\ who \notin listening)
  <2>1. \A k \in Data : s.turn[k] + 1 \in Nat
    BY <1>2 DEF StoreRec
  <2>2. s.opened + 1 \in Nat
    BY <1>2 DEF StoreRec
  <2> HIDE DEF listening
  <2> QED
    BY <1>2, <2>1, <2>2 DEF StoreRec
<1>4. b \in Versions /\ \A k \in Data : b[k] = IF k = what THEN versions[k] ELSE a[k]
  BY <1>2 DEF Versions
<1>5. \A r \in s.reads : r.what \in Data /\ r.turn \in Nat /\ r.turn <= s.turn[r.what] /\ s.turn[r.what] \in Nat
  BY <1>2 DEF StoreSound, ReadsStand, StoreRec, ReadRec
<1>6. "explain" \in listening <=> what = "records" /\ "explain" \in s.mounted
  BY DEF DataOf
<1> HIDE DEF e, b, t
<1>7. \A r \in s.reads : r.what = what => r.turn # e.turn[what]
  BY <1>3, <1>5
<1>8. ReadsStand(e, versions, b)
  <2>1. \A r \in e.reads : r.id <= e.count /\ r.at <= versions[r.what] /\ r.turn <= e.turn[r.what]
    BY <1>3, <1>5 DEF StoreSound, ReadsStand
  <2>2. \A q, r \in e.reads : q.id = r.id => q = r
    BY <1>3 DEF StoreSound, ReadsStand
  <2>3. \A r \in e.reads : r.turn = e.turn[r.what] => r.id = e.joined[r.what] /\ r.at >= b[r.what]
    BY <1>3, <1>4, <1>5, <1>7 DEF StoreSound, ReadsStand
  <2>4. \A k \in Data : e.joined[k] # 0 => \E r \in e.reads : r.id = e.joined[k] /\ r.what = k /\ r.turn = e.turn[k]
    BY <1>3 DEF StoreSound, ReadsStand
  <2> QED
    BY <2>1, <2>2, <2>3, <2>4 DEF ReadsStand
<1>9. KeptStands(e, versions, b)
  BY <1>3, <1>4 DEF StoreSound, KeptStands
<1>10. CallsStand(e)
  <2> SUFFICES ASSUME NEW call \in s.calls
               PROVE  /\ call.opened <= e.opened
                      /\ \E r \in s.reads : /\ r.id = call.read /\ r.what = DataOf(call.who)
                                            /\ "explain" \in s.mounted /\ call.who = "explain" /\ Awaits(e, call)
                                                 => r.turn = e.turn[r.what]
    BY <1>3 DEF CallsStand
  <2>1. call.opened \in Nat /\ s.opened \in Nat /\ call.opened <= s.opened
    BY <1>2 DEF StoreSound, CallsStand, StoreRec, CallRec
  <2>2. PICK r \in s.reads : /\ r.id = call.read /\ r.what = DataOf(call.who)
                             /\ "explain" \in s.mounted /\ call.who = "explain" /\ Awaits(s, call)
                                  => r.turn = s.turn[r.what]
    BY DEF StoreSound, CallsStand
  <2>3. ASSUME "explain" \in s.mounted, call.who = "explain", Awaits(e, call) PROVE r.turn = e.turn[r.what]
    <3>1. call.opened = e.opened
      BY <2>3 DEF Awaits
    <3>2. "explain" \notin listening /\ e.opened = s.opened
      BY <1>3, <2>1, <3>1
    <3>3. r.what = "records" /\ what # "records"
      BY <1>6, <2>2, <2>3, <3>2 DEF DataOf
    <3> QED
      BY <1>3, <1>5, <2>2, <2>3, <3>2, <3>3 DEF Awaits
  <2> QED
    BY <1>3, <2>1, <2>2, <2>3
<1>11. SeenStands(e, versions)
  BY <1>3, <1>7, DataOfReaders DEF StoreSound, SeenStands
<1>12. StoreSound(e, versions, b)
  BY <1>2, <1>3, <1>4, <1>8, <1>9, <1>10, <1>11 DEF StoreSound, Versions
<1>13. ASSUME NEW who \in s.mounted, who \notin listening PROVE CaughtUp(e, b, who)
  <2>1. who \in Readers /\ DataOf(who) # what /\ DataOf(who) \in Data
    BY <1>2, <1>13, DataOfReaders DEF StoreRec
  <2>2. e.seen[who] = s.seen[who] /\ e.missed[who] = s.missed[who] /\ b[DataOf(who)] = a[DataOf(who)]
    <3>1. s.missed[who] \in BOOLEAN
      BY <1>2, <2>1 DEF StoreRec
    <3> QED
      BY <1>3, <1>4, <1>13, <2>1, <3>1
  <2>3. who = "explain" => e.opened = s.opened
    BY <1>3, <1>6, <1>13, <2>1 DEF DataOf
  <2> QED
    BY <1>3, <2>2, <2>3 DEF CaughtUp, Awaits
<1>14. /\ StoreSound(t, versions, b) /\ t.mounted = e.mounted
       /\ \A who \in Readers : \/ t.seen[who] = e.seen[who]
                               \/ who \in listening /\ e.kept[what] # Unread /\ t.seen[who] = e.kept[what]
       /\ \A who \in e.mounted : who \in listening \/ CaughtUp(e, b, who) => CaughtUp(t, b, who)
  <2>1. listening \in SUBSET Readers /\ \A who \in listening : DataOf(who) = what
    BY <1>2 DEF StoreRec
  <2> HIDE DEF listening
  <2> QED
    BY <1>1, <1>12, <2>1, AskedByKeeps
<1> HIDE DEF listening
<1> QED
  BY <1>3, <1>13, <1>14 DEF t, b

(* The steps of a reader in the page: none is given less than what was announced, *)
(* or than what it had.                                                           *)
OnlyCurrentGiven ==
  \A who \in shared.mounted :
    LET now == shared'.seen[who]
    IN  now # shared.seen[who] /\ now # Unread
          => now >= announced[DataOf(who)] /\ (shared.seen[who] # Unread => now >= shared.seen[who])

LEMMA HouseChangesKeeps ==
  ASSUME StoreInv, NEW data \in SUBSET Data, HouseChanges(data)
  PROVE  StoreInv' /\ OnlyCurrentGiven
<1>1. shared' = shared /\ announced' = announced
  BY DEF HouseChanges
<1>2. versions' \in Versions /\ \A what \in Data : versions[what] \in Nat /\ versions'[what] \in Nat /\ versions[what] <= versions'[what]
  BY DEF HouseChanges, StoreInv, StoreSound, Versions
<1>3. shared \in StoreRec /\ announced \in Versions
  BY DEF StoreInv, StoreSound
<1>4. ReadsStand(shared, versions', announced)
  <2>1. \A r \in shared.reads : r.what \in Data /\ r.at \in Nat
    BY <1>3 DEF StoreRec, ReadRec
  <2> QED
    BY <1>2, <2>1 DEF StoreInv, StoreSound, ReadsStand
<1>5. KeptStands(shared, versions', announced)
  BY <1>2, <1>3 DEF StoreInv, StoreSound, KeptStands, StoreRec
<1>6. SeenStands(shared, versions')
  BY <1>2, <1>3, DataOfReaders DEF StoreInv, StoreSound, SeenStands, StoreRec
<1>7. StoreSound(shared, versions', announced)
  BY <1>2, <1>3, <1>4, <1>5, <1>6 DEF StoreInv, StoreSound, Versions
<1> QED
  BY <1>1, <1>7 DEF StoreInv, OnlyCurrentGiven

LEMMA StoreToldKeeps ==
  ASSUME StoreInv, StoreTold
  PROVE  StoreInv' /\ OnlyCurrentGiven
<1> DEFINE s == IF announced["roster"] = versions["roster"] THEN shared ELSE Emptied(shared, "roster")
           a == [announced EXCEPT !["roster"] = versions["roster"]]
           b == [a EXCEPT !["records"] = versions["records"]]
           t == Emptied(s, "records")
<1>1. shared' = t /\ announced' = versions /\ versions' = versions
  BY DEF StoreTold
<1>2. announced \in Versions /\ versions \in Versions /\ "roster" \in Data /\ "records" \in Data
  BY DEF StoreInv, StoreSound, Data
<1>3. b = versions
  BY <1>2 DEF Versions, Data
<1>4. announced["roster"] = versions["roster"] => a = announced
  BY <1>2 DEF Versions
<1> HIDE DEF a
<1>5. /\ StoreSound(s, versions, a) /\ s.mounted = shared.mounted
      /\ \A who \in Readers : s.seen[who] = shared.seen[who] \/ s.seen[who] = Unread
      /\ \A who \in s.mounted : CaughtUp(s, a, who)
  <2>1. CASE announced["roster"] = versions["roster"]
    BY <1>4, <2>1 DEF StoreInv
  <2>2. CASE announced["roster"] # versions["roster"]
    <3> DEFINE e == Emptied(shared, "roster")
    <3>1. /\ StoreSound(e, versions, a) /\ e.mounted = shared.mounted
          /\ \A who \in Readers : e.seen[who] = shared.seen[who] \/ e.seen[who] = Unread
          /\ \A who \in e.mounted : CaughtUp(e, a, who)
      BY <1>2, EmptiedKeeps DEF StoreInv, a
    <3> HIDE DEF e
    <3> QED
      BY <2>2, <3>1 DEF e
  <2> QED
    BY <2>1, <2>2
<1> HIDE DEF s
<1>6. /\ StoreSound(t, versions, b) /\ t.mounted = s.mounted
      /\ \A who \in Readers : t.seen[who] = s.seen[who] \/ t.seen[who] = Unread
      /\ \A who \in t.mounted : CaughtUp(t, b, who)
  BY <1>2, <1>5, EmptiedKeeps
<1>7. StoreInv'
  BY <1>1, <1>3, <1>6 DEF StoreInv
<1>8. shared.mounted \subseteq Readers
  BY DEF StoreInv, StoreSound, StoreRec
<1> QED
  BY <1>1, <1>5, <1>6, <1>7, <1>8 DEF OnlyCurrentGiven

(* A read is answered: its callers are through with it. *)
LEMMA ReadGone ==
  ASSUME StoreInv, NEW r \in shared.reads
  PROVE  LET callers == {call \in shared.calls : call.read = r.id}
             over == [shared EXCEPT !.reads = @ \ {r}, !.calls = @ \ callers,
                                    !.joined[r.what] = IF @ = r.id THEN 0 ELSE @]
         IN /\ StoreSound(over, versions, announced)
            /\ over.kept = shared.kept /\ over.seen = shared.seen /\ over.mounted = shared.mounted
            /\ over.opened = shared.opened /\ over.missed = shared.missed /\ over.turn = shared.turn
            /\ over.joined[r.what] = IF shared.joined[r.what] = r.id THEN 0 ELSE shared.joined[r.what]
            /\ over.reads = shared.reads \ {r}
            /\ \A call \in callers : call \in CallRec /\ DataOf(call.who) = r.what /\ call.opened <= over.opened
            /\ \A who \in shared.mounted : who \in Awaiting(over, callers) \/ CaughtUp(over, announced, who)
            /\ "explain" \in shared.mounted /\ "explain" \in Awaiting(over, callers) => OfThisTurn(r)
<1> DEFINE callers == {call \in shared.calls : call.read = r.id}
           over == [shared EXCEPT !.reads = @ \ {r}, !.calls = @ \ callers,
                                  !.joined[r.what] = IF @ = r.id THEN 0 ELSE @]
<1>0. /\ shared \in StoreRec /\ r \in ReadRec /\ r.what \in Data /\ StoreSound(shared, versions, announced)
      /\ r.id # 0
  BY DEF StoreInv, StoreSound, StoreRec, ReadRec
<1>1. callers \subseteq shared.calls /\ \A call \in shared.calls : call \in callers <=> call.read = r.id
  OBVIOUS
<1> HIDE DEF callers
<1>2. /\ over \in StoreRec /\ over.kept = shared.kept /\ over.turn = shared.turn /\ over.opened = shared.opened
      /\ over.seen = shared.seen /\ over.missed = shared.missed /\ over.mounted = shared.mounted
      /\ over.count = shared.count /\ over.reads = shared.reads \ {r} /\ over.calls = shared.calls \ callers
      /\ \A k \in Data : over.joined[k] = IF k = r.what /\ shared.joined[k] = r.id THEN 0 ELSE shared.joined[k]
  BY <1>0 DEF StoreRec
<1> HIDE DEF over
<1>3. \A q \in shared.reads : q.id = r.id => q = r
  BY <1>0 DEF StoreSound, ReadsStand
<1>4. \A call \in callers : DataOf(call.who) = r.what /\ call.opened <= shared.opened
        /\ ("explain" \in shared.mounted /\ call.who = "explain" /\ Awaits(shared, call) => r.turn = shared.turn[r.what])
  BY <1>0, <1>1, <1>3 DEF StoreSound, CallsStand
<1>5. ReadsStand(over, versions, announced)
  <2>1. /\ \A q \in over.reads : q.id <= over.count /\ q.at <= versions[q.what] /\ q.turn <= over.turn[q.what]
        /\ \A q, p \in over.reads : q.id = p.id => q = p
    BY <1>0, <1>2 DEF StoreSound, ReadsStand
  <2>2. \A q \in over.reads : q.turn = over.turn[q.what] => q.id = over.joined[q.what] /\ q.at >= announced[q.what]
    <3>1. \A q \in over.reads : q \in shared.reads /\ q.id # r.id /\ q.what \in Data
      BY <1>0, <1>2, <1>3 DEF StoreRec, ReadRec
    <3> QED
      BY <1>0, <1>2, <3>1 DEF StoreSound, ReadsStand
  <2>3. ASSUME NEW k \in Data, over.joined[k] # 0
        PROVE  \E q \in over.reads : q.id = over.joined[k] /\ q.what = k /\ q.turn = over.turn[k]
    <3>1. over.joined[k] = shared.joined[k] /\ ~(k = r.what /\ shared.joined[k] = r.id)
      BY <1>2, <2>3
    <3>2. PICK q \in shared.reads : q.id = shared.joined[k] /\ q.what = k /\ q.turn = shared.turn[k]
      BY <1>0, <2>3, <3>1 DEF StoreSound, ReadsStand
    <3>3. q # r
      BY <3>1, <3>2
    <3> QED
      BY <1>2, <3>1, <3>2, <3>3
  <2> QED
    BY <2>1, <2>2, <2>3 DEF ReadsStand
<1>6. KeptStands(over, versions, announced)
  BY <1>0, <1>2 DEF StoreSound, KeptStands
<1>7. CallsStand(over)
  <2> SUFFICES ASSUME NEW call \in over.calls
               PROVE  /\ call.opened <= over.opened
                      /\ \E q \in over.reads : /\ q.id = call.read /\ q.what = DataOf(call.who)
                                               /\ "explain" \in over.mounted /\ call.who = "explain" /\ Awaits(over, call)
                                                    => q.turn = over.turn[q.what]
    BY DEF CallsStand
  <2>1. call \in shared.calls /\ call.read # r.id
    BY <1>1, <1>2
  <2> QED
    BY <1>0, <1>2, <2>1 DEF StoreSound, CallsStand, Awaits
<1>8. SeenStands(over, versions)
  BY <1>0, <1>2 DEF StoreSound, SeenStands
<1>9. StoreSound(over, versions, announced)
  BY <1>0, <1>2, <1>5, <1>6, <1>7, <1>8 DEF StoreSound
<1>10. ASSUME NEW who \in shared.mounted PROVE who \in Awaiting(over, callers) \/ CaughtUp(over, announced, who)
  <2>1. CaughtUp(shared, announced, who)
    BY DEF StoreInv
  <2>2. ASSUME NEW call \in shared.calls, call.who = who, Awaits(shared, call)
        PROVE  who \in Awaiting(over, callers) \/ CaughtUp(over, announced, who)
    <3>1. Awaits(over, call)
      BY <1>2, <2>2 DEF Awaits
    <3>2. CASE call \in callers
      BY <2>2, <3>1, <3>2, AwaitingIs
    <3>3. CASE call \notin callers
      BY <1>2, <2>2, <3>1, <3>3 DEF CaughtUp
    <3> QED
      BY <3>2, <3>3
  <2> QED
    BY <1>2, <2>1, <2>2 DEF CaughtUp
<1>11. "explain" \in shared.mounted /\ "explain" \in Awaiting(over, callers) => OfThisTurn(r)
  BY <1>2, <1>4, AwaitingIs DEF OfThisTurn, Awaits
<1>12. \A call \in callers : call \in CallRec
  BY <1>0, <1>1 DEF StoreRec
<1> QED
  BY <1>0, <1>2, <1>4, <1>9, <1>10, <1>11, <1>12 DEF over, callers

LEMMA ReadAnsweredKeeps ==
  ASSUME StoreInv, NEW r \in shared.reads, ReadAnswered(r)
  PROVE  StoreInv' /\ OnlyCurrentGiven
<1> DEFINE callers == {call \in shared.calls : call.read = r.id}
           over == [shared EXCEPT !.reads = @ \ {r}, !.calls = @ \ callers,
                                  !.joined[r.what] = IF @ = r.id THEN 0 ELSE @]
           Keeping(ok, now) == [over EXCEPT !.kept[r.what] = IF ok /\ OfThisTurn(r) THEN now ELSE @]
<1>1. PICK ok \in BOOLEAN, now \in r.at..versions[r.what] :
        /\ shared' = IF r.what = "roster" /\ ~OfThisTurn(r)
                     THEN Asks(over, "roster", IF ok THEN AskingAgain(callers, 1) ELSE callers)
                     ELSE Served(Keeping(ok, now), r.what, callers, ok, now)
        /\ versions' = versions /\ announced' = announced
  BY DEF ReadAnswered
<1>2. /\ StoreSound(shared, versions, announced) /\ shared \in StoreRec /\ r \in ReadRec /\ r.what \in Data
      /\ versions \in Versions /\ announced \in Versions
  BY DEF StoreInv, StoreSound, StoreRec, ReadRec
<1>3. /\ StoreSound(over, versions, announced)
      /\ over.kept = shared.kept /\ over.seen = shared.seen /\ over.mounted = shared.mounted
      /\ over.opened = shared.opened /\ over.missed = shared.missed /\ over.turn = shared.turn
      /\ over.joined[r.what] = IF shared.joined[r.what] = r.id THEN 0 ELSE shared.joined[r.what]
      /\ over.reads = shared.reads \ {r}
      /\ \A call \in callers : call \in CallRec /\ DataOf(call.who) = r.what /\ call.opened <= over.opened
      /\ \A who \in shared.mounted : who \in Awaiting(over, callers) \/ CaughtUp(over, announced, who)
      /\ "explain" \in shared.mounted /\ "explain" \in Awaiting(over, callers) => OfThisTurn(r)
  BY ReadGone
<1>4. /\ now \in Nat /\ r.at \in Nat /\ r.at <= now /\ now <= versions[r.what]
      /\ \A k \in Data : versions[k] \in Nat /\ announced[k] \in Nat
  BY <1>1, <1>2 DEF ReadRec, Versions
<1>5. shared.mounted \subseteq Readers
  BY <1>2 DEF StoreRec
<1>6. \A k \in Data : shared.kept[k] \in {Unread} \cup Nat
  BY <1>2 DEF StoreRec
<1>7. \A who \in Readers : shared.seen[who] \in {Unread} \cup Nat
  BY <1>2 DEF StoreRec
<1> HIDE DEF over, callers
<1>8. \A who \in Awaiting(over, callers) : who \in Readers /\ DataOf(who) = r.what
  BY <1>3, AwaitingIs DEF CallRec
<1>9. CASE r.what = "roster" /\ ~OfThisTurn(r)
  <2> DEFINE asking == IF ok THEN AskingAgain(callers, 1) ELSE callers
             t == Asks(over, "roster", asking)
  <2>0. /\ \A call \in asking : call \in CallRec /\ DataOf(call.who) = "roster" /\ call.opened <= over.opened
        /\ Awaiting(over, asking) = Awaiting(over, callers)
    <3>0. 1 \in Int
      OBVIOUS
    <3>1. \A call \in callers : call \in CallRec /\ call.again + 1 >= 0
      BY <1>3 DEF CallRec
    <3>2. /\ \A c \in AskingAgain(callers, 1) : c \in CallRec /\ \E call \in callers : c.who = call.who /\ c.opened = call.opened
          /\ Awaiting(over, AskingAgain(callers, 1)) = Awaiting(over, callers)
      BY <3>0, <3>1, AskingAgainKeeps, Zenon
    <3> QED
      BY <1>3, <1>9, <3>2
  <2> HIDE DEF asking
  <2>1. /\ StoreSound(t, versions, announced) /\ t.mounted = over.mounted
        /\ \A who \in Readers : \/ t.seen[who] = over.seen[who]
                                \/ who \in Awaiting(over, callers) /\ over.kept["roster"] # Unread /\ t.seen[who] = over.kept["roster"]
        /\ \A who \in over.mounted : who \in Awaiting(over, callers) \/ CaughtUp(over, announced, who) => CaughtUp(t, announced, who)
    BY <1>2, <1>3, <1>9, <2>0, AsksKeeps
  <2>2. shared' = t
    BY <1>1, <1>9 DEF asking
  <2> HIDE DEF t
  <2>3. StoreInv'
    BY <1>1, <1>3, <2>1, <2>2 DEF StoreInv
  <2>4. ASSUME NEW who \in shared.mounted, shared'.seen[who] # shared.seen[who]
        PROVE  /\ shared'.seen[who] >= announced[DataOf(who)]
               /\ shared.seen[who] # Unread => shared'.seen[who] >= shared.seen[who]
    <3>1. who \in Readers /\ DataOf(who) = "roster" /\ shared.kept["roster"] # Unread /\ t.seen[who] = shared.kept["roster"]
      BY <1>3, <1>5, <1>8, <1>9, <2>1, <2>2, <2>4
    <3>2. shared.kept["roster"] >= announced["roster"]
      BY <1>2, <1>9, <3>1 DEF StoreSound, KeptStands
    <3>3. shared.seen[who] # Unread => shared.seen[who] <= shared.kept["roster"]
      BY <1>2, <3>1 DEF StoreSound, SeenStands
    <3> QED
      BY <1>6, <1>7, <1>9, <1>2, <2>2, <3>1, <3>2, <3>3
  <2> QED
    BY <2>3, <2>4 DEF OnlyCurrentGiven
<1>10. CASE ~(r.what = "roster" /\ ~OfThisTurn(r))
  <2> DEFINE k == Keeping(ok, now)
             t == Served(k, r.what, callers, ok, now)
  <2>1. shared' = t
    BY <1>1, <1>10
  <2>2. OfThisTurn(r) => r.turn = shared.turn[r.what] /\ r.id = shared.joined[r.what] /\ r.at >= announced[r.what]
    BY <1>2 DEF OfThisTurn, StoreSound, ReadsStand
  <2>3. /\ k \in StoreRec /\ k.joined = over.joined /\ k.turn = over.turn /\ k.opened = over.opened
        /\ k.reads = over.reads /\ k.count = over.count /\ k.calls = over.calls /\ k.mounted = over.mounted
        /\ k.seen = over.seen /\ k.missed = over.missed
        /\ \A d \in Data : k.kept[d] = IF d = r.what /\ ok /\ OfThisTurn(r) THEN now ELSE over.kept[d]
    <3>1. over \in StoreRec /\ (IF ok /\ OfThisTurn(r) THEN now ELSE over.kept[r.what]) \in {Unread} \cup Nat
      BY <1>2, <1>3, <1>4, <1>6 DEF StoreSound
    <3> QED
      BY <1>2, <3>1 DEF StoreRec
  <2> HIDE DEF k
  <2>4. KeptStands(k, versions, announced)
    <3> SUFFICES ASSUME NEW d \in Data, k.kept[d] # Unread
                 PROVE  k.kept[d] >= announced[d] /\ k.kept[d] <= versions[d] /\ k.joined[d] = 0
      BY DEF KeptStands
    <3>1. CASE d = r.what /\ ok /\ OfThisTurn(r)
      <4>1. k.kept[d] = now /\ k.joined[d] = 0
        BY <1>3, <2>2, <2>3, <3>1
      <4> QED
        BY <1>4, <2>2, <3>1, <4>1
    <3>2. CASE ~(d = r.what /\ ok /\ OfThisTurn(r))
      BY <1>3, <2>3, <3>2 DEF StoreSound, KeptStands
    <3> QED
      BY <3>1, <3>2
  <2>5. SeenStands(k, versions)
    <3> SUFFICES ASSUME NEW who \in Readers, k.seen[who] # Unread, who = "explain" => who \in k.mounted
                 PROVE  /\ k.seen[who] <= versions[DataOf(who)]
                        /\ k.kept[DataOf(who)] # Unread => k.seen[who] <= k.kept[DataOf(who)]
                        /\ \A q \in k.reads : q.what = DataOf(who) /\ q.turn = k.turn[DataOf(who)] => k.seen[who] <= q.at
      BY DEF SeenStands
    <3>1. /\ over.seen[who] <= versions[DataOf(who)]
          /\ over.kept[DataOf(who)] # Unread => over.seen[who] <= over.kept[DataOf(who)]
          /\ \A q \in over.reads : q.what = DataOf(who) /\ q.turn = over.turn[DataOf(who)] => over.seen[who] <= q.at
      BY <1>3, <2>3 DEF StoreSound, SeenStands
    <3>2. DataOf(who) \in Data
      BY DataOfReaders
    <3>3. ASSUME DataOf(who) = r.what, ok, OfThisTurn(r) PROVE k.seen[who] <= now
      <4>1. shared.seen[who] <= r.at
        BY <1>2, <1>3, <2>2, <2>3, <3>3 DEF StoreSound, SeenStands
      <4>2. shared.seen[who] \in Nat
        BY <1>3, <1>7, <2>3
      <4> QED
        BY <1>3, <1>4, <2>3, <4>1, <4>2
    <3> QED
      BY <2>3, <3>1, <3>2, <3>3
  <2>6. ReadsStand(k, versions, announced) /\ CallsStand(k)
    BY <1>3, <2>3 DEF StoreSound, ReadsStand, CallsStand, Awaits
  <2>7. StoreSound(k, versions, announced)
    BY <1>3, <2>3, <2>4, <2>5, <2>6 DEF StoreSound
  <2>8. Awaiting(k, callers) = Awaiting(over, callers)
    BY <2>3 DEF Awaiting
  <2>9. ASSUME NEW who \in Awaiting(k, callers), who = "explain" => who \in k.mounted PROVE OfThisTurn(r)
    BY <1>3, <1>8, <1>10, <2>3, <2>8, <2>9, DataOfReaders DEF Data
  <2>10. ASSUME NEW who \in k.mounted PROVE who \in Awaiting(k, callers) \/ CaughtUp(k, announced, who)
    BY <1>3, <2>3, <2>8 DEF CaughtUp, Awaits
  <2>11. CASE ok
    <3>1. t = Given(k, callers, now)
      BY <2>11 DEF Served
    <3>2. \A who \in Awaiting(k, callers) : who \in Readers /\ DataOf(who) = r.what
             /\ ((who = "explain" => who \in k.mounted) => k.kept[r.what] = now)
      BY <1>2, <1>8, <2>3, <2>8, <2>9, <2>11
    <3> DEFINE g == Given(k, callers, now)
    <3>3. /\ StoreSound(g, versions, announced) /\ g.mounted = k.mounted
          /\ \A who \in Readers : g.seen[who] = IF who \in Awaiting(k, callers) THEN now ELSE k.seen[who]
          /\ \A who \in k.mounted : who \in Awaiting(k, callers) \/ CaughtUp(k, announced, who) => CaughtUp(g, announced, who)
      BY <1>2, <1>4, <2>7, <3>2, GivenKeeps
    <3> HIDE DEF g, t
    <3>4. shared' = g
      BY <2>1, <3>1 DEF g
    <3>5. StoreInv'
      BY <1>1, <2>10, <3>3, <3>4 DEF StoreInv
    <3>6. ASSUME NEW who \in shared.mounted, shared'.seen[who] # shared.seen[who]
          PROVE  /\ shared'.seen[who] >= announced[DataOf(who)]
                 /\ shared.seen[who] # Unread => shared'.seen[who] >= shared.seen[who]
      <4>1. who \in Awaiting(k, callers) /\ shared'.seen[who] = now /\ who \in k.mounted
        BY <1>3, <1>5, <2>3, <3>3, <3>4, <3>6
      <4>2. OfThisTurn(r) /\ DataOf(who) = r.what
        BY <2>9, <3>2, <4>1
      <4>3. shared.seen[who] # Unread => shared.seen[who] <= r.at
        BY <1>2, <1>5, <2>2, <4>2 DEF StoreSound, SeenStands
      <4> QED
        BY <1>2, <1>4, <1>5, <1>7, <2>2, <4>1, <4>2, <4>3
    <3> QED
      BY <3>5, <3>6 DEF OnlyCurrentGiven
  <2>12. CASE ~ok
    <3> DEFINE asking == {call \in callers : call.again > 0}
               through == callers \ asking
               g == Refused(k, through)
               counted == AskingAgain(asking, -1)
               u == Asks(g, r.what, counted)
    <3>1. shared' = u
      BY <2>1, <2>12 DEF Served, Failed
    <3>2. \A who : who \in Awaiting(k, callers) <=> who \in Awaiting(k, through) \/ who \in Awaiting(k, asking)
      BY AwaitingIs
    <3>3. Awaiting(k, through) \subseteq Readers
      BY <1>8, <2>8, <3>2
    <3>4. /\ StoreSound(g, versions, announced) /\ g.mounted = k.mounted
          /\ \A who \in Readers : g.seen[who] = k.seen[who] \/ g.seen[who] = Unread
          /\ \A who \in k.mounted : who \in Awaiting(k, through) \/ CaughtUp(k, announced, who) => CaughtUp(g, announced, who)
      BY <2>7, <3>3, RefusedKeeps
    <3>5. g.opened = k.opened /\ g.kept = k.kept
      BY <2>3 DEF Refused, StoreRec
    <3>6. /\ \A c \in counted : c \in CallRec /\ \E call \in asking : c.who = call.who /\ c.opened = call.opened
          /\ Awaiting(g, counted) = Awaiting(g, asking)
      <4>0. -1 \in Int
        OBVIOUS
      <4>1. \A call \in asking : call \in CallRec /\ call.again + (-1) >= 0
        BY <1>3 DEF CallRec
      <4> HIDE DEF g, asking
      <4> QED
        BY <4>0, <4>1, AskingAgainKeeps, Zenon
    <3> HIDE DEF g
    <3>7. Awaiting(g, counted) = Awaiting(k, asking)
      BY <3>5, <3>6 DEF Awaiting
    <3>8. \A c \in counted : c \in CallRec /\ DataOf(c.who) = r.what /\ c.opened <= g.opened
      BY <1>3, <2>3, <3>5, <3>6
    <3> HIDE DEF counted, asking, through
    <3>9. /\ StoreSound(u, versions, announced) /\ u.mounted = g.mounted
          /\ \A who \in Readers : \/ u.seen[who] = g.seen[who]
                                  \/ who \in Awaiting(g, counted) /\ g.kept[r.what] # Unread /\ u.seen[who] = g.kept[r.what]
          /\ \A who \in g.mounted : who \in Awaiting(g, counted) \/ CaughtUp(g, announced, who) => CaughtUp(u, announced, who)
      BY <1>2, <3>4, <3>8, AsksKeeps
    <3> HIDE DEF u
    <3>10. StoreInv'
      BY <1>1, <2>10, <3>1, <3>2, <3>4, <3>7, <3>9 DEF StoreInv
    <3>11. ASSUME NEW who \in shared.mounted, shared'.seen[who] # shared.seen[who], shared'.seen[who] # Unread
           PROVE  /\ shared'.seen[who] >= announced[DataOf(who)]
                  /\ shared.seen[who] # Unread => shared'.seen[who] >= shared.seen[who]
      <4>1. k.seen[who] = shared.seen[who] /\ who \in Readers /\ who \in k.mounted
        BY <1>3, <1>5, <2>3
      <4>2. who \in Awaiting(g, counted) /\ k.kept[r.what] # Unread /\ shared'.seen[who] = k.kept[r.what]
        BY <3>1, <3>4, <3>5, <3>9, <3>11, <4>1
      <4>3. DataOf(who) = r.what
        BY <1>8, <2>8, <3>2, <3>7, <4>2
      <4>4. k.kept[r.what] >= announced[r.what]
        BY <1>2, <2>4, <4>2 DEF KeptStands
      <4>5. shared.seen[who] # Unread => shared.seen[who] <= k.kept[r.what]
        BY <2>5, <4>1, <4>2, <4>3 DEF SeenStands
      <4>6. k.kept[r.what] \in Nat
        BY <1>2, <2>3, <4>2 DEF StoreRec
      <4> QED
        BY <1>2, <1>4, <1>7, <4>1, <4>2, <4>3, <4>4, <4>5, <4>6
    <3> QED
      BY <3>10, <3>11 DEF OnlyCurrentGiven
  <2> QED
    BY <1>1, <2>11, <2>12
<1> QED
  BY <1>9, <1>10

LEMMA StoreVisitsKeeps ==
  ASSUME StoreInv, StoreVisits
  PROVE  StoreInv' /\ OnlyCurrentGiven
<1>1. versions' = versions /\ announced' = announced
  BY DEF StoreVisits
<1>2. /\ StoreSound(shared, versions, announced) /\ shared \in StoreRec /\ shared.mounted \subseteq Readers
      /\ \A who \in shared.mounted : CaughtUp(shared, announced, who)
      /\ "roster" \in Data /\ "records" \in Data
  BY DEF StoreInv, StoreSound, StoreRec, Data
<1>3. ASSUME NEW who \in Readers, ReaderMounts(who), who # "explain" PROVE StoreInv' /\ OnlyCurrentGiven
  <2> DEFINE here == [shared EXCEPT !.mounted = @ \union {who}]
             t == AskedBy(here, "roster", {who})
  <2>1. /\ here \in StoreRec /\ here.kept = shared.kept /\ here.joined = shared.joined /\ here.turn = shared.turn
        /\ here.opened = shared.opened /\ here.reads = shared.reads /\ here.count = shared.count
        /\ here.calls = shared.calls /\ here.seen = shared.seen /\ here.missed = shared.missed
        /\ here.mounted = shared.mounted \cup {who}
    BY <1>2 DEF StoreRec
  <2>2. shared' = t /\ who \notin shared.mounted
    BY <1>3 DEF ReaderMounts
  <2> HIDE DEF here
  <2>3. ReadsStand(here, versions, announced) /\ KeptStands(here, versions, announced)
    BY <1>2, <2>1 DEF StoreSound, ReadsStand, KeptStands
  <2>4. CallsStand(here) /\ SeenStands(here, versions)
    BY <1>2, <1>3, <2>1 DEF StoreSound, CallsStand, SeenStands, Awaits
  <2>5. StoreSound(here, versions, announced)
    BY <1>2, <2>1, <2>3, <2>4 DEF StoreSound
  <2>6. DataOf(who) = "roster" /\ {who} \in SUBSET Readers
    BY <1>3 DEF DataOf
  <2>7. /\ StoreSound(t, versions, announced) /\ t.mounted = here.mounted
        /\ \A x \in Readers : \/ t.seen[x] = here.seen[x]
                              \/ x \in {who} /\ here.kept["roster"] # Unread /\ t.seen[x] = here.kept["roster"]
        /\ \A x \in here.mounted : x \in {who} \/ CaughtUp(here, announced, x) => CaughtUp(t, announced, x)
    BY <1>2, <2>5, <2>6, AskedByKeeps
  <2>8. \A x \in shared.mounted : CaughtUp(here, announced, x)
    BY <1>2, <2>1 DEF CaughtUp, Awaits
  <2> HIDE DEF t
  <2> QED
    BY <1>1, <1>2, <2>1, <2>2, <2>7, <2>8 DEF StoreInv, OnlyCurrentGiven
<1>4. ASSUME ReaderMounts("explain") PROVE StoreInv' /\ OnlyCurrentGiven
  <2> DEFINE here == [shared EXCEPT !.mounted = @ \union {"explain"}]
             e == [here EXCEPT !.opened = @ + 1, !.seen["explain"] = Unread, !.missed["explain"] = FALSE]
             t == AskedBy(e, "records", {"explain"})
  <2>1. "explain" \in Readers /\ shared.opened \in Nat
    BY <1>2 DEF Readers, StoreRec
  <2>2. /\ e \in StoreRec /\ e.kept = shared.kept /\ e.joined = shared.joined /\ e.turn = shared.turn
        /\ e.opened = shared.opened + 1 /\ e.reads = shared.reads /\ e.count = shared.count
        /\ e.calls = shared.calls /\ e.mounted = shared.mounted \cup {"explain"}
        /\ \A x \in Readers : /\ e.seen[x] = IF x = "explain" THEN Unread ELSE shared.seen[x]
                              /\ e.missed[x] = IF x = "explain" THEN FALSE ELSE shared.missed[x]
    <3>1. here \in StoreRec /\ here = [shared EXCEPT !.mounted = @ \union {"explain"}]
      BY <1>2, <2>1 DEF StoreRec
    <3>2. /\ here.kept = shared.kept /\ here.joined = shared.joined /\ here.turn = shared.turn
          /\ here.opened = shared.opened /\ here.reads = shared.reads /\ here.count = shared.count
          /\ here.calls = shared.calls /\ here.seen = shared.seen /\ here.missed = shared.missed
          /\ here.mounted = shared.mounted \cup {"explain"}
      BY <1>2 DEF StoreRec
    <3> HIDE DEF here
    <3> QED
      <4>1. here.seen \in [Readers -> {Unread} \cup Nat] /\ here.missed \in [Readers -> BOOLEAN]
        BY <3>1 DEF StoreRec
      <4>2. e.seen = [here.seen EXCEPT !["explain"] = Unread] /\ e.missed = [here.missed EXCEPT !["explain"] = FALSE]
        BY <3>1 DEF StoreRec
      <4>3. /\ e.kept = here.kept /\ e.joined = here.joined /\ e.turn = here.turn
            /\ e.opened = here.opened + 1 /\ e.reads = here.reads /\ e.count = here.count
            /\ e.calls = here.calls /\ e.mounted = here.mounted
        BY <3>1 DEF StoreRec
      <4>4. e \in StoreRec
        <5>1. here.opened + 1 \in Nat
          BY <2>1, <3>2
        <5>2. e.seen \in [Readers -> {Unread} \cup Nat] /\ e.missed \in [Readers -> BOOLEAN]
          BY <4>1, <4>2
        <5>3. e = [here EXCEPT !.opened = here.opened + 1, !.seen = e.seen, !.missed = e.missed]
          BY <3>1, <4>2 DEF StoreRec
        <5> HIDE DEF e
        <5> QED
          BY <3>1, <5>1, <5>2, <5>3 DEF StoreRec
      <4>5. \A x \in Readers : /\ e.seen[x] = IF x = "explain" THEN Unread ELSE here.seen[x]
                              /\ e.missed[x] = IF x = "explain" THEN FALSE ELSE here.missed[x]
        BY <4>1, <4>2
      <4> HIDE DEF e
      <4> QED
        BY <3>2, <4>3, <4>4, <4>5
  <2>3. shared' = t /\ "explain" \notin shared.mounted
    BY <1>4 DEF ReaderMounts
  <2> HIDE DEF e
  <2>4. ReadsStand(e, versions, announced) /\ KeptStands(e, versions, announced)
    BY <1>2, <2>2 DEF StoreSound, ReadsStand, KeptStands
  <2>5. SeenStands(e, versions)
    BY <1>2, <2>2 DEF StoreSound, SeenStands
  <2>6. CallsStand(e)
    <3>1. \A call \in e.calls : call.opened \in Nat /\ call.opened <= shared.opened
      BY <1>2, <2>2 DEF StoreSound, CallsStand, StoreRec, CallRec
    <3>2. \A call \in e.calls : call.who = "explain" => ~Awaits(e, call)
      BY <2>1, <2>2, <3>1 DEF Awaits
    <3> QED
      BY <1>2, <2>1, <2>2, <3>1, <3>2 DEF StoreSound, CallsStand
  <2>7. StoreSound(e, versions, announced)
    BY <1>2, <2>2, <2>4, <2>5, <2>6 DEF StoreSound
  <2>8. /\ StoreSound(t, versions, announced) /\ t.mounted = e.mounted
        /\ \A x \in Readers : \/ t.seen[x] = e.seen[x]
                              \/ x \in {"explain"} /\ e.kept["records"] # Unread /\ t.seen[x] = e.kept["records"]
        /\ \A x \in e.mounted : x \in {"explain"} \/ CaughtUp(e, announced, x) => CaughtUp(t, announced, x)
    <3>1. DataOf("explain") = "records" /\ {"explain"} \in SUBSET Readers
      BY <2>1 DEF DataOf
    <3> QED
      BY <1>2, <2>7, <3>1, AskedByKeeps
  <2>9. \A x \in shared.mounted : x # "explain" /\ CaughtUp(e, announced, x)
    <3>1. \A x \in shared.mounted : x \in Readers /\ x # "explain"
      BY <1>2, <2>3
    <3> QED
      BY <1>2, <2>2, <3>1 DEF CaughtUp, Awaits
  <2> HIDE DEF t
  <2> QED
    BY <1>1, <1>2, <2>2, <2>3, <2>8, <2>9 DEF StoreInv, OnlyCurrentGiven
<1>5. ASSUME NEW who \in Readers, ReaderUnmounts(who) PROVE StoreInv' /\ OnlyCurrentGiven
  <2> DEFINE t == [shared EXCEPT !.mounted = @ \ {who}]
  <2>1. shared' = t
    BY <1>5 DEF ReaderUnmounts
  <2>2. /\ t \in StoreRec /\ t.kept = shared.kept /\ t.joined = shared.joined /\ t.turn = shared.turn
        /\ t.opened = shared.opened /\ t.reads = shared.reads /\ t.count = shared.count
        /\ t.calls = shared.calls /\ t.seen = shared.seen /\ t.missed = shared.missed
        /\ t.mounted = shared.mounted \ {who}
    BY <1>2 DEF StoreRec
  <2> HIDE DEF t
  <2>3. ReadsStand(t, versions, announced) /\ KeptStands(t, versions, announced)
    BY <1>2, <2>2 DEF StoreSound, ReadsStand, KeptStands
  <2>4. CallsStand(t) /\ SeenStands(t, versions)
    BY <1>2, <2>2 DEF StoreSound, CallsStand, SeenStands, Awaits
  <2>5. \A x \in t.mounted : CaughtUp(t, announced, x)
    BY <1>2, <2>2 DEF CaughtUp, Awaits
  <2> QED
    BY <1>1, <1>2, <2>1, <2>2, <2>3, <2>4, <2>5 DEF StoreInv, StoreSound, OnlyCurrentGiven
<1>6. ASSUME BadgesRetry PROVE StoreInv' /\ OnlyCurrentGiven
  <2> DEFINE t == AskedBy(shared, "roster", {"badges"})
  <2>1. "badges" \in Readers /\ DataOf("badges") = "roster" /\ {"badges"} \in SUBSET Readers
    BY DEF Readers, DataOf
  <2>2. /\ StoreSound(t, versions, announced) /\ t.mounted = shared.mounted
        /\ \A x \in Readers : \/ t.seen[x] = shared.seen[x]
                              \/ x \in {"badges"} /\ shared.kept["roster"] # Unread /\ t.seen[x] = shared.kept["roster"]
        /\ \A x \in shared.mounted : x \in {"badges"} \/ CaughtUp(shared, announced, x) => CaughtUp(t, announced, x)
    BY <1>2, <2>1, AskedByKeeps
  <2>3. shared.kept["roster"] # Unread => shared.kept["roster"] >= announced["roster"]
    BY <1>2 DEF StoreSound, KeptStands
  <2> HIDE DEF t
  <2>4. shared' = t /\ shared.seen["badges"] = Unread
    BY <1>6 DEF BadgesRetry, t
  <2> QED
    BY <1>1, <1>2, <2>1, <2>2, <2>3, <2>4 DEF StoreInv, OnlyCurrentGiven
<1> QED
  BY <1>3, <1>4, <1>5, <1>6 DEF StoreVisits

LEMMA StoreStarts == StoreInit => StoreInv
<1> SUFFICES ASSUME StoreInit PROVE StoreInv
  OBVIOUS
<1>1. /\ shared \in StoreRec /\ versions \in Versions /\ announced \in Versions
      /\ \A what \in Data : announced[what] <= versions[what]
      /\ shared.reads = {} /\ shared.calls = {} /\ shared.mounted = {}
      /\ \A what \in Data : shared.kept[what] = Unread /\ shared.joined[what] = 0
      /\ \A who \in Readers : shared.seen[who] = Unread
  BY DEF StoreInit, StoreRec, Versions
<1>2. ReadsStand(shared, versions, announced) /\ KeptStands(shared, versions, announced)
  BY <1>1 DEF ReadsStand, KeptStands
<1>3. CallsStand(shared) /\ SeenStands(shared, versions)
  BY <1>1 DEF CallsStand, SeenStands
<1> QED
  BY <1>1, <1>2, <1>3 DEF StoreInv, StoreSound

LEMMA StoreGoesOn == StoreInv /\ [StoreNext]_storeVars => StoreInv' /\ OnlyCurrentGiven
<1> SUFFICES ASSUME StoreInv, [StoreNext]_storeVars PROVE StoreInv' /\ OnlyCurrentGiven
  OBVIOUS
<1>1. CASE UNCHANGED storeVars
  BY <1>1 DEF storeVars, StoreInv, OnlyCurrentGiven
<1>2. ASSUME NEW data \in SUBSET Data, HouseChanges(data) PROVE StoreInv' /\ OnlyCurrentGiven
  BY <1>2, HouseChangesKeeps
<1>3. CASE StoreTold
  BY <1>3, StoreToldKeeps
<1>4. CASE StoreVisits
  BY <1>4, StoreVisitsKeeps
<1>5. ASSUME NEW r \in shared.reads, ReadAnswered(r) PROVE StoreInv' /\ OnlyCurrentGiven
  BY <1>5, ReadAnsweredKeeps
<1>6. {"records"} \in SUBSET Data /\ Data \in SUBSET Data
  BY DEF Data
<1> QED
  BY <1>1, <1>2, <1>3, <1>4, <1>5, <1>6 DEF StoreNext

(* With no read on its way nobody awaits one, so whoever is in the page is up to   *)
(* date or missed its last read.                                                   *)
LEMMA StoreIsRight == StoreInv => StoreInvariant
<1> SUFFICES ASSUME StoreInv PROVE StoreInvariant
  OBVIOUS
<1>1. /\ shared \in StoreRec /\ versions \in Versions /\ StoreSound(shared, versions, announced)
      /\ shared.mounted \subseteq Readers
  BY DEF StoreInv, StoreSound, StoreRec
<1>2. StoreTypeOK
  <2>1. \A r \in shared.reads : r.id \in 1..shared.count /\ r.at \in 0..versions[r.what]
    <3>1. \A r \in shared.reads : /\ r.id \in Nat /\ r.id # 0 /\ r.id <= shared.count /\ shared.count \in Nat
                                  /\ r.at \in Nat /\ r.at <= versions[r.what] /\ versions[r.what] \in Nat
      BY <1>1 DEF StoreSound, ReadsStand, StoreRec, ReadRec, Versions
    <3> QED
      BY <3>1
  <2>2. \A what \in Data : shared.kept[what] \in {Unread} \cup 0..versions[what]
    BY <1>1 DEF StoreSound, KeptStands, StoreRec, Versions
  <2> QED
    BY <2>1, <2>2 DEF StoreTypeOK
<1>3. KeepsWhatIsCurrent
  BY <1>1 DEF KeepsWhatIsCurrent, StoreSound, KeptStands, ReadsStand, OfThisTurn
<1>4. ReadersCatchUp
  <2> SUFFICES ASSUME shared.reads = {}, NEW who \in shared.mounted
               PROVE  shared.missed[who] \/ (shared.seen[who] # Unread /\ shared.seen[who] >= announced[DataOf(who)])
    BY DEF ReadersCatchUp
  <2>1. shared.calls = {}
    BY <1>1 DEF StoreSound, CallsStand
  <2> QED
    BY <2>1 DEF StoreInv, CaughtUp
<1> QED
  BY <1>2, <1>3, <1>4 DEF StoreInvariant

(* Whatever is asked for and answered when, the store keeps nothing older than  *)
(* what the tab was told of, and with nothing on its way every reader in the       *)
(* page shows at least that, or its last read failed (store.ts).                    *)
THEOREM StoreHolds == StoreSpec => []StoreInvariant
<1>1. StoreInv /\ [StoreNext]_storeVars => StoreInv'
  BY StoreGoesOn
<1> QED
  BY <1>1, StoreStarts, StoreIsRight, PTL DEF StoreSpec

LEMMA OnlyCurrentStep == OnlyCurrentGiven =>
  [\A who \in shared.mounted :
     LET now == shared.seen'[who]
     IN  now # shared.seen[who] /\ now # Unread
           => now >= announced[DataOf(who)] /\ (shared.seen[who] # Unread => now >= shared.seen[who])]_storeVars
BY DEF OnlyCurrentGiven

(* A reader in the page is never given data behind what was announced or behind     *)
(* what it shows, though reads that were overtaken are answered too.                *)
THEOREM ReadersGetOnlyCurrent == StoreSpec => GivenOnlyCurrent
<1>1. StoreInv /\ [StoreNext]_storeVars => StoreInv'
  BY StoreGoesOn
<1>2. StoreInv /\ [StoreNext]_storeVars =>
        [\A who \in shared.mounted :
           LET now == shared.seen'[who]
           IN  now # shared.seen[who] /\ now # Unread
                 => now >= announced[DataOf(who)] /\ (shared.seen[who] # Unread => now >= shared.seen[who])]_storeVars
  BY StoreGoesOn, OnlyCurrentStep
<1> QED
  BY <1>1, <1>2, StoreStarts, PTL DEF StoreSpec, GivenOnlyCurrent

----------------------------------------------------------------------------
(* ------------------------ the energy card ------------------------ *)

CardRead == [id : Nat \ {0}, what : Wanted, at : Nat]
CardCall == [what : Wanted, turn : Nat \ {0}, fresh : BOOLEAN, retry : BOOLEAN, tree : Nat, read : Nat]
CardRec == [connected : BOOLEAN, known : BOOLEAN, generation : Nat, turn : Nat,
            tree : Nat, inverter : Nat, failed : BOOLEAN, engine : Nat, engines : SUBSET Nat,
            watched : SUBSET Entities, shown : [Entities -> Nat], open : BOOLEAN, announced : BOOLEAN,
            joined : [Wanted -> Nat], reads : SUBSET CardRead, calls : SUBSET CardCall, count : Nat,
            told : Nat, renewed : Nat, missed : SUBSET {"tree", "inverter"}]

(* What a load that counts may not be behind. *)
Least(c, what) == IF what = "tree" THEN c.told ELSE IF what = "inverter" THEN c.renewed ELSE 0
Turn(c, what)  == IF what = "inverter" THEN c.turn ELSE c.generation
Loads(c, wants) == \E call \in c.calls : call.what \in wants /\ Current(c, call)

CardReadsStand(c, k) ==
  /\ \A r \in c.reads : r.id <= c.count /\ r.at <= k
  /\ \A q, r \in c.reads : q.id = r.id => q = r

(* A read to join is of the last announcement. *)
JoinStands(c, wants) ==
  \A what \in wants : c.joined[what] # 0 =>
    \E r \in c.reads : r.id = c.joined[what] /\ r.what = what /\ r.at >= Least(c, what)

(* So is the read of a call that has not been overtaken. *)
CallStands(c, k, call, wants) ==
  LET counts == call.what \in wants /\ call.turn = Turn(c, call.what) IN
  /\ c.known /\ call.turn <= Turn(c, call.what)
  /\ \E r \in c.reads : r.id = call.read /\ r.what = call.what /\ (counts => r.at >= Least(c, call.what))
  /\ call.what = "history" => call.tree <= k /\ (counts => call.tree >= c.told)

LoadStands(c, k, joins, counts) ==
  /\ c \in CardRec /\ k \in Nat
  /\ c.renewed <= c.told /\ c.told <= k /\ c.tree <= k /\ c.inverter <= k
  /\ CardReadsStand(c, k) /\ JoinStands(c, joins) /\ \A call \in c.calls : CallStands(c, k, call, counts)

(* What is loaded, is being loaded or was missed, and what runs. *)
RunsOne(c) == c.engines \subseteq {c.engine} /\ (~c.connected => c.engines = {})
CardProgress(c) ==
  /\ c.engine # 0 => c.known
  /\ RunsOne(c)
  /\ c.connected /\ c.known /\ ~Loads(c, {"tree", "history"}) =>
       IF c.engine = 0 THEN c.failed
       ELSE "tree" \notin c.missed =>
              /\ c.tree >= c.told /\ c.engines = {c.engine}
              /\ Loads(c, {"inverter"}) \/ "inverter" \in c.missed \/ c.inverter >= c.renewed

(* Whatever it draws it watches, and what it watches it has. *)
CardWatches(c, p) ==
  /\ c.watched = (IF c.tree > 0 THEN {"power"} ELSE {}) \union (IF c.inverter > 0 THEN {"cell"} ELSE {})
                 \union (IF c.announced THEN {"detail"} ELSE {})
  /\ \A e \in c.watched : c.shown[e] = p[e]

CardInv == /\ pushed \in [Entities -> Nat] /\ LoadStands(card, config, Wanted, Wanted)
           /\ CardProgress(card) /\ CardWatches(card, pushed)

(* The parts of a card that the loads, the engines and the drawing are about. *)
LoadPart(c) == <<c.known, c.generation, c.turn, c.tree, c.inverter, c.joined, c.reads, c.calls, c.count,
                 c.told, c.renewed>>
RunPart(c)  == <<c.connected, c.engine, c.engines, c.failed, c.missed>>
DrawPart(c) == <<c.watched, c.shown, c.announced>>

Knows(c) == c.known
InPage(c) == c.connected

LEMMA SameLoads ==
  ASSUME NEW c, NEW d \in CardRec, NEW k, NEW joins, NEW counts, LoadStands(c, k, joins, counts), LoadPart(d) = LoadPart(c)
  PROVE  LoadStands(d, k, joins, counts)
BY DEF LoadPart, LoadStands, CardReadsStand, JoinStands, CallStands, Turn, Least

LEMMA SameProgress ==
  ASSUME NEW c, NEW d, CardProgress(c), LoadPart(d) = LoadPart(c), RunPart(d) = RunPart(c)
  PROVE  CardProgress(d)
BY DEF LoadPart, RunPart, CardProgress, RunsOne, Loads, Current

(* A call joins a read under way or begins one. *)
LEMMA JoinsKeeps ==
  ASSUME NEW c, NEW call \in CardCall, NEW fresh \in BOOLEAN,
         LoadStands(c, config, IF fresh THEN Wanted \ {call.what} ELSE Wanted, Wanted),
         Knows(c), call.turn <= Turn(c, call.what),
         call.what = "history" => call.tree <= config /\ call.tree >= c.told
  PROVE  LET t == Joins(c, call, fresh) IN
         /\ LoadStands(t, config, Wanted, Wanted) /\ RunPart(t) = RunPart(c) /\ DrawPart(t) = DrawPart(c)
         /\ t.known = c.known /\ t.generation = c.generation /\ t.turn = c.turn /\ t.tree = c.tree
         /\ t.inverter = c.inverter /\ t.told = c.told /\ t.renewed = c.renewed
         /\ c.calls \subseteq t.calls
         /\ \E x \in t.calls : x.what = call.what /\ x.turn = call.turn
<1> DEFINE new == fresh \/ c.joined[call.what] = 0
           id  == IF new THEN c.count + 1 ELSE c.joined[call.what]
           r0  == [id |-> id, what |-> call.what, at |-> config]
           x0  == [call EXCEPT !.read = id]
           t   == Joins(c, call, fresh)
<1>1. /\ c \in CardRec /\ config \in Nat /\ call.what \in Wanted /\ c.count \in Nat
      /\ c.joined \in [Wanted -> Nat] /\ c.joined[call.what] \in Nat
  BY DEF LoadStands, CardRec, CardCall
<1>2. id \in Nat \ {0} /\ r0 \in CardRead /\ r0.id = id /\ r0.what = call.what /\ r0.at = config
  BY <1>1 DEF CardRead
<1>3. /\ x0 \in CardCall /\ x0.read = id /\ x0.what = call.what /\ x0.turn = call.turn /\ x0.tree = call.tree
  BY <1>2 DEF CardCall
<1>4. t = [c EXCEPT !.count = IF new THEN id ELSE @, !.joined[call.what] = id,
                    !.reads = IF new THEN @ \union {r0} ELSE @, !.calls = @ \union {x0}]
  BY DEF Joins
<1> HIDE DEF new, id, r0, x0, t
<1>5. /\ t \in CardRec /\ RunPart(t) = RunPart(c) /\ DrawPart(t) = DrawPart(c)
      /\ t.known = c.known /\ t.generation = c.generation /\ t.turn = c.turn /\ t.tree = c.tree
      /\ t.inverter = c.inverter /\ t.told = c.told /\ t.renewed = c.renewed
      /\ t.count = (IF new THEN id ELSE c.count)
      /\ t.reads = (IF new THEN c.reads \union {r0} ELSE c.reads)
      /\ t.calls = c.calls \union {x0}
      /\ \A what \in Wanted : t.joined[what] = IF what = call.what THEN id ELSE c.joined[what]
  <2>1. /\ t \in CardRec
        /\ t.known = c.known /\ t.generation = c.generation /\ t.turn = c.turn /\ t.tree = c.tree
        /\ t.inverter = c.inverter /\ t.told = c.told /\ t.renewed = c.renewed
        /\ t.count = (IF new THEN id ELSE c.count)
        /\ t.reads = (IF new THEN c.reads \union {r0} ELSE c.reads)
        /\ t.calls = c.calls \union {x0}
        /\ \A what \in Wanted : t.joined[what] = IF what = call.what THEN id ELSE c.joined[what]
    BY <1>1, <1>2, <1>3, <1>4 DEF CardRec
  <2>2. /\ t.connected = c.connected /\ t.engine = c.engine /\ t.engines = c.engines /\ t.failed = c.failed
        /\ t.missed = c.missed /\ t.watched = c.watched /\ t.shown = c.shown /\ t.announced = c.announced
    BY <1>1, <1>4 DEF CardRec
  <2> QED
    BY <2>1, <2>2 DEF RunPart, DrawPart
<1>6. \A what \in Wanted : Least(t, what) = Least(c, what) /\ Turn(t, what) = Turn(c, what) /\ Least(c, what) <= config
  BY <1>5 DEF Least, Turn, LoadStands, CardRec
<1>7. c.reads \subseteq t.reads /\ \A r \in c.reads : r.id \in Nat /\ r.id # 0 /\ r.id <= c.count /\ r.what \in Wanted
  BY <1>5 DEF LoadStands, CardReadsStand, CardRec, CardRead
<1>8. \E r \in t.reads : r.id = id /\ r.what = call.what /\ r.at >= Least(t, call.what)
  <2>1. CASE new
    BY <1>1, <1>2, <1>5, <1>6, <2>1
  <2>2. CASE ~new
    <3>1. id = c.joined[call.what] /\ id # 0 /\ ~fresh
      BY <2>2 DEF new, id
    <3> QED
      BY <1>1, <1>6, <1>7, <3>1 DEF LoadStands, JoinStands
  <2> QED
    BY <2>1, <2>2
<1>9. CardReadsStand(t, config)
  <2>1. CASE new
    <3>1. id = c.count + 1 /\ t.count = id /\ t.reads = c.reads \union {r0}
      BY <1>5, <2>1 DEF id
    <3>2. \A r \in c.reads : r.id # r0.id
      BY <1>1, <1>2, <1>7, <3>1
    <3>3. \A r \in t.reads : r.id <= t.count /\ r.at <= config
      BY <1>1, <1>2, <1>7, <3>1 DEF LoadStands, CardReadsStand
    <3>4. \A q, r \in t.reads : q.id = r.id => q = r
      BY <3>1, <3>2 DEF LoadStands, CardReadsStand
    <3> QED
      BY <3>3, <3>4 DEF CardReadsStand
  <2>2. CASE ~new
    BY <1>5, <2>2 DEF LoadStands, CardReadsStand
  <2> QED
    BY <2>1, <2>2
<1>10. JoinStands(t, Wanted)
  BY <1>5, <1>6, <1>7, <1>8 DEF LoadStands, JoinStands
<1>11. ASSUME NEW x \in t.calls PROVE CallStands(t, config, x, Wanted)
  <2>1. CASE x \in c.calls
    <3>1. x.what \in Wanted /\ CallStands(c, config, x, Wanted)
      BY <2>1 DEF LoadStands, CardRec, CardCall
    <3> QED
      BY <1>5, <1>6, <1>7, <3>1 DEF CallStands
  <2>2. CASE x = x0
    BY <1>1, <1>3, <1>5, <1>6, <1>8, <2>2 DEF CallStands, Knows
  <2> QED
    BY <1>5, <2>1, <2>2
<1>12. LoadStands(t, config, Wanted, Wanted)
  BY <1>5, <1>9, <1>10, <1>11 DEF LoadStands
<1> QED
  BY <1>3, <1>5, <1>12 DEF t

(* A load that begins overtakes the earlier ones. *)
LEMMA LoadsBackendKeeps ==
  ASSUME NEW c, NEW fresh \in BOOLEAN, NEW retry \in BOOLEAN, Knows(c), InPage(c),
         LoadStands(c, config, IF fresh THEN Wanted \ {"tree"} ELSE Wanted, {"inverter"})
  PROVE  LET t == LoadsBackend(c, fresh, retry) IN
         /\ LoadStands(t, config, Wanted, Wanted) /\ RunPart(t) = RunPart(c) /\ DrawPart(t) = DrawPart(c)
         /\ t.known = c.known /\ t.tree = c.tree /\ t.inverter = c.inverter
         /\ Loads(t, {"tree", "history"})
<1> DEFINE g == [c EXCEPT !.generation = @ + 1]
           call == Call("tree", c.generation + 1, fresh, retry, 0)
           joins == IF fresh THEN Wanted \ {"tree"} ELSE Wanted
           t == LoadsBackend(c, fresh, retry)
<1>1. c \in CardRec /\ c.generation \in Nat
  BY DEF LoadStands, CardRec
<1>2. /\ g \in CardRec /\ g.generation = c.generation + 1 /\ g.connected = c.connected /\ g.known = c.known
      /\ g.turn = c.turn /\ g.tree = c.tree /\ g.inverter = c.inverter /\ g.joined = c.joined /\ g.reads = c.reads
      /\ g.calls = c.calls /\ g.count = c.count /\ g.told = c.told /\ g.renewed = c.renewed
      /\ RunPart(g) = RunPart(c) /\ DrawPart(g) = DrawPart(c)
  <2>0. c.generation + 1 \in Nat
    BY <1>1
  <2>00. g \in CardRec
    BY <1>1, <2>0 DEF CardRec
  <2>1. /\ g.generation = c.generation + 1 /\ g.known = c.known
        /\ g.turn = c.turn /\ g.tree = c.tree /\ g.inverter = c.inverter /\ g.joined = c.joined /\ g.reads = c.reads
        /\ g.calls = c.calls /\ g.count = c.count /\ g.told = c.told /\ g.renewed = c.renewed
    BY <1>1, <2>0 DEF CardRec
  <2>2. /\ g.connected = c.connected /\ g.engine = c.engine /\ g.engines = c.engines /\ g.failed = c.failed
        /\ g.missed = c.missed /\ g.watched = c.watched /\ g.shown = c.shown /\ g.announced = c.announced
    BY <1>1 DEF CardRec
  <2> QED
    BY <2>00, <2>1, <2>2 DEF RunPart, DrawPart
<1>3. call \in CardCall /\ call.what = "tree" /\ call.turn = c.generation + 1
  BY <1>1 DEF Call, CardCall, Wanted
<1>4. t = Joins(g, call, fresh)
  BY DEF LoadsBackend
<1> HIDE DEF g, call, t
<1>5. ASSUME NEW x \in g.calls PROVE CallStands(g, config, x, Wanted)
  <2>1. CallStands(c, config, x, {"inverter"}) /\ x.turn \in Nat
    BY <1>1, <1>2 DEF LoadStands, CardRec, CardCall
  <2>2. CASE x.what = "inverter"
    BY <1>2, <2>1, <2>2 DEF CallStands, Turn, Least
  <2>3. CASE x.what # "inverter"
    <3>1. x.turn # Turn(g, x.what) /\ x.turn <= Turn(g, x.what)
      BY <1>1, <1>2, <2>1, <2>3 DEF CallStands, Turn
    <3> QED
      BY <1>2, <2>1, <2>3, <3>1 DEF CallStands
  <2> QED
    BY <2>2, <2>3
<1>6. LoadStands(g, config, joins, Wanted)
  BY <1>2, <1>5 DEF LoadStands, CardReadsStand, JoinStands, Least
<1>7. /\ LoadStands(t, config, Wanted, Wanted) /\ RunPart(t) = RunPart(g) /\ DrawPart(t) = DrawPart(g)
      /\ t.known = g.known /\ t.generation = g.generation /\ t.tree = g.tree /\ t.inverter = g.inverter
      /\ \E x \in t.calls : x.what = call.what /\ x.turn = call.turn
  <2>1. call.turn <= Turn(g, call.what) /\ call.what # "history"
    BY <1>1, <1>2, <1>3 DEF Turn
  <2> QED
    <3> DEFINE j == Joins(g, call, fresh)
    <3>1. LoadStands(g, config, IF fresh THEN Wanted \ {call.what} ELSE Wanted, Wanted)
      BY <1>3, <1>6
    <3>2. Knows(g)
      BY <1>2 DEF Knows
    <3>3. /\ LoadStands(j, config, Wanted, Wanted) /\ RunPart(j) = RunPart(g) /\ DrawPart(j) = DrawPart(g)
          /\ j.known = g.known /\ j.generation = g.generation /\ j.turn = g.turn /\ j.tree = g.tree
          /\ j.inverter = g.inverter /\ j.told = g.told /\ j.renewed = g.renewed
          /\ g.calls \subseteq j.calls
          /\ \E x \in j.calls : x.what = call.what /\ x.turn = call.turn
      BY <1>3, <2>1, <3>1, <3>2, JoinsKeeps, SMTT(60)
    <3> HIDE DEF j
    <3> QED
      BY <1>4, <3>3 DEF j
<1>8. Loads(t, {"tree", "history"})
  <2>1. t.connected
    BY <1>2, <1>7 DEF RunPart, InPage
  <2> QED
    BY <1>2, <1>3, <1>7, <2>1 DEF Loads, Current, InPage
<1> QED
  BY <1>2, <1>7, <1>8 DEF t

(* A load that begins asks less of what it overtakes. *)
LEMMA OvertakenLoads ==
  ASSUME NEW c, NEW k, LoadStands(c, k, Wanted, Wanted), NEW fresh
  PROVE  LoadStands(c, k, IF fresh THEN Wanted \ {"tree"} ELSE Wanted, {"inverter"})
<1>1. JoinStands(c, IF fresh THEN Wanted \ {"tree"} ELSE Wanted)
  BY DEF LoadStands, JoinStands
<1>2. \A call \in c.calls : CallStands(c, k, call, {"inverter"})
  <2>1. "inverter" \in Wanted
    BY DEF Wanted
  <2> QED
    BY <2>1 DEF LoadStands, CallStands
<1> QED
  BY <1>1, <1>2 DEF LoadStands

LEMMA LoadingIsProgress ==
  ASSUME NEW c, NEW t, RunsOne(c), RunPart(t) = RunPart(c), Knows(t), Loads(t, {"tree", "history"})
  PROVE  CardProgress(t)
BY DEF RunsOne, RunPart, Knows, CardProgress

LEMMA SameDraws ==
  ASSUME NEW c, NEW d, NEW p, CardWatches(c, p), DrawPart(d) = DrawPart(c), d.tree = c.tree, d.inverter = c.inverter
  PROVE  CardWatches(d, p)
BY DEF DrawPart, CardWatches

LEMMA Redraws ==
  ASSUME NEW c \in CardRec, pushed \in [Entities -> Nat]
  PROVE  /\ Watches(Adopts(c)) \in CardRec /\ Adopts(Watches(c)) = Watches(Adopts(c))
         /\ LoadPart(Watches(Adopts(c))) = LoadPart(c) /\ RunPart(Watches(Adopts(c))) = RunPart(c)
         /\ CardWatches(Watches(Adopts(c)), pushed)
<1> DEFINE a == Adopts(c)
           w == Watches(a)
           b == Watches(c)
           d == Adopts(b)
           watched(x) == (IF x.tree > 0 THEN {"power"} ELSE {}) \union (IF x.inverter > 0 THEN {"cell"} ELSE {})
                         \union (IF x.announced THEN {"detail"} ELSE {})
<1>1. a = [c EXCEPT !.shown = pushed] /\ d = [b EXCEPT !.shown = pushed]
  BY DEF Adopts
<1>2. w = [a EXCEPT !.watched = watched(a)] /\ b = [c EXCEPT !.watched = watched(c)]
  BY DEF Watches
<1>3. \A x : watched(x) \in SUBSET Entities
  BY DEF Entities
<1> HIDE DEF a, w, b, d
<1>4. /\ a \in CardRec /\ a.shown = pushed /\ a.tree = c.tree /\ a.inverter = c.inverter /\ a.announced = c.announced
      /\ a.watched = c.watched /\ LoadPart(a) = LoadPart(c) /\ RunPart(a) = RunPart(c)
  BY <1>1 DEF CardRec, LoadPart, RunPart
<1>5. watched(a) = watched(c)
  BY <1>4
<1> HIDE DEF watched
<1>6. /\ w \in CardRec /\ w.shown = a.shown /\ w.tree = a.tree /\ w.inverter = a.inverter /\ w.announced = a.announced
      /\ w.watched = watched(a) /\ LoadPart(w) = LoadPart(a) /\ RunPart(w) = RunPart(a)
  BY <1>2, <1>3, <1>4 DEF CardRec, LoadPart, RunPart
<1>7. CardWatches(w, pushed)
  BY <1>4, <1>6 DEF CardWatches, watched
<1>8. d = w
  <2>1. w = [c EXCEPT !.shown = pushed, !.watched = watched(c)]
    BY <1>1, <1>2, <1>5 DEF CardRec
  <2>2. d = [c EXCEPT !.shown = pushed, !.watched = watched(c)]
    BY <1>1, <1>2 DEF CardRec
  <2> QED
    BY <2>1, <2>2
<1> QED
  BY <1>4, <1>6, <1>7, <1>8 DEF a, w, b, d

(* A read is answered: its callers are through with it. *)
CallersOf(r) == {call \in card.calls : call.read = r.id}
Over(r) == [card EXCEPT !.reads = @ \ {r}, !.calls = @ \ CallersOf(r),
                        !.joined[r.what] = IF @ = r.id THEN 0 ELSE @]

LEMMA CardReadOver ==
  ASSUME CardInv, NEW r \in card.reads
  PROVE  /\ LoadStands(Over(r), config, Wanted, Wanted) /\ RunPart(Over(r)) = RunPart(card) /\ DrawPart(Over(r)) = DrawPart(card)
         /\ Over(r).known = card.known /\ Over(r).generation = card.generation /\ Over(r).turn = card.turn
         /\ Over(r).tree = card.tree /\ Over(r).inverter = card.inverter /\ Over(r).told = card.told
         /\ Over(r).renewed = card.renewed
         /\ \A call \in CallersOf(r) : call \in CardCall /\ call.what = r.what /\ (Current(Over(r), call) <=> Current(card, call))
         /\ \A wants : Loads(card, wants) => \/ Loads(Over(r), wants)
                                             \/ r.what \in wants /\ \E call \in CallersOf(r) : Current(card, call)
         /\ r \in CardRead /\ r.at <= config
         /\ \A call \in CallersOf(r) : Current(card, call) =>
              /\ Knows(card) /\ InPage(card) /\ call.turn <= Turn(card, call.what) /\ r.at >= Least(card, call.what)
              /\ call.what = "history" => call.tree <= config /\ call.tree >= card.told
<1> DEFINE callers == CallersOf(r)
           over == Over(r)
<1>0. /\ card \in CardRec /\ config \in Nat /\ r \in CardRead /\ r.what \in Wanted /\ LoadStands(card, config, Wanted, Wanted)
      /\ r.at <= config
  BY DEF CardInv, LoadStands, CardReadsStand, CardRec, CardRead
<1>1. callers \subseteq card.calls /\ \A call \in card.calls : call \in callers <=> call.read = r.id
  BY DEF CallersOf
<1>2. over = [card EXCEPT !.reads = @ \ {r}, !.calls = @ \ callers, !.joined[r.what] = IF @ = r.id THEN 0 ELSE @]
  BY DEF Over
<1> HIDE DEF callers, over
<1>3. /\ over \in CardRec /\ RunPart(over) = RunPart(card) /\ DrawPart(over) = DrawPart(card)
      /\ over.connected = card.connected
      /\ over.known = card.known /\ over.generation = card.generation /\ over.turn = card.turn
      /\ over.tree = card.tree /\ over.inverter = card.inverter /\ over.told = card.told
      /\ over.renewed = card.renewed /\ over.count = card.count
      /\ over.reads = card.reads \ {r} /\ over.calls = card.calls \ callers
      /\ \A what \in Wanted : over.joined[what] = IF what = r.what /\ card.joined[what] = r.id THEN 0 ELSE card.joined[what]
  <2>1. card.joined \in [Wanted -> Nat] /\ card.reads \ {r} \in SUBSET CardRead /\ card.calls \ callers \in SUBSET CardCall
    BY <1>0 DEF CardRec
  <2>2. over.joined = [card.joined EXCEPT ![r.what] = IF @ = r.id THEN 0 ELSE @]
    BY <1>0, <1>2 DEF CardRec
  <2>3. over.joined \in [Wanted -> Nat]
    BY <1>0, <2>1, <2>2
  <2>4. over = [card EXCEPT !.reads = card.reads \ {r}, !.calls = card.calls \ callers, !.joined = over.joined]
    BY <1>0, <1>2, <2>2 DEF CardRec
  <2>5. over \in CardRec
    BY <1>0, <2>1, <2>3, <2>4 DEF CardRec
  <2>6. /\ over.connected = card.connected
        /\ over.known = card.known /\ over.generation = card.generation /\ over.turn = card.turn
        /\ over.tree = card.tree /\ over.inverter = card.inverter /\ over.told = card.told
        /\ over.renewed = card.renewed /\ over.count = card.count
        /\ over.reads = card.reads \ {r} /\ over.calls = card.calls \ callers
    BY <1>0, <1>2 DEF CardRec
  <2>7. RunPart(over) = RunPart(card) /\ DrawPart(over) = DrawPart(card)
    BY <1>0, <1>2 DEF CardRec, RunPart, DrawPart
  <2>8. \A what \in Wanted : over.joined[what] = IF what = r.what /\ card.joined[what] = r.id THEN 0 ELSE card.joined[what]
    BY <1>0, <2>1, <2>2
  <2> QED
    BY <2>5, <2>6, <2>7, <2>8
<1>4. \A q \in card.reads : q.id = r.id => q = r
  BY <1>0 DEF LoadStands, CardReadsStand
<1>5. \A call \in callers : /\ call \in CardCall /\ call.what = r.what /\ CallStands(card, config, call, Wanted)
                            /\ call.turn = Turn(card, call.what) => r.at >= Least(card, call.what)
  <2> SUFFICES ASSUME NEW call \in callers
               PROVE  /\ call \in CardCall /\ call.what = r.what /\ CallStands(card, config, call, Wanted)
                      /\ call.turn = Turn(card, call.what) => r.at >= Least(card, call.what)
    OBVIOUS
  <2>1. call \in CardCall /\ CallStands(card, config, call, Wanted) /\ call.read = r.id
    BY <1>0, <1>1 DEF LoadStands, CardRec
  <2> QED
    BY <1>4, <2>1 DEF CallStands, CardCall
<1>6. \A what \in Wanted : Least(over, what) = Least(card, what) /\ Turn(over, what) = Turn(card, what)
  BY <1>3 DEF Least, Turn
<1>7. CardReadsStand(over, config)
  BY <1>0, <1>3 DEF LoadStands, CardReadsStand
<1>8. JoinStands(over, Wanted)
  <2> SUFFICES ASSUME NEW what \in Wanted, over.joined[what] # 0
               PROVE  \E q \in over.reads : q.id = over.joined[what] /\ q.what = what /\ q.at >= Least(over, what)
    BY DEF JoinStands
  <2>1. over.joined[what] = card.joined[what] /\ ~(what = r.what /\ card.joined[what] = r.id)
    BY <1>3
  <2>2. PICK q \in card.reads : q.id = card.joined[what] /\ q.what = what /\ q.at >= Least(card, what)
    BY <1>0, <2>1 DEF LoadStands, JoinStands
  <2> QED
    BY <1>3, <1>6, <2>1, <2>2
<1>9. \A call \in over.calls : CallStands(over, config, call, Wanted)
  <2> SUFFICES ASSUME NEW call \in over.calls PROVE CallStands(over, config, call, Wanted)
    OBVIOUS
  <2>1. call \in card.calls /\ call.read # r.id /\ call.what \in Wanted /\ CallStands(card, config, call, Wanted)
    BY <1>0, <1>1, <1>3 DEF LoadStands, CardRec, CardCall
  <2>2. \A q \in card.reads : q.id = call.read => q \in over.reads
    BY <1>3, <2>1
  <2> QED
    BY <1>3, <1>6, <2>1, <2>2 DEF CallStands
<1>10. LoadStands(over, config, Wanted, Wanted)
  BY <1>0, <1>3, <1>7, <1>8, <1>9 DEF LoadStands
<1>11. \A call : Current(over, call) <=> Current(card, call)
  BY <1>3 DEF Current
<1>12. \A wants : Loads(card, wants) => \/ Loads(over, wants)
                                        \/ r.what \in wants /\ \E call \in callers : Current(card, call)
  <2> SUFFICES ASSUME NEW wants, NEW call \in card.calls, call.what \in wants, Current(card, call)
               PROVE  \/ Loads(over, wants)
                      \/ r.what \in wants /\ \E x \in callers : Current(card, x)
    BY DEF Loads
  <2>1. CASE call \in callers
    BY <1>5, <2>1
  <2>2. CASE call \notin callers
    BY <1>3, <1>11, <2>2 DEF Loads
  <2> QED
    BY <2>1, <2>2
<1>13. \A call \in callers : Current(card, call) =>
         /\ Knows(card) /\ InPage(card) /\ call.turn <= Turn(card, call.what) /\ r.at >= Least(card, call.what)
         /\ call.what = "history" => call.tree <= config /\ call.tree >= card.told
  BY <1>5 DEF Current, CallStands, Turn, CardCall, Knows, InPage
<1> QED
  <2>1. /\ LoadStands(over, config, Wanted, Wanted) /\ RunPart(over) = RunPart(card) /\ DrawPart(over) = DrawPart(card)
        /\ over.known = card.known /\ over.generation = card.generation /\ over.turn = card.turn
        /\ over.tree = card.tree /\ over.inverter = card.inverter /\ over.told = card.told
        /\ over.renewed = card.renewed
        /\ r \in CardRead /\ r.at <= config
    BY <1>0, <1>3, <1>10
  <2>2. \A call \in callers : call \in CardCall /\ call.what = r.what /\ (Current(over, call) <=> Current(card, call))
    BY <1>5, <1>11
  <2>3. \A wants : Loads(card, wants) => \/ Loads(Over(r), wants)
                                         \/ r.what \in wants /\ \E call \in CallersOf(r) : Current(card, call)
    BY <1>12 DEF over, callers
  <2>4. \A call \in CallersOf(r) : Current(card, call) =>
          /\ Knows(card) /\ InPage(card) /\ call.turn <= Turn(card, call.what) /\ r.at >= Least(card, call.what)
          /\ call.what = "history" => call.tree <= config /\ call.tree >= card.told
    BY <1>13 DEF callers
  <2>5. \A call \in CallersOf(r) : call \in CardCall /\ call.what = r.what /\ (Current(Over(r), call) <=> Current(card, call))
    BY <2>2 DEF over, callers
  <2> QED
    BY <2>1, <2>3, <2>4, <2>5 DEF over

(* Both reads of a load are in: one engine runs, and the inverter is asked for. *)
LEMMA InstalledKeeps ==
  ASSUME NEW c, NEW call \in CardCall, pushed \in [Entities -> Nat], LoadStands(c, config, Wanted, Wanted),
         Knows(c), InPage(c), RunsOne(c), call.tree <= config, call.tree >= c.told
  PROVE  LET t == Installed(c, call) IN
         LoadStands(t, config, Wanted, Wanted) /\ CardProgress(t) /\ CardWatches(t, pushed)
<1> DEFINE i == [c EXCEPT !.tree = call.tree, !.failed = FALSE, !.missed = @ \ {"tree"},
                          !.engines = (@ \ {c.engine}) \union {call.turn}, !.engine = call.turn,
                          !.announced = FALSE, !.turn = @ + 1,
                          !.renewed = IF call.fresh THEN c.told ELSE @]
           w == Watches(Adopts(i))
           new == Call("inverter", c.turn + 1, call.fresh, FALSE, 0)
           joins == IF call.fresh THEN Wanted \ {"inverter"} ELSE Wanted
           t == Joins(w, new, call.fresh)
<1>1. /\ c \in CardRec /\ c.turn \in Nat /\ c.turn + 1 \in Nat /\ call.fresh \in BOOLEAN
      /\ call.turn \in Nat /\ call.turn # 0 /\ call.tree \in Nat /\ c.told \in Nat /\ c.renewed \in Nat /\ c.engines \subseteq {c.engine}
  BY DEF LoadStands, CardRec, CardCall, RunsOne
<1>2. /\ i.tree = call.tree /\ i.missed = c.missed \ {"tree"} /\ i.engines = (c.engines \ {c.engine}) \union {call.turn}
      /\ i.engine = call.turn /\ i.turn = c.turn + 1 /\ i.renewed = (IF call.fresh THEN c.told ELSE c.renewed)
      /\ i.connected = c.connected /\ i.known = c.known /\ i.generation = c.generation /\ i.inverter = c.inverter
      /\ i.joined = c.joined /\ i.reads = c.reads /\ i.calls = c.calls /\ i.count = c.count /\ i.told = c.told
  BY <1>1 DEF CardRec
<1>3. i \in CardRec
  <2>1. /\ c.missed \ {"tree"} \in SUBSET {"tree", "inverter"} /\ (c.engines \ {c.engine}) \union {call.turn} \in SUBSET Nat
        /\ (IF call.fresh THEN c.told ELSE c.renewed) \in Nat
    BY <1>1 DEF CardRec
  <2> QED
    BY <1>1, <2>1 DEF CardRec
<1>4. i.engines = {call.turn}
  BY <1>1, <1>2
<1>5. new \in CardCall /\ new.what = "inverter" /\ new.turn = c.turn + 1
  BY <1>1 DEF Call, CardCall, Wanted
<1>6. Installed(c, call) = t
  BY DEF Installed
<1> HIDE DEF i, new
<1>7. \A x \in i.calls : CallStands(i, config, x, Wanted)
  <2> SUFFICES ASSUME NEW x \in i.calls PROVE CallStands(i, config, x, Wanted)
    OBVIOUS
  <2>1. CallStands(c, config, x, Wanted) /\ x.turn \in Nat
    BY <1>1, <1>2 DEF LoadStands, CardRec, CardCall
  <2>2. CASE x.what # "inverter"
    BY <1>2, <2>1, <2>2 DEF CallStands, Turn, Least
  <2>3. CASE x.what = "inverter"
    <3>1. x.turn <= Turn(i, x.what) /\ x.turn # Turn(i, x.what)
      BY <1>1, <1>2, <2>1, <2>3 DEF CallStands, Turn
    <3> QED
      BY <1>2, <2>1, <2>3, <3>1 DEF CallStands
  <2> QED
    BY <2>2, <2>3
<1>8. LoadStands(i, config, joins, Wanted)
  <2>1. i.renewed <= i.told
    BY <1>1, <1>2 DEF LoadStands
  <2>2. JoinStands(i, joins) /\ CardReadsStand(i, config)
    BY <1>1, <1>2 DEF LoadStands, JoinStands, CardReadsStand, Least
  <2> QED
    BY <1>2, <1>3, <1>7, <2>1, <2>2 DEF LoadStands
<1>9. /\ w \in CardRec /\ LoadPart(w) = LoadPart(i) /\ RunPart(w) = RunPart(i) /\ CardWatches(w, pushed)
  BY <1>3, Redraws
<1> HIDE DEF w
<1>10. LoadStands(w, config, joins, Wanted)
  BY <1>8, <1>9, SameLoads
<1>11. /\ LoadStands(t, config, Wanted, Wanted) /\ RunPart(t) = RunPart(w) /\ DrawPart(t) = DrawPart(w)
       /\ t.known = w.known /\ t.generation = w.generation /\ t.turn = w.turn /\ t.tree = w.tree
       /\ t.inverter = w.inverter /\ t.told = w.told /\ t.renewed = w.renewed
       /\ w.calls \subseteq t.calls
       /\ \E x \in t.calls : x.what = new.what /\ x.turn = new.turn
  <2>1. Knows(w) /\ new.turn <= Turn(w, new.what) /\ new.what # "history"
    BY <1>1, <1>2, <1>5, <1>9 DEF Knows, LoadPart, Turn
  <2>2. LoadStands(w, config, IF call.fresh THEN Wanted \ {new.what} ELSE Wanted, Wanted)
    BY <1>5, <1>10
  <2> QED
    BY <1>1, <1>5, <2>1, <2>2, JoinsKeeps
<1> HIDE DEF t
<1>12. /\ t.connected = c.connected /\ t.engine = call.turn /\ t.engines = {call.turn} /\ "tree" \notin t.missed
       /\ t.turn = c.turn + 1 /\ t.tree = call.tree /\ t.told = c.told /\ t.known = c.known
  BY <1>2, <1>4, <1>9, <1>11 DEF RunPart, LoadPart
<1>13. Loads(t, {"inverter"})
  BY <1>5, <1>11, <1>12 DEF Loads, Current, InPage
<1>14. CardProgress(t)
  BY <1>1, <1>12, <1>13 DEF CardProgress, RunsOne, Knows, InPage
<1>15. CardWatches(t, pushed)
  BY <1>9, <1>11, SameDraws
<1> QED
  BY <1>6, <1>11, <1>14, <1>15 DEF t

LEMMA CallAnsweredKeeps ==
  ASSUME CardInv, NEW r \in card.reads, NEW call \in CallersOf(r), Current(card, call), NEW data \in r.at..config
  PROVE  LET t == CallAnswered(Over(r), call, data) IN
         LoadStands(t, config, Wanted, Wanted) /\ CardProgress(t) /\ CardWatches(t, pushed)
<1> DEFINE c == Over(r)
<1>1. /\ LoadStands(c, config, Wanted, Wanted) /\ RunPart(c) = RunPart(card) /\ DrawPart(c) = DrawPart(card)
      /\ c.known = card.known /\ c.generation = card.generation /\ c.turn = card.turn
      /\ c.tree = card.tree /\ c.inverter = card.inverter /\ c.told = card.told
      /\ c.renewed = card.renewed
      /\ call \in CardCall /\ call.what = r.what /\ (Current(c, call) <=> Current(card, call))
      /\ r \in CardRead /\ r.at <= config
      /\ Knows(card) /\ InPage(card) /\ call.turn <= Turn(card, call.what) /\ r.at >= Least(card, call.what)
      /\ call.what = "history" => call.tree <= config /\ call.tree >= card.told
  BY CardReadOver
<1>2. \A wants : Loads(card, wants) => \/ Loads(c, wants)
                                       \/ r.what \in wants /\ \E x \in CallersOf(r) : Current(card, x)
  BY CardReadOver
<1>3. /\ c \in CardRec /\ config \in Nat /\ pushed \in [Entities -> Nat] /\ r.at \in Nat /\ data \in Nat
      /\ data <= config /\ r.at <= data /\ CardProgress(card) /\ CardWatches(card, pushed) /\ call.what \in Wanted
  BY <1>1 DEF LoadStands, CardInv, CardRead, CardCall
<1> HIDE DEF c
<1>4. Knows(c) /\ InPage(c) /\ RunsOne(c) /\ CardWatches(c, pushed)
  BY <1>1, <1>3, SameDraws DEF Knows, InPage, RunPart, RunsOne, CardProgress
<1>5. CASE call.what = "tree"
  <2> DEFINE new == [call EXCEPT !.what = "history", !.tree = data]
             t == Joins(c, new, call.fresh)
  <2>1. new \in CardCall /\ new.what = "history" /\ new.tree = data /\ new.turn = call.turn /\ call.fresh \in BOOLEAN
    BY <1>1, <1>3 DEF CardCall, Wanted
  <2>2. data >= c.told
    BY <1>1, <1>3, <1>5 DEF Least, LoadStands, CardRec
  <2>3. new.turn <= Turn(c, new.what) /\ new.turn = call.turn /\ call.turn = c.generation
    BY <1>1, <1>5, <2>1 DEF Turn, Current
  <2> HIDE DEF new
  <2>4. LoadStands(c, config, IF call.fresh THEN Wanted \ {new.what} ELSE Wanted, Wanted)
    BY <1>1 DEF LoadStands, JoinStands
  <2>5. /\ LoadStands(t, config, Wanted, Wanted) /\ RunPart(t) = RunPart(c) /\ DrawPart(t) = DrawPart(c)
        /\ t.known = c.known /\ t.generation = c.generation /\ t.turn = c.turn /\ t.tree = c.tree
        /\ t.inverter = c.inverter /\ t.told = c.told /\ t.renewed = c.renewed
        /\ c.calls \subseteq t.calls
        /\ \E x \in t.calls : x.what = new.what /\ x.turn = new.turn
    BY <1>3, <1>4, <2>1, <2>2, <2>3, <2>4, JoinsKeeps
  <2> HIDE DEF t
  <2>6. Loads(t, {"tree", "history"})
    BY <1>4, <2>1, <2>3, <2>5 DEF Loads, Current, RunPart, InPage
  <2>7. CardProgress(t)
    BY <1>4, <2>5, <2>6, LoadingIsProgress DEF Knows
  <2>8. CardWatches(t, pushed)
    BY <1>4, <2>5, SameDraws
  <2>9. CallAnswered(c, call, data) = t
    BY <1>5 DEF CallAnswered, t, new
  <2> QED
    BY <2>5, <2>7, <2>8, <2>9 DEF c
<1>6. CASE call.what = "history"
  <2>1. CallAnswered(c, call, data) = Installed(c, call)
    BY <1>6 DEF CallAnswered
  <2>2. call.tree <= config /\ call.tree >= c.told
    BY <1>1, <1>6
  <2> DEFINE t == Installed(c, call)
  <2>3. LoadStands(t, config, Wanted, Wanted) /\ CardProgress(t) /\ CardWatches(t, pushed)
    BY <1>1, <1>3, <1>4, <2>2, InstalledKeeps
  <2> QED
    BY <2>1, <2>3 DEF c
<1>7. CASE call.what = "inverter"
  <2> DEFINE d == [c EXCEPT !.inverter = data, !.missed = @ \ {"inverter"}]
             t == Watches(Adopts(d))
  <2>1. /\ d \in CardRec /\ d.inverter = data /\ d.missed = c.missed \ {"inverter"}
        /\ d.connected = c.connected /\ d.engine = c.engine /\ d.engines = c.engines /\ d.failed = c.failed
        /\ d.known = c.known /\ d.generation = c.generation /\ d.turn = c.turn /\ d.tree = c.tree
        /\ d.joined = c.joined /\ d.reads = c.reads /\ d.calls = c.calls /\ d.count = c.count
        /\ d.told = c.told /\ d.renewed = c.renewed
    BY <1>3 DEF CardRec
  <2> HIDE DEF d
  <2>2. LoadStands(d, config, Wanted, Wanted)
    BY <1>1, <1>3, <2>1 DEF LoadStands, CardReadsStand, JoinStands, CallStands, Turn, Least
  <2>3. data >= c.renewed
    BY <1>1, <1>3, <1>7 DEF Least, LoadStands, CardRec
  <2>4. Loads(card, {"tree", "history"}) => Loads(d, {"tree", "history"})
    <3>1. r.what \notin {"tree", "history"}
      BY <1>1, <1>7
    <3>2. Loads(card, {"tree", "history"}) => Loads(c, {"tree", "history"})
      BY <1>2, <3>1
    <3> QED
      BY <2>1, <3>2 DEF Loads, Current
  <2>5. CardProgress(d)
    <3>1. /\ card.connected = d.connected /\ card.known = d.known /\ card.engine = d.engine /\ card.failed = d.failed
          /\ card.engines = d.engines /\ card.tree = d.tree /\ card.told = d.told /\ card.renewed = d.renewed
          /\ d.missed = card.missed \ {"inverter"}
      BY <1>1, <2>1 DEF RunPart
    <3>2. d.inverter >= d.renewed
      BY <2>1, <2>3
    <3>3. RunsOne(d) /\ (d.engine # 0 => d.known)
      BY <1>3, <3>1 DEF CardProgress, RunsOne
    <3>4. d.connected /\ d.known /\ ~Loads(d, {"tree", "history"}) =>
            IF d.engine = 0 THEN d.failed
            ELSE "tree" \notin d.missed => d.tree >= d.told /\ d.engines = {d.engine}
      BY <1>3, <2>4, <3>1 DEF CardProgress
    <3> QED
      BY <3>2, <3>3, <3>4 DEF CardProgress
  <2>6. t \in CardRec /\ LoadPart(t) = LoadPart(d) /\ RunPart(t) = RunPart(d) /\ CardWatches(t, pushed) /\ Adopts(Watches(d)) = t
    BY <1>3, <2>1, Redraws
  <2> HIDE DEF t
  <2>7. LoadStands(t, config, Wanted, Wanted) /\ CardProgress(t)
    BY <2>2, <2>5, <2>6, SameLoads, SameProgress
  <2>8. CallAnswered(c, call, data) = t
    BY <1>7, <2>6 DEF CallAnswered, d
  <2> QED
    BY <2>6, <2>7, <2>8 DEF c
<1> QED
  BY <1>3, <1>5, <1>6, <1>7 DEF Wanted

LEMMA CallFailedKeeps ==
  ASSUME CardInv, NEW r \in card.reads, NEW call \in CallersOf(r), Current(card, call)
  PROVE  LET t == CallFailed(Over(r), call) IN
         LoadStands(t, config, Wanted, Wanted) /\ CardProgress(t) /\ CardWatches(t, pushed)
<1> DEFINE c == Over(r)
           what == IF call.what = "inverter" THEN "inverter" ELSE "tree"
           m == [c EXCEPT !.missed = @ \union {what}]
           t == CallFailed(c, call)
<1>1. /\ LoadStands(c, config, Wanted, Wanted) /\ RunPart(c) = RunPart(card) /\ DrawPart(c) = DrawPart(card)
      /\ c.known = card.known /\ c.generation = card.generation /\ c.turn = card.turn
      /\ c.tree = card.tree /\ c.inverter = card.inverter /\ c.told = card.told
      /\ c.renewed = card.renewed
      /\ call \in CardCall /\ call.what = r.what
      /\ Knows(card) /\ InPage(card)
  BY CardReadOver
<1>2. \A wants : Loads(card, wants) => \/ Loads(c, wants)
                                       \/ r.what \in wants /\ \E x \in CallersOf(r) : Current(card, x)
  BY CardReadOver
<1>3. /\ c \in CardRec /\ config \in Nat /\ pushed \in [Entities -> Nat]
      /\ CardProgress(card) /\ CardWatches(card, pushed) /\ call.fresh \in BOOLEAN
  BY <1>1 DEF LoadStands, CardInv, CardCall
<1> HIDE DEF c
<1>4. /\ m \in CardRec /\ m.missed = c.missed \union {what} /\ LoadPart(m) = LoadPart(c) /\ DrawPart(m) = DrawPart(c)
      /\ m.connected = c.connected /\ m.engine = c.engine /\ m.engines = c.engines /\ m.failed = c.failed
      /\ m.tree = c.tree /\ m.inverter = c.inverter /\ m.calls = c.calls /\ m.generation = c.generation
      /\ m.turn = c.turn /\ m.known = c.known /\ m.told = c.told /\ m.renewed = c.renewed
  BY <1>3 DEF CardRec, LoadPart, DrawPart
<1>5. what \in {"tree", "inverter"} /\ (what = "inverter" <=> call.what = "inverter")
  OBVIOUS
<1> HIDE DEF m, what
<1>6. /\ card.connected = m.connected /\ card.known = m.known /\ card.engine = m.engine /\ card.failed = m.failed
      /\ card.engines = m.engines /\ card.tree = m.tree /\ card.told = m.told /\ card.renewed = m.renewed
      /\ card.inverter = m.inverter /\ m.missed = card.missed \union {what}
  BY <1>1, <1>4 DEF RunPart
<1>7. LoadStands(m, config, Wanted, Wanted) /\ CardWatches(m, pushed) /\ RunsOne(m) /\ Knows(m) /\ InPage(m)
  <2>1. LoadStands(m, config, Wanted, Wanted)
    BY <1>1, <1>4, SameLoads
  <2>2. CardWatches(c, pushed)
    BY <1>1, <1>3, SameDraws
  <2>3. CardWatches(m, pushed)
    BY <1>4, <2>2, SameDraws
  <2> QED
    BY <1>1, <1>3, <1>6, <2>1, <2>3 DEF CardProgress, RunsOne, Knows, InPage
<1>8. CASE call.what = "inverter" \/ c.engine # 0
  <2>1. t = m
    BY <1>8 DEF CallFailed, m, what
  <2>2. CASE what = "tree"
    BY <1>6, <1>7, <1>8, <1>4, <1>5, <2>1, <2>2 DEF CardProgress, Knows, c
  <2>3. CASE what = "inverter"
    <3>1. Loads(card, {"tree", "history"}) => Loads(m, {"tree", "history"})
      <4>1. r.what \notin {"tree", "history"}
        BY <1>1, <1>5, <2>3
      <4>2. Loads(card, {"tree", "history"}) => Loads(c, {"tree", "history"})
        BY <1>2, <4>1
      <4> QED
        BY <1>4, <4>2 DEF Loads, Current
    <3>2. "inverter" \in m.missed /\ ("tree" \notin m.missed => "tree" \notin card.missed)
      BY <1>6, <2>3
    <3>3. CardProgress(m)
      BY <1>3, <1>6, <1>7, <3>1, <3>2 DEF CardProgress, Knows
    <3> QED
      BY <1>7, <2>1, <3>3 DEF c
  <2> QED
    BY <1>5, <2>2, <2>3
<1>9. CASE ~(call.what = "inverter" \/ c.engine # 0) /\ call.fresh /\ call.retry
  <2> DEFINE l == LoadsBackend(m, TRUE, FALSE)
  <2>1. t = l
    BY <1>9 DEF CallFailed, m, what
  <2>2. LoadStands(m, config, IF TRUE THEN Wanted \ {"tree"} ELSE Wanted, {"inverter"})
    BY <1>7, OvertakenLoads
  <2>3. /\ LoadStands(l, config, Wanted, Wanted) /\ RunPart(l) = RunPart(m) /\ DrawPart(l) = DrawPart(m)
        /\ l.known = m.known /\ l.tree = m.tree /\ l.inverter = m.inverter
        /\ Loads(l, {"tree", "history"})
    BY <1>7, <2>2, LoadsBackendKeeps
  <2> HIDE DEF l
  <2>4. CardProgress(l) /\ CardWatches(l, pushed)
    BY <1>7, <2>3, LoadingIsProgress, SameDraws DEF Knows
  <2> QED
    BY <2>1, <2>3, <2>4 DEF c
<1>10. CASE ~(call.what = "inverter" \/ c.engine # 0) /\ ~(call.fresh /\ call.retry)
  <2> DEFINE f == [m EXCEPT !.failed = TRUE]
  <2>1. t = f
    BY <1>10 DEF CallFailed, m, what
  <2>2. /\ f \in CardRec /\ f.failed = TRUE /\ LoadPart(f) = LoadPart(m) /\ DrawPart(f) = DrawPart(m)
        /\ f.connected = m.connected /\ f.engine = m.engine /\ f.engines = m.engines
        /\ f.tree = m.tree /\ f.inverter = m.inverter /\ f.known = m.known
    BY <1>4 DEF CardRec, LoadPart, DrawPart
  <2> HIDE DEF f
  <2>3. f.engine = 0
    BY <1>4, <1>10, <2>2
  <2>4. CardProgress(f)
    BY <1>7, <2>2, <2>3 DEF CardProgress, RunsOne
  <2>5. LoadStands(f, config, Wanted, Wanted) /\ CardWatches(f, pushed)
    BY <1>7, <2>2, SameLoads, SameDraws
  <2> QED
    BY <2>1, <2>4, <2>5 DEF c
<1> QED
  BY <1>8, <1>9, <1>10

LEMMA StoreAnswersKeeps ==
  ASSUME CardInv, NEW r \in card.reads, StoreAnswers(r)
  PROVE  CardInv'
<1> DEFINE callers == CallersOf(r)
           current == {call \in callers : Current(card, call)}
           c == Over(r)
<1>1. config' = config /\ pushed' = pushed
  BY DEF StoreAnswers
<1>2. \/ current = {} /\ card' = c
      \/ \E call \in current, data \in r.at..config : card' = CallAnswered(c, call, data)
      \/ \E call \in current : card' = CallFailed(c, call)
  BY DEF StoreAnswers, CallersOf, Over
<1> HIDE DEF callers, c
<1>3. CASE current = {} /\ card' = c
  <2>1. /\ LoadStands(c, config, Wanted, Wanted) /\ RunPart(c) = RunPart(card) /\ DrawPart(c) = DrawPart(card)
        /\ c.known = card.known /\ c.tree = card.tree /\ c.inverter = card.inverter /\ c.told = card.told
        /\ c.renewed = card.renewed
    BY CardReadOver DEF c
  <2>2. \A wants : Loads(card, wants) => Loads(c, wants)
    <3>1. \A wants : Loads(card, wants) => \/ Loads(c, wants)
                                           \/ r.what \in wants /\ \E x \in CallersOf(r) : Current(card, x)
      BY CardReadOver DEF c
    <3>2. ~\E x \in CallersOf(r) : Current(card, x)
      BY <1>3 DEF callers
    <3> QED
      BY <3>1, <3>2
  <2>3. CardProgress(card) /\ CardWatches(card, pushed)
    BY DEF CardInv
  <2>4. CardProgress(c)
    BY <2>1, <2>2, <2>3 DEF CardProgress, RunsOne, RunPart
  <2>5. CardWatches(c, pushed)
    BY <2>1, <2>3, SameDraws
  <2> QED
    BY <1>1, <1>3, <2>1, <2>4, <2>5 DEF CardInv
<1>4. ASSUME NEW call \in current, NEW data \in r.at..config, card' = CallAnswered(c, call, data) PROVE CardInv'
  <2> DEFINE t == CallAnswered(Over(r), call, data)
  <2>1. call \in CallersOf(r) /\ Current(card, call)
    BY DEF callers
  <2>2. LoadStands(t, config, Wanted, Wanted) /\ CardProgress(t) /\ CardWatches(t, pushed)
    BY <2>1, CallAnsweredKeeps
  <2>3. card' = t
    BY <1>4 DEF c
  <2> HIDE DEF t
  <2> QED
    BY <1>1, <2>2, <2>3 DEF CardInv
<1>5. ASSUME NEW call \in current, card' = CallFailed(c, call) PROVE CardInv'
  <2> DEFINE t == CallFailed(Over(r), call)
  <2>1. call \in CallersOf(r) /\ Current(card, call)
    BY DEF callers
  <2>2. LoadStands(t, config, Wanted, Wanted) /\ CardProgress(t) /\ CardWatches(t, pushed)
    BY <2>1, CallFailedKeeps
  <2>3. card' = t
    BY <1>5 DEF c
  <2> HIDE DEF t
  <2> QED
    BY <1>1, <2>2, <2>3 DEF CardInv
<1> QED
  BY <1>2, <1>3, <1>4, <1>5

LEMMA ConnectsKeeps ==
  ASSUME CardInv, Connects
  PROVE  CardInv'
<1> DEFINE here == [card EXCEPT !.connected = TRUE]
<1>1. config' = config /\ pushed' = pushed /\ ~card.connected
      /\ card' = IF card.known THEN LoadsBackend(here, FALSE, TRUE) ELSE here
  BY DEF Connects
<1>2. /\ card \in CardRec /\ LoadStands(card, config, Wanted, Wanted) /\ CardProgress(card) /\ CardWatches(card, pushed)
  BY DEF CardInv, LoadStands
<1>3. /\ here \in CardRec /\ here.connected /\ here.known = card.known /\ here.engines = card.engines /\ here.engine = card.engine
      /\ here.tree = card.tree /\ here.inverter = card.inverter
      /\ LoadPart(here) = LoadPart(card) /\ DrawPart(here) = DrawPart(card)
  BY <1>2 DEF CardRec, LoadPart, DrawPart
<1> HIDE DEF here
<1>4. RunsOne(here) /\ InPage(here) /\ LoadStands(here, config, Wanted, Wanted) /\ CardWatches(here, pushed)
  BY <1>1, <1>2, <1>3, SameLoads, SameDraws DEF CardProgress, RunsOne, InPage
<1>5. CASE ~card.known
  <2>1. CardProgress(here)
    BY <1>2, <1>3, <1>4, <1>5 DEF CardProgress
  <2> QED
    BY <1>1, <1>4, <1>5, <2>1 DEF CardInv
<1>6. CASE card.known
  <2> DEFINE t == LoadsBackend(here, FALSE, TRUE)
  <2>1. LoadStands(here, config, IF FALSE THEN Wanted \ {"tree"} ELSE Wanted, {"inverter"})
    BY <1>4, OvertakenLoads
  <2>2. Knows(here)
    BY <1>3, <1>6 DEF Knows
  <2>3. /\ LoadStands(t, config, Wanted, Wanted) /\ RunPart(t) = RunPart(here) /\ DrawPart(t) = DrawPart(here)
        /\ t.known = here.known /\ t.tree = here.tree /\ t.inverter = here.inverter
        /\ Loads(t, {"tree", "history"})
    BY <1>4, <2>1, <2>2, LoadsBackendKeeps
  <2> HIDE DEF t
  <2>4. CardProgress(t) /\ CardWatches(t, pushed)
    BY <1>4, <2>2, <2>3, LoadingIsProgress, SameDraws DEF Knows
  <2>5. card' = t
    BY <1>1, <1>6 DEF t
  <2> QED
    BY <1>1, <2>3, <2>4, <2>5 DEF CardInv
<1> QED
  BY <1>5, <1>6

LEMMA DisconnectsKeeps ==
  ASSUME CardInv, Disconnects
  PROVE  CardInv'
<1> DEFINE t == [card EXCEPT !.connected = FALSE, !.generation = @ + 1, !.turn = @ + 1, !.engines = @ \ {card.engine}]
<1>1. config' = config /\ pushed' = pushed /\ card' = t
  BY DEF Disconnects
<1>2. /\ card \in CardRec /\ LoadStands(card, config, Wanted, Wanted) /\ CardProgress(card) /\ CardWatches(card, pushed)
      /\ card.generation \in Nat /\ card.turn \in Nat
  BY DEF CardInv, LoadStands, CardRec
<1>3. /\ t.connected = FALSE /\ t.generation = card.generation + 1 /\ t.turn = card.turn + 1
      /\ t.engines = card.engines \ {card.engine} /\ t.engine = card.engine /\ t.known = card.known
      /\ t.tree = card.tree /\ t.inverter = card.inverter /\ t.told = card.told /\ t.renewed = card.renewed
      /\ t.reads = card.reads /\ t.calls = card.calls /\ t.count = card.count /\ t.joined = card.joined
      /\ DrawPart(t) = DrawPart(card)
  <2>1. /\ t.connected = FALSE /\ t.generation = card.generation + 1 /\ t.turn = card.turn + 1
        /\ t.engines = card.engines \ {card.engine} /\ t.engine = card.engine /\ t.known = card.known
        /\ t.tree = card.tree /\ t.inverter = card.inverter /\ t.told = card.told /\ t.renewed = card.renewed
        /\ t.reads = card.reads /\ t.calls = card.calls /\ t.count = card.count /\ t.joined = card.joined
    BY <1>2 DEF CardRec
  <2>2. DrawPart(t) = DrawPart(card)
    BY <1>2 DEF CardRec, DrawPart
  <2> QED
    BY <2>1, <2>2
<1>4. t \in CardRec
  <2>1. card.generation + 1 \in Nat /\ card.turn + 1 \in Nat /\ card.engines \ {card.engine} \in SUBSET Nat
    BY <1>2 DEF CardRec
  <2> QED
    BY <1>2, <2>1 DEF CardRec
<1> HIDE DEF t
<1>5. ASSUME NEW x \in t.calls PROVE CallStands(t, config, x, Wanted)
  <2>1. CallStands(card, config, x, Wanted) /\ x.turn \in Nat
    BY <1>2, <1>3 DEF LoadStands, CardRec, CardCall
  <2>2. x.turn <= Turn(t, x.what) /\ x.turn # Turn(t, x.what)
    BY <1>2, <1>3, <2>1 DEF CallStands, Turn
  <2> QED
    BY <1>3, <2>1, <2>2 DEF CallStands
<1>6. LoadStands(t, config, Wanted, Wanted)
  BY <1>2, <1>3, <1>4, <1>5 DEF LoadStands, CardReadsStand, JoinStands, Least
<1>7. CardProgress(t)
  BY <1>2, <1>3 DEF CardProgress, RunsOne
<1>8. CardWatches(t, pushed)
  BY <1>2, <1>3, SameDraws
<1> QED
  BY <1>1, <1>6, <1>7, <1>8 DEF CardInv

LEMMA ConfigChangesKeeps ==
  ASSUME CardInv, ConfigChanges
  PROVE  CardInv'
<1>1. config' = config + 1 /\ pushed' = pushed /\ card' = card
  BY DEF ConfigChanges
<1>2. LoadStands(card, config, Wanted, Wanted) /\ card \in CardRec /\ config \in Nat
  BY DEF CardInv, LoadStands
<1>3. LoadStands(card, config + 1, Wanted, Wanted)
  <2>1. CardReadsStand(card, config + 1)
    BY <1>2 DEF LoadStands, CardReadsStand, CardRec, CardRead
  <2>2. \A call \in card.calls : CallStands(card, config + 1, call, Wanted)
    BY <1>2 DEF LoadStands, CallStands, CardRec, CardCall
  <2>3. card.told \in Nat /\ card.tree \in Nat /\ card.inverter \in Nat
    BY <1>2 DEF CardRec
  <2> QED
    BY <1>2, <2>1, <2>2, <2>3 DEF LoadStands
<1> QED
  BY <1>1, <1>3 DEF CardInv

LEMMA ConfigToldKeeps ==
  ASSUME CardInv, ConfigTold
  PROVE  CardInv'
<1> DEFINE m == [card EXCEPT !.told = config]
           t == LoadsBackend(m, TRUE, TRUE)
<1>1. config' = config /\ pushed' = pushed /\ card' = t /\ card.connected /\ card.known /\ card.told < config
  BY DEF ConfigTold
<1>2. /\ card \in CardRec /\ LoadStands(card, config, Wanted, Wanted) /\ CardProgress(card) /\ CardWatches(card, pushed)
      /\ config \in Nat /\ card.told \in Nat /\ card.renewed \in Nat /\ card.renewed <= card.told
  BY DEF CardInv, LoadStands, CardRec
<1>3. /\ m \in CardRec /\ m.told = config /\ m.known = card.known /\ m.connected = card.connected
      /\ m.generation = card.generation /\ m.turn = card.turn
      /\ m.tree = card.tree /\ m.inverter = card.inverter /\ m.renewed = card.renewed
      /\ m.reads = card.reads /\ m.calls = card.calls /\ m.count = card.count /\ m.joined = card.joined
      /\ RunPart(m) = RunPart(card) /\ DrawPart(m) = DrawPart(card)
  BY <1>2 DEF CardRec, RunPart, DrawPart
<1> HIDE DEF m
<1>4. ASSUME NEW x \in m.calls PROVE CallStands(m, config, x, {"inverter"})
  <2>1. CallStands(card, config, x, Wanted) /\ "inverter" \in Wanted
    BY <1>2, <1>3 DEF LoadStands, Wanted
  <2> QED
    BY <1>3, <2>1 DEF CallStands, Turn, Least
<1>5. JoinStands(m, Wanted \ {"tree"})
  BY <1>2, <1>3 DEF LoadStands, JoinStands, Least
<1>6. LoadStands(m, config, IF TRUE THEN Wanted \ {"tree"} ELSE Wanted, {"inverter"})
  BY <1>1, <1>2, <1>3, <1>4, <1>5 DEF LoadStands, CardReadsStand
<1>7. Knows(m) /\ InPage(m) /\ RunsOne(m)
  BY <1>1, <1>2, <1>3 DEF Knows, InPage, RunsOne, RunPart, CardProgress
<1>8. /\ LoadStands(t, config, Wanted, Wanted) /\ RunPart(t) = RunPart(m) /\ DrawPart(t) = DrawPart(m)
      /\ t.known = m.known /\ t.tree = m.tree /\ t.inverter = m.inverter
      /\ Loads(t, {"tree", "history"})
  BY <1>6, <1>7, LoadsBackendKeeps
<1> HIDE DEF t
<1>9. CardProgress(t)
  BY <1>7, <1>8, LoadingIsProgress DEF Knows
<1>10. CardWatches(t, pushed)
  BY <1>2, <1>3, <1>8, SameDraws
<1> QED
  BY <1>1, <1>8, <1>9, <1>10 DEF CardInv

LEMMA PushedKeeps ==
  ASSUME CardInv, NEW e \in Entities, Pushed(e)
  PROVE  CardInv'
<1> DEFINE first  == ~card.known
           known  == [card EXCEPT !.known = TRUE]
           loads  == IF first /\ card.connected THEN LoadsBackend(known, FALSE, TRUE) ELSE known
           passed == first \/ card.watched = {} \/ e \in card.watched
           all    == [loads EXCEPT !.shown = pushed']
<1>1. /\ config' = config /\ pushed' = [pushed EXCEPT ![e] = @ + 1]
      /\ card' = IF passed THEN all ELSE loads
  BY DEF Pushed
<1>2. /\ card \in CardRec /\ LoadStands(card, config, Wanted, Wanted) /\ CardProgress(card) /\ CardWatches(card, pushed)
      /\ pushed \in [Entities -> Nat]
  BY DEF CardInv, LoadStands
<1>3. pushed' \in [Entities -> Nat] /\ \A x \in Entities : x # e => pushed'[x] = pushed[x]
  BY <1>1, <1>2
<1>4. /\ known \in CardRec /\ known.known /\ known.connected = card.connected
      /\ known.generation = card.generation /\ known.turn = card.turn
      /\ known.tree = card.tree /\ known.inverter = card.inverter /\ known.told = card.told /\ known.renewed = card.renewed
      /\ known.reads = card.reads /\ known.calls = card.calls /\ known.count = card.count /\ known.joined = card.joined
      /\ RunPart(known) = RunPart(card) /\ DrawPart(known) = DrawPart(card)
  BY <1>2 DEF CardRec, RunPart, DrawPart
<1> HIDE DEF known
<1>5. LoadStands(known, config, Wanted, Wanted)
  BY <1>2, <1>4 DEF LoadStands, CardReadsStand, JoinStands, CallStands, Turn, Least
<1>6. RunsOne(known) /\ Knows(known)
  BY <1>2, <1>4 DEF CardProgress, RunsOne, RunPart, Knows
<1>7. /\ LoadStands(loads, config, Wanted, Wanted) /\ CardProgress(loads) /\ DrawPart(loads) = DrawPart(card)
      /\ loads.tree = card.tree /\ loads.inverter = card.inverter
  <2>1. CASE first /\ card.connected
    <3> DEFINE t == LoadsBackend(known, FALSE, TRUE)
    <3>1. LoadStands(known, config, IF FALSE THEN Wanted \ {"tree"} ELSE Wanted, {"inverter"})
      BY <1>5, OvertakenLoads
    <3>2. InPage(known)
      BY <1>4, <2>1 DEF InPage
    <3>3. /\ LoadStands(t, config, Wanted, Wanted) /\ RunPart(t) = RunPart(known) /\ DrawPart(t) = DrawPart(known)
          /\ t.known = known.known /\ t.tree = known.tree /\ t.inverter = known.inverter
          /\ Loads(t, {"tree", "history"})
      BY <1>6, <3>1, <3>2, LoadsBackendKeeps
    <3> HIDE DEF t
    <3>4. CardProgress(t)
      BY <1>6, <3>3, LoadingIsProgress DEF Knows
    <3>5. loads = t
      BY <2>1 DEF t
    <3> QED
      BY <1>4, <3>3, <3>4, <3>5
  <2>2. CASE ~(first /\ card.connected)
    <3>1. loads = known
      BY <2>2
    <3>2. known.connected => card.known
      BY <1>4, <2>2
    <3>3. \A wants : Loads(known, wants) <=> Loads(card, wants)
      BY <1>4 DEF Loads, Current
    <3>4. CardProgress(known)
      BY <1>2, <1>4, <1>6, <3>2, <3>3 DEF CardProgress, RunPart
    <3> QED
      BY <1>4, <1>5, <3>1, <3>4
  <2> QED
    BY <2>1, <2>2
<1> HIDE DEF loads
<1>8. loads \in CardRec
  BY <1>7 DEF LoadStands
<1>9. CASE passed
  <2>1. /\ all \in CardRec /\ LoadPart(all) = LoadPart(loads) /\ RunPart(all) = RunPart(loads) /\ all.shown = pushed'
        /\ all.watched = loads.watched /\ all.announced = loads.announced /\ all.tree = loads.tree /\ all.inverter = loads.inverter
    BY <1>3, <1>8 DEF CardRec, LoadPart, RunPart
  <2>2. card' = all
    BY <1>1, <1>9
  <2> HIDE DEF all
  <2>3. LoadStands(all, config, Wanted, Wanted) /\ CardProgress(all)
    BY <1>7, <2>1, SameLoads, SameProgress
  <2>4. CardWatches(all, pushed')
    BY <1>2, <1>7, <2>1 DEF CardWatches, DrawPart
  <2> QED
    BY <1>1, <1>3, <2>2, <2>3, <2>4 DEF CardInv
<1>10. CASE ~passed
  <2>1. card' = loads /\ e \notin card.watched
    BY <1>1, <1>10
  <2>2. card.watched \subseteq Entities
    BY <1>2 DEF CardRec
  <2>3. CardWatches(loads, pushed')
    BY <1>2, <1>3, <1>7, <2>1, <2>2 DEF CardWatches, DrawPart
  <2> QED
    BY <1>1, <1>3, <1>7, <2>1, <2>3 DEF CardInv
<1> QED
  BY <1>9, <1>10

LEMMA DetailsKeep ==
  ASSUME CardInv, (\E open \in BOOLEAN : TurnsDetail(open)) \/ DetailAnnounces
  PROVE  CardInv'
<1>1. PICK open \in BOOLEAN, told \in BOOLEAN :
        card' = Adopts(Watches([card EXCEPT !.open = open, !.announced = told]))
  <2>1. card \in CardRec
    BY DEF CardInv, LoadStands
  <2>2. CASE DetailAnnounces
    <3>1. [card EXCEPT !.announced = TRUE] = [card EXCEPT !.open = card.open, !.announced = TRUE] /\ card.open \in BOOLEAN
      BY <2>1 DEF CardRec
    <3> QED
      BY <2>2, <3>1 DEF DetailAnnounces
  <2>3. CASE \E open \in BOOLEAN : TurnsDetail(open)
    BY <2>3 DEF TurnsDetail
  <2> QED
    BY <2>2, <2>3
<1> DEFINE d == [card EXCEPT !.open = open, !.announced = told]
           t == Watches(Adopts(d))
<1>2. config' = config /\ pushed' = pushed
  BY DEF TurnsDetail, DetailAnnounces
<1>3. /\ card \in CardRec /\ LoadStands(card, config, Wanted, Wanted) /\ CardProgress(card) /\ pushed \in [Entities -> Nat]
  BY DEF CardInv, LoadStands
<1>4. d \in CardRec /\ LoadPart(d) = LoadPart(card) /\ RunPart(d) = RunPart(card)
  BY <1>3 DEF CardRec, LoadPart, RunPart
<1> HIDE DEF d
<1>5. t \in CardRec /\ Adopts(Watches(d)) = t /\ LoadPart(t) = LoadPart(d) /\ RunPart(t) = RunPart(d) /\ CardWatches(t, pushed)
  BY <1>3, <1>4, Redraws
<1>6. card' = t
  BY <1>1, <1>5 DEF d
<1> HIDE DEF t
<1>7. LoadStands(t, config, Wanted, Wanted) /\ CardProgress(t)
  BY <1>3, <1>4, <1>5, SameLoads, SameProgress
<1> QED
  BY <1>2, <1>3, <1>5, <1>6, <1>7 DEF CardInv

LEMMA OtherCardReadsKeeps ==
  ASSUME CardInv, NEW what \in Wanted, OtherCardReads(what)
  PROVE  CardInv'
<1> DEFINE r0 == [id |-> card.count + 1, what |-> what, at |-> config]
           t == [card EXCEPT !.count = @ + 1, !.joined[what] = card.count + 1, !.reads = @ \union {r0}]
<1>1. config' = config /\ pushed' = pushed /\ card' = t /\ card.joined[what] = 0
  BY DEF OtherCardReads
<1>2. /\ card \in CardRec /\ LoadStands(card, config, Wanted, Wanted) /\ CardProgress(card) /\ CardWatches(card, pushed)
      /\ config \in Nat /\ card.count \in Nat /\ card.count + 1 \in Nat
  BY DEF CardInv, LoadStands, CardRec
<1>3. r0 \in CardRead /\ r0.id = card.count + 1 /\ r0.what = what /\ r0.at = config
  BY <1>2 DEF CardRead
<1> HIDE DEF r0
<1>4. /\ t \in CardRec /\ t.count = card.count + 1 /\ t.reads = card.reads \union {r0} /\ t.calls = card.calls
      /\ t.generation = card.generation /\ t.turn = card.turn /\ t.known = card.known /\ t.connected = card.connected
      /\ t.tree = card.tree /\ t.inverter = card.inverter /\ t.told = card.told /\ t.renewed = card.renewed
      /\ \A w \in Wanted : t.joined[w] = IF w = what THEN card.count + 1 ELSE card.joined[w]
  BY <1>2, <1>3 DEF CardRec
<1>5. RunPart(t) = RunPart(card) /\ DrawPart(t) = DrawPart(card)
  BY <1>2 DEF CardRec, RunPart, DrawPart
<1> HIDE DEF t
<1>6. \A r \in card.reads : r.id \in Nat /\ r.id <= card.count /\ r.id # r0.id
  BY <1>2, <1>3 DEF LoadStands, CardReadsStand, CardRec, CardRead
<1>7. CardReadsStand(t, config)
  BY <1>2, <1>3, <1>4, <1>6 DEF LoadStands, CardReadsStand
<1>8. JoinStands(t, Wanted)
  BY <1>2, <1>3, <1>4 DEF LoadStands, JoinStands, Least, CardRec
<1>9. \A call \in t.calls : CallStands(t, config, call, Wanted)
  BY <1>2, <1>4 DEF LoadStands, CallStands, Turn, Least
<1>10. LoadStands(t, config, Wanted, Wanted)
  BY <1>2, <1>4, <1>7, <1>8, <1>9 DEF LoadStands
<1>11. CardProgress(t)
  BY <1>2, <1>4, <1>5 DEF CardProgress, RunsOne, RunPart, Loads, Current
<1>12. CardWatches(t, pushed)
  BY <1>2, <1>4, <1>5, SameDraws
<1> QED
  BY <1>1, <1>2, <1>10, <1>11, <1>12 DEF CardInv

LEMMA CardStarts == CardInit => CardInv
<1> SUFFICES ASSUME CardInit PROVE CardInv
  OBVIOUS
<1>1. /\ pushed \in [Entities -> Nat] /\ config = 1
      /\ card.reads = {} /\ card.calls = {} /\ card.engine = 0 /\ card.engines = {} /\ card.known = FALSE
      /\ card.connected = FALSE /\ card.announced = FALSE
      /\ card.tree = 0 /\ card.inverter = 0 /\ card.told = 1 /\ card.renewed = 1 /\ card.watched = {}
      /\ \A what \in Wanted : card.joined[what] = 0
  BY DEF CardInit
<1>2. card \in CardRec
  BY <1>1 DEF CardInit, CardRec
<1>3. CardReadsStand(card, config) /\ JoinStands(card, Wanted)
  BY <1>1 DEF CardReadsStand, JoinStands
<1>4. LoadStands(card, config, Wanted, Wanted)
  BY <1>1, <1>2, <1>3 DEF LoadStands
<1>5. CardProgress(card) /\ CardWatches(card, pushed)
  BY <1>1 DEF CardProgress, RunsOne, CardWatches
<1> QED
  BY <1>1, <1>4, <1>5 DEF CardInv

LEMMA CardGoesOn == CardInv /\ [CardNext]_cardVars => CardInv'
<1> SUFFICES ASSUME CardInv, [CardNext]_cardVars PROVE CardInv'
  OBVIOUS
<1>1. CASE UNCHANGED cardVars
  BY <1>1 DEF cardVars, CardInv
<1>2. CASE CardNext
  BY <1>2, ConnectsKeeps, DisconnectsKeeps, ConfigChangesKeeps, ConfigToldKeeps, DetailsKeep, PushedKeeps,
     OtherCardReadsKeeps, StoreAnswersKeeps DEF CardNext
<1> QED
  BY <1>1, <1>2

LEMMA CardIsRight == CardInv => CardInvariant
<1> SUFFICES ASSUME CardInv PROVE CardInvariant
  OBVIOUS
<1>1. /\ card \in CardRec /\ LoadStands(card, config, Wanted, Wanted) /\ CardProgress(card) /\ CardWatches(card, pushed)
      /\ config \in Nat /\ card.tree \in Nat /\ card.inverter \in Nat
      /\ card.missed \subseteq {"tree", "inverter"} /\ card.watched \subseteq Entities
  BY DEF CardInv, LoadStands, CardRec
<1>2. CardTypeOK
  BY <1>1 DEF CardTypeOK, LoadStands
<1>3. OneEngine
  BY <1>1 DEF OneEngine, CardProgress, RunsOne
<1>4. \A kinds : Loads(card, kinds) <=> StillLoading(kinds)
  BY DEF Loads, StillLoading
<1>5. NeverBlank
  BY <1>1, <1>4 DEF NeverBlank, CardProgress
<1>6. CardCatchesUp
  <2>1. Loads(card, {"tree", "history"}) \/ Loads(card, {"inverter"}) => StillLoading(Wanted)
    BY DEF Loads, StillLoading, Wanted
  <2> QED
    BY <1>1, <2>1 DEF CardCatchesUp, CardProgress
<1>7. DrawsLatest
  BY <1>1 DEF DrawsLatest, CardWatches
<1> QED
  BY <1>2, <1>3, <1>5, <1>6, <1>7 DEF CardInvariant

(* However its loads, the pushes and its coming and going fall together, a card     *)
(* runs one engine, is never blank without a reason, catches up with what was       *)
(* announced to it and draws the last pushed states (energy-card-host.ts).          *)
THEOREM CardHolds == CardSpec => []CardInvariant
<1> QED
  BY CardStarts, CardGoesOn, CardIsRight, PTL DEF CardSpec
----------------------------------------------------------------------------
(* The wire: the commands srv under way to the server, the messages cli     *)
(* under way to the tab, and the version v of the schedule.                 *)

Command == [id : Ids, does : {"read"}] \cup [id : Writers, does : {"write"}]
           \cup [id : Writers, does : {"answer"}, at : Nat]
AnswerRec == [id : Ids \cup Writers, ok : BOOLEAN, at : Nat]
Message == [event : {"schedule"}] \cup AnswerRec

AnswerIn(cli, n) == n \in 1..Len(cli) /\ ~IsEvent(cli[n])
EventIn(cli, n)  == n \in 1..Len(cli) /\ IsEvent(cli[n])

UnderWay(x, srv, cli) ==
  (\E c \in srv : c.id = x) \/ \E n \in 1..Len(cli) : AnswerIn(cli, n) /\ cli[n].id = x

(* Each name is of one command or of one answer. *)
OneEach(srv, cli) ==
  /\ \A c, d \in srv : c.id = d.id => c = d
  /\ \A c \in srv : \A n \in 1..Len(cli) : AnswerIn(cli, n) => cli[n].id # c.id
  /\ \A m, n \in 1..Len(cli) :
       AnswerIn(cli, m) /\ AnswerIn(cli, n) /\ cli[m].id = cli[n].id => m = n

(* An outdated answer to a read has an announcement behind it. *)
Outdated(m, v) == m.id \in Ids /\ m.ok /\ m.at # v
TellsBehind(cli, v) ==
  \A n \in 1..Len(cli) :
    AnswerIn(cli, n) /\ Outdated(cli[n], v) => \E q \in (n + 1)..Len(cli) : EventIn(cli, q)

NoneAhead(srv, cli, v) ==
  /\ \A c \in srv : c.does = "answer" => c.at <= v
  /\ \A n \in 1..Len(cli) : AnswerIn(cli, n) => cli[n].at <= v

WireInv(srv, cli, v) ==
  /\ srv \subseteq Command /\ cli \in Seq(Message) /\ v \in Nat
  /\ OneEach(srv, cli) /\ TellsBehind(cli, v) /\ NoneAhead(srv, cli, v)

LEMMA MessageKinds ==
  /\ \A m \in Message : IsEvent(m) => m = Event("schedule")
  /\ \A m \in Message : ~IsEvent(m) => m \in AnswerRec
  /\ Event("schedule") \in Message /\ IsEvent(Event("schedule"))
  /\ \A x \in Ids \cup Writers : \A ok \in BOOLEAN : \A at \in Nat :
       [id |-> x, ok |-> ok, at |-> at] \in Message /\ ~IsEvent([id |-> x, ok |-> ok, at |-> at])
BY DEF AnswerRec, Message, IsEvent, Event

(* An announcement joins the messages, with the change it is of. *)
LEMMA WireTells ==
  ASSUME NEW srv, NEW cli, NEW v, WireInv(srv, cli, v)
  PROVE  LET new == Append(cli, Event("schedule")) IN
         /\ WireInv(srv, new, v + 1) /\ WireInv(srv, new, v)
         /\ EventIn(new, Len(new))
         /\ \A x : UnderWay(x, srv, new) <=> UnderWay(x, srv, cli)
         /\ Len(new) = Len(cli) + 1 /\ \A n \in 1..Len(cli) : new[n] = cli[n]
<1> DEFINE new == Append(cli, Event("schedule"))
<1>1. /\ new \in Seq(Message) /\ Len(new) = Len(cli) + 1 /\ Len(cli) \in Nat
      /\ \A n \in 1..Len(cli) : new[n] = cli[n]
      /\ new[Len(cli) + 1] = Event("schedule")
  BY AppendProperties, LenProperties, MessageKinds DEF WireInv
<1> HIDE DEF new
<1>2. EventIn(new, Len(new))
  BY <1>1, MessageKinds DEF EventIn
<1>3. \A n \in 1..Len(new) : AnswerIn(new, n) <=> n \in 1..Len(cli) /\ AnswerIn(cli, n)
  BY <1>1, MessageKinds DEF AnswerIn
<1>4. ASSUME NEW x PROVE UnderWay(x, srv, new) <=> UnderWay(x, srv, cli)
  BY <1>1, <1>3 DEF UnderWay
<1>5. OneEach(srv, new)
  BY <1>1, <1>3 DEF OneEach, WireInv
<1>6. ASSUME NEW u PROVE TellsBehind(new, u)
  <2> SUFFICES ASSUME NEW n \in 1..Len(new), AnswerIn(new, n)
               PROVE  \E q \in (n + 1)..Len(new) : EventIn(new, q)
    BY DEF TellsBehind
  <2>1. Len(new) \in (n + 1)..Len(new)
    BY <1>1, <1>3
  <2> QED
    BY <1>2, <2>1
<1>7. NoneAhead(srv, new, v + 1) /\ NoneAhead(srv, new, v)
  <2>1. \A c \in srv : c.does = "answer" => c.at \in Nat
    BY DEF WireInv, Command
  <2>2. \A n \in 1..Len(cli) : AnswerIn(cli, n) => cli[n].at \in Nat
    BY MessageKinds, ElementOfSeq DEF WireInv, AnswerIn, AnswerRec
  <2> QED
    BY <1>1, <1>3, <2>1, <2>2 DEF NoneAhead, WireInv
<1> QED
  BY <1>1, <1>2, <1>4, <1>5, <1>6, <1>7 DEF WireInv, new

(* An answer takes its command's place. *)
LEMMA WireAnswers ==
  ASSUME NEW srv, NEW cli, NEW v, WireInv(srv, cli, v), NEW c \in srv,
         NEW m \in AnswerRec, m.id = c.id,
         m.at <= v, ~Outdated(m, v)
  PROVE  LET new == Append(cli, m)
         IN /\ WireInv(srv \ {c}, new, v)
            /\ AnswerIn(new, Len(new)) /\ new[Len(new)] = m
            /\ \A x : UnderWay(x, srv \ {c}, new) <=> UnderWay(x, srv, cli)
            /\ Len(new) = Len(cli) + 1 /\ \A n \in 1..Len(cli) : new[n] = cli[n]
<1> DEFINE new == Append(cli, m)
<1>0. m \in Message /\ ~IsEvent(m)
  BY DEF AnswerRec, Message, IsEvent
<1>1. /\ new \in Seq(Message) /\ Len(new) = Len(cli) + 1 /\ Len(cli) \in Nat
      /\ \A n \in 1..Len(cli) : new[n] = cli[n]
      /\ new[Len(cli) + 1] = m
  BY <1>0, AppendProperties, LenProperties DEF WireInv
<1> HIDE DEF new
<1>2. AnswerIn(new, Len(new)) /\ new[Len(new)] = m
  BY <1>0, <1>1 DEF AnswerIn
<1>3. \A n \in 1..Len(new) : AnswerIn(new, n) <=> (n \in 1..Len(cli) /\ AnswerIn(cli, n)) \/ n = Len(new)
  BY <1>1, <1>2 DEF AnswerIn
<1>4. ASSUME NEW x PROVE UnderWay(x, srv \ {c}, new) <=> UnderWay(x, srv, cli)
  <2>1. CASE x = c.id
    BY <1>0, <1>1, <1>2, <2>1 DEF UnderWay
  <2>2. CASE x # c.id
    BY <1>0, <1>1, <1>3, <2>2 DEF UnderWay
  <2> QED
    BY <2>1, <2>2
<1>5. OneEach(srv \ {c}, new)
  <2>1. \A d \in srv \ {c} : d.id # c.id
    BY DEF WireInv, OneEach
  <2>2. \A d \in srv \ {c} : \A n \in 1..Len(new) : AnswerIn(new, n) => new[n].id # d.id
    BY <1>0, <1>1, <1>3, <2>1 DEF OneEach, WireInv
  <2>3. ASSUME NEW k \in 1..Len(new), NEW n \in 1..Len(new), AnswerIn(new, k), AnswerIn(new, n),
               new[k].id = new[n].id
        PROVE  k = n
    <3>1. \A j \in 1..Len(cli) : AnswerIn(cli, j) => cli[j].id # c.id
      BY DEF OneEach, WireInv
    <3> QED
      BY <1>0, <1>1, <1>3, <2>3, <3>1 DEF OneEach, WireInv
  <2> QED
    BY <2>2, <2>3 DEF OneEach, WireInv
<1>6. TellsBehind(new, v)
  <2> SUFFICES ASSUME NEW n \in 1..Len(new), AnswerIn(new, n), Outdated(new[n], v)
               PROVE  \E q \in (n + 1)..Len(new) : EventIn(new, q)
    BY DEF TellsBehind
  <2>1. n \in 1..Len(cli) /\ AnswerIn(cli, n) /\ new[n] = cli[n]
    BY <1>0, <1>1, <1>3
  <2>2. PICK q \in (n + 1)..Len(cli) : EventIn(cli, q)
    BY <2>1 DEF TellsBehind, WireInv
  <2>3. q \in (n + 1)..Len(new) /\ EventIn(new, q)
    BY <1>1, <2>2 DEF EventIn
  <2> QED
    BY <2>3
<1>7. NoneAhead(srv \ {c}, new, v)
  BY <1>0, <1>1, <1>3 DEF NoneAhead, WireInv
<1> QED
  BY <1>1, <1>2, <1>4, <1>5, <1>6, <1>7 DEF WireInv, new

(* The tab takes the first message. *)
LEMMA WireDelivers ==
  ASSUME NEW srv, NEW cli, NEW v, WireInv(srv, cli, v), cli # <<>>
  PROVE  LET new == Tail(cli) IN
         /\ WireInv(srv, new, v) /\ Head(cli) = cli[1] /\ Head(cli) \in Message
         /\ Len(new) = Len(cli) - 1 /\ Len(cli) \in Nat /\ 1 \in 1..Len(cli)
         /\ \A n \in 1..Len(new) : new[n] = cli[n + 1]
         /\ IsEvent(Head(cli)) => \A x : UnderWay(x, srv, new) <=> UnderWay(x, srv, cli)
         /\ ~IsEvent(Head(cli)) =>
              /\ \A x : UnderWay(x, srv, new) <=> UnderWay(x, srv, cli) /\ x # Head(cli).id
              /\ UnderWay(Head(cli).id, srv, cli)
<1> DEFINE new == Tail(cli)
<1>1. /\ new \in Seq(Message) /\ Len(new) = Len(cli) - 1 /\ Len(cli) \in Nat /\ 1 \in 1..Len(cli)
      /\ \A n \in 1..Len(new) : new[n] = cli[n + 1]
      /\ Head(cli) = cli[1] /\ Head(cli) \in Message
  BY HeadTailProperties, LenProperties, EmptySeq DEF WireInv
<1> HIDE DEF new
<1>3. \A n \in 1..Len(new) : n + 1 \in 1..Len(cli) /\ (AnswerIn(new, n) <=> AnswerIn(cli, n + 1))
  BY <1>1 DEF AnswerIn
<1>4. ASSUME NEW x
      PROVE  UnderWay(x, srv, cli) <=>
               UnderWay(x, srv, new) \/ (AnswerIn(cli, 1) /\ cli[1].id = x)
  <2>1. ASSUME NEW n \in 1..Len(cli), n # 1, AnswerIn(cli, n), cli[n].id = x
        PROVE  UnderWay(x, srv, new)
    <3>1. n - 1 \in 1..Len(new) /\ (n - 1) + 1 = n
      BY <1>1, <2>1
    <3>2. AnswerIn(new, n - 1) /\ new[n - 1] = cli[n]
      BY <1>1, <1>3, <2>1, <3>1
    <3> QED
      BY <2>1, <3>1, <3>2 DEF UnderWay
  <2>2. ASSUME NEW n \in 1..Len(new), AnswerIn(new, n), new[n].id = x
        PROVE  UnderWay(x, srv, cli)
    BY <1>1, <1>3, <2>2 DEF UnderWay
  <2> QED
    BY <1>1, <2>1, <2>2 DEF UnderWay
<1>5. OneEach(srv, new)
  <2>1. \A c \in srv : \A n \in 1..Len(new) : AnswerIn(new, n) => new[n].id # c.id
    BY <1>1, <1>3 DEF OneEach, WireInv
  <2>2. ASSUME NEW k \in 1..Len(new), NEW n \in 1..Len(new), AnswerIn(new, k), AnswerIn(new, n),
               new[k].id = new[n].id
        PROVE  k = n
    <3>1. k + 1 = n + 1
      BY <1>1, <1>3, <2>2 DEF OneEach, WireInv
    <3> QED
      BY <1>1, <3>1
  <2> QED
    BY <2>1, <2>2 DEF OneEach, WireInv
<1>6. TellsBehind(new, v)
  <2> SUFFICES ASSUME NEW n \in 1..Len(new), AnswerIn(new, n), Outdated(new[n], v)
               PROVE  \E q \in (n + 1)..Len(new) : EventIn(new, q)
    BY DEF TellsBehind
  <2>1. PICK q \in ((n + 1) + 1)..Len(cli) : EventIn(cli, q)
    BY <1>1, <1>3 DEF TellsBehind, WireInv
  <2>2. q - 1 \in (n + 1)..Len(new) /\ (q - 1) + 1 = q /\ q - 1 \in 1..Len(new)
    BY <1>1, <2>1
  <2>3. EventIn(new, q - 1)
    BY <1>1, <2>1, <2>2 DEF EventIn
  <2> QED
    BY <2>2, <2>3
<1>7. NoneAhead(srv, new, v)
  BY <1>1, <1>3 DEF NoneAhead, WireInv
<1>8. ASSUME AnswerIn(cli, 1) PROVE ~UnderWay(cli[1].id, srv, new)
  <2>1. \A c \in srv : c.id # cli[1].id
    BY <1>1, <1>8 DEF OneEach, WireInv
  <2>2. ASSUME NEW n \in 1..Len(new), AnswerIn(new, n) PROVE new[n].id # cli[1].id
    <3>1. n + 1 \in 1..Len(cli) /\ AnswerIn(cli, n + 1) /\ n + 1 # 1 /\ new[n] = cli[n + 1]
      BY <1>1, <1>3, <2>2
    <3> QED
      BY <1>1, <1>8, <3>1 DEF OneEach, WireInv
  <2> QED
    BY <2>1, <2>2 DEF UnderWay
<1>9. AnswerIn(cli, 1) <=> ~IsEvent(Head(cli))
  BY <1>1 DEF AnswerIn
<1> QED
  BY <1>1, <1>4, <1>5, <1>6, <1>7, <1>8, <1>9 DEF WireInv, new

(* A command of a new name joins the others. *)
LEMMA WireAsks ==
  ASSUME NEW srv, NEW cli, NEW v, WireInv(srv, cli, v), NEW c \in Command,
         ~UnderWay(c.id, srv, cli), c.does # "answer"
  PROVE  /\ WireInv(srv \cup {c}, cli, v)
         /\ \A x : UnderWay(x, srv \cup {c}, cli) <=> UnderWay(x, srv, cli) \/ x = c.id
<1>1. OneEach(srv \cup {c}, cli)
  BY DEF OneEach, WireInv, UnderWay
<1> QED
  BY <1>1 DEF WireInv, UnderWay, NoneAhead

----------------------------------------------------------------------------
(* The owner over the wire. *)

Schedule == version["schedule"]
OnTheWay(x) == UnderWay(x, toServer, toClient)

OwnerRec == [shown : {None} \cup Nat, busy : {"no", "loading", "refreshing"},
             error : BOOLEAN, stale : BOOLEAN, read : Ids \cup {None},
             mutation : Writers \cup {None}, owed : BOOLEAN, flags : SUBSET Writers]
WriterRec == [at : {"idle", "awaitMutation", "awaitRead", "afterMutation", "afterRead",
                    "sent", "orphan"},
              on : Ids \cup Writers \cup {None}]

Typed ==
  /\ version \in [Kinds -> Nat] /\ WireInv(toServer, toClient, Schedule)
  /\ owner \in OwnerRec /\ writer \in [Writers -> WriterRec]
  /\ pending \subseteq {"schedule"}
  /\ inFlight \in Ids \cup {None} /\ presses \in Nat /\ overtaken \in BOOLEAN

(* Whoever waits, waits for something that is under way. *)
Linked ==
  /\ inFlight # None => OnTheWay(inFlight)
  /\ owner.read # None => OnTheWay(owner.read)
  /\ \A w \in Writers : writer[w].at \in {"sent", "orphan"} <=> OnTheWay(w)
  /\ owner.mutation # None => writer[owner.mutation].at = "sent"
  /\ owner.owed => owner.mutation # None

Attached ==
  /\ viewers # {} => {"owner", "store"} \subseteq listeners
  /\ viewers = {} => /\ owner = NewOwner /\ "owner" \notin listeners
                     /\ \A w \in Writers : writer[w].at \in {"idle", "orphan"}
  /\ listeners = {} => toServer = {} /\ toClient = <<>>

(* The reads the store no longer names, and the writes that are not through. *)
LooseIn(srv, cli, entry) == {i \in Ids : UnderWay(i, srv, cli) /\ i # entry}
PressedIn(wr) == {w \in Writers : wr[w].at # "idle"}
Counted ==
  /\ presses <= MaxWrites
  /\ Cardinality(LooseIn(toServer, toClient, inFlight)) + Cardinality(PressedIn(writer)) <= presses

(* The write w has been applied, as the version at. *)
TakenIn(w, a, srv, cli) ==
  \/ \E c \in srv : c.id = w /\ c.does = "answer" /\ c.at = a
  \/ \E n \in 1..Len(cli) : AnswerIn(cli, n) /\ cli[n].id = w /\ cli[n].ok /\ cli[n].at = a
Sent(w) == writer[w].at = "sent"

Told == \/ pending # {} \/ owner.owed
        \/ \E n \in 1..Len(toClient) : EventIn(toClient, n)
WillBeCurrent ==
  \/ owner.shown = Schedule \/ Told \/ owner.read # None
  \/ \E w \in Writers : Sent(w) /\ TakenIn(w, Schedule, toServer, toClient)
NoneTaken == \A w \in Writers : \A a \in Nat : Sent(w) => ~TakenIn(w, a, toServer, toClient)
WillSay == NoneTaken /\ (owner.error \/ \E w \in Writers : Sent(w))

Accounted == viewers # {} /\ ~overtaken => WillBeCurrent \/ WillSay

OwnerInv == Typed /\ Linked /\ Attached /\ Counted /\ Accounted

(* What has been applied stays so on its way back, and nothing else comes to be. *)
LEMMA TakenTells ==
  ASSUME NEW srv, NEW cli, NEW v, WireInv(srv, cli, v), NEW w, NEW a
  PROVE  TakenIn(w, a, srv, Append(cli, Event("schedule"))) <=> TakenIn(w, a, srv, cli)
<1> DEFINE new == Append(cli, Event("schedule"))
<1>1. /\ EventIn(new, Len(new)) /\ Len(new) = Len(cli) + 1
      /\ \A n \in 1..Len(cli) : new[n] = cli[n] /\ Len(cli) \in Nat
  BY WireTells, LenProperties DEF WireInv
<1> HIDE DEF new
<1>2. \A n \in 1..Len(new) : AnswerIn(new, n) <=> n \in 1..Len(cli) /\ AnswerIn(cli, n)
  BY <1>1 DEF AnswerIn, EventIn
<1>3. Len(cli) \in Nat
  BY LenProperties DEF WireInv
<1> QED
  BY <1>1, <1>2, <1>3 DEF TakenIn, new

LEMMA TakenAnswers ==
  ASSUME NEW srv, NEW cli, NEW v, WireInv(srv, cli, v), NEW c \in srv,
         NEW m \in AnswerRec, m.id = c.id,
         c.does = "answer" => m.ok /\ m.at = c.at,
         c.does = "write" => ~m.ok,
         NEW w \in Writers, NEW a
  PROVE  TakenIn(w, a, srv \ {c}, Append(cli, m)) <=> TakenIn(w, a, srv, cli)
<1> DEFINE new == Append(cli, m)
<1>0. m \in Message /\ ~IsEvent(m)
  BY DEF AnswerRec, Message, IsEvent
<1>1. /\ AnswerIn(new, Len(new)) /\ new[Len(new)] = m
      /\ Len(new) = Len(cli) + 1 /\ \A n \in 1..Len(cli) : new[n] = cli[n]
  BY <1>0, AppendProperties, LenProperties DEF WireInv, AnswerIn
<1>2. Len(cli) \in Nat
  BY LenProperties DEF WireInv
<1> HIDE DEF new
<1>3. \A n \in 1..Len(new) : AnswerIn(new, n) <=> (n \in 1..Len(cli) /\ AnswerIn(cli, n)) \/ n = Len(new)
  BY <1>1, <1>2 DEF AnswerIn
<1>4. \A d \in srv : d.id = c.id => d = c
  BY DEF WireInv, OneEach
<1>5. \A n \in 1..Len(cli) : AnswerIn(cli, n) => cli[n].id # c.id
  BY DEF WireInv, OneEach
<1>6. c.id \in Writers => c.does \in {"write", "answer"}
  BY NamesAssumption DEF WireInv, Command
<1>7. CASE w # c.id
  <2>1. TakenIn(w, a, srv, cli) => TakenIn(w, a, srv \ {c}, new)
    BY <1>0, <1>1, <1>2, <1>3, <1>7 DEF TakenIn
  <2>2. TakenIn(w, a, srv \ {c}, new) => TakenIn(w, a, srv, cli)
    BY <1>0, <1>1, <1>2, <1>3, <1>7 DEF TakenIn
  <2> QED
    BY <2>1, <2>2 DEF new
<1>8. CASE w = c.id
  <2>1. TakenIn(w, a, srv, cli) <=> c.does = "answer" /\ c.at = a
    BY <1>4, <1>5, <1>8 DEF TakenIn
  <2>2. TakenIn(w, a, srv \ {c}, new) <=> m.ok /\ m.at = a
    BY <1>0, <1>1, <1>2, <1>3, <1>4, <1>5, <1>8 DEF TakenIn
  <2> QED
    BY <1>6, <1>8, <2>1, <2>2 DEF new
<1> QED
  BY <1>7, <1>8

LEMMA TakenDelivers ==
  ASSUME NEW srv, NEW cli, NEW v, WireInv(srv, cli, v), cli # <<>>, NEW w, NEW a,
         IsEvent(Head(cli)) \/ Head(cli).id # w
  PROVE  TakenIn(w, a, srv, Tail(cli)) <=> TakenIn(w, a, srv, cli)
<1> DEFINE new == Tail(cli)
<1>1. /\ Head(cli) = cli[1] /\ Len(new) = Len(cli) - 1 /\ Len(cli) \in Nat /\ 1 \in 1..Len(cli)
      /\ \A n \in 1..Len(new) : new[n] = cli[n + 1]
  BY WireDelivers
<1> HIDE DEF new
<1>2. \A n \in 1..Len(new) : n + 1 \in 1..Len(cli) /\ (AnswerIn(new, n) <=> AnswerIn(cli, n + 1))
  BY <1>1 DEF AnswerIn
<1>3. ASSUME NEW n \in 1..Len(cli), n # 1, AnswerIn(cli, n)
      PROVE  \E k \in 1..Len(new) : AnswerIn(new, k) /\ new[k] = cli[n]
  <2>1. n - 1 \in 1..Len(new) /\ (n - 1) + 1 = n
    BY <1>1, <1>3
  <2> QED
    BY <1>1, <1>2, <1>3, <2>1
<1>4. AnswerIn(cli, 1) => cli[1].id # w
  BY <1>1 DEF AnswerIn
<1> QED
  BY <1>1, <1>2, <1>3, <1>4 DEF TakenIn, new

LEMMA TakenAsks ==
  ASSUME NEW srv, NEW cli, NEW c, c.does # "answer", NEW w, NEW a
  PROVE  TakenIn(w, a, srv \cup {c}, cli) <=> TakenIn(w, a, srv, cli)
BY DEF TakenIn

(* A write is applied: its announcement leaves, and its answer waits. *)
LEMMA WireApplies ==
  ASSUME NEW srv, NEW cli, NEW v, WireInv(srv, cli, v), NEW c \in srv, c.does = "write"
  PROVE  LET d    == [id |-> c.id, does |-> "answer", at |-> v + 1]
             left == (srv \ {c}) \cup {d}
             new  == Append(cli, Event("schedule"))
         IN /\ WireInv(left, new, v + 1)
            /\ \A x : UnderWay(x, left, new) <=> UnderWay(x, srv, cli)
            /\ EventIn(new, Len(new)) /\ Len(new) \in Nat /\ Len(new) >= 1
<1> DEFINE d    == [id |-> c.id, does |-> "answer", at |-> v + 1]
           left == (srv \ {c}) \cup {d}
           new  == Append(cli, Event("schedule"))
<1>1. /\ WireInv(srv, new, v + 1) /\ EventIn(new, Len(new))
      /\ \A x : UnderWay(x, srv, new) <=> UnderWay(x, srv, cli)
      /\ Len(new) = Len(cli) + 1
  BY WireTells
<1>2. Len(cli) \in Nat /\ v \in Nat
  BY LenProperties DEF WireInv
<1>3. c.id \in Writers
  BY DEF WireInv, Command
<1>4. d \in Command /\ d.id = c.id /\ d.does = "answer" /\ d.at = v + 1
  BY <1>2, <1>3 DEF Command
<1> HIDE DEF new, d
<1>5. OneEach(left, new)
  BY <1>1, <1>4 DEF OneEach, WireInv
<1>6. NoneAhead(left, new, v + 1)
  BY <1>1, <1>2, <1>4 DEF NoneAhead, WireInv
<1>7. \A x : UnderWay(x, left, new) <=> UnderWay(x, srv, new)
  BY <1>4 DEF UnderWay
<1>8. WireInv(left, new, v + 1)
  BY <1>1, <1>4, <1>5, <1>6 DEF WireInv
<1>9. Len(new) \in Nat /\ Len(new) >= 1
  BY <1>1, <1>2
<1> QED
  BY <1>1, <1>7, <1>8, <1>9 DEF new, d

(* ------------------------ names ------------------------ *)

LEMMA CountsAreNumbers ==
  /\ \A srv, cli, entry : IsFiniteSet(LooseIn(srv, cli, entry)) /\ Cardinality(LooseIn(srv, cli, entry)) \in Nat
  /\ \A wr : IsFiniteSet(PressedIn(wr)) /\ Cardinality(PressedIn(wr)) \in Nat
BY NamesAssumption, FS_Subset, FS_CardinalityType DEF LooseIn, PressedIn

(* There is a name left: the reads out, with the one the store names, are fewer. *)
LEMMA FreshIsFree ==
  ASSUME Typed, Counted
  PROVE  FreshId \in Ids /\ ~OnTheWay(FreshId) /\ FreshId # inFlight
<1> DEFINE loose == LooseIn(toServer, toClient, inFlight)
<1>1. IsFiniteSet(loose) /\ Cardinality(loose) \in Nat /\ Cardinality(loose) <= MaxWrites
  BY CountsAreNumbers, NamesAssumption DEF Counted, Typed
<1>2. IsFiniteSet(loose \cup {inFlight}) /\ Cardinality(loose \cup {inFlight}) <= MaxWrites + 1
  <2> HIDE DEF loose
  <2>1. /\ IsFiniteSet(loose \cup {inFlight})
        /\ Cardinality(loose \cup {inFlight}) \in {Cardinality(loose), Cardinality(loose) + 1}
    BY <1>1, FS_AddElement
  <2> QED
    BY <1>1, <2>1, NamesAssumption
<1>3. PICK i \in Ids : i \notin loose \cup {inFlight}
  <2> SUFFICES ASSUME Ids \subseteq loose \cup {inFlight} PROVE FALSE
    OBVIOUS
  <2>1. Cardinality(Ids) <= Cardinality(loose \cup {inFlight})
    BY <1>2, FS_Subset
  <2> QED
    BY <1>1, <1>2, <2>1, NamesAssumption, FS_CardinalityType
<1>4. ~OnTheWay(i) /\ i # inFlight
  BY <1>3 DEF LooseIn, OnTheWay
<1> DEFINE Free(j) == /\ \A c \in toServer : c.id # j
                      /\ \A n \in DOMAIN toClient : IsEvent(toClient[n]) \/ toClient[n].id # j
                      /\ j # inFlight
<1>5. DOMAIN toClient = 1..Len(toClient)
  BY LenProperties DEF Typed, WireInv
<1>6. \A j : Free(j) <=> ~OnTheWay(j) /\ j # inFlight
  BY <1>5 DEF OnTheWay, UnderWay, AnswerIn
<1>7. FreshId = CHOOSE j \in Ids : Free(j)
  BY DEF FreshId
<1> QED
  BY <1>3, <1>4, <1>6, <1>7

(* ------------------------ Becomes ------------------------ *)

LEMMA BecomesAsBefore ==
  ASSUME NEW o, NEW entry, NEW sent, o.read = owner.read, Becomes(o, entry, {}, sent)
  PROVE  owner' = o /\ inFlight' = entry /\ toServer' = toServer \cup sent
BY DEF Becomes

(* A read: one that is out already, the store's, or a new one. *)
LEMMA BecomesReading ==
  ASSUME Typed, Counted, NEW o \in OwnerRec, o.read = owner.read,
         NEW entry \in {inFlight, None}, Becomes(RefreshSchedule(o, entry), entry, {}, {})
  PROVE  /\ owner' \in OwnerRec /\ owner'.read # None
         /\ owner'.shown = o.shown /\ owner'.mutation = o.mutation /\ owner'.owed = o.owed
         /\ \/ /\ toServer' = toServer /\ inFlight' = entry
               /\ owner'.read = owner.read \/ owner'.read = inFlight
            \/ \E i \in Ids : /\ ~OnTheWay(i) /\ i # inFlight /\ entry = None
                              /\ toServer' = toServer \cup {ReadCommand(i)}
                              /\ inFlight' = i /\ owner'.read = i
<1> DEFINE read == IF entry # None THEN entry ELSE FreshId
           busy == IF o.shown = None THEN "loading" ELSE "refreshing"
           new  == [o EXCEPT !.busy = busy, !.read = read]
<1>1. CASE o.read # None
  <2>1. RefreshSchedule(o, entry) = o
    BY <1>1 DEF RefreshSchedule
  <2>2. owner' = o /\ inFlight' = entry /\ toServer' = toServer
    BY <2>1, BecomesAsBefore
  <2> QED
    BY <1>1, <2>2
<1>2. CASE o.read = None
  <2>1. RefreshSchedule(o, entry) = new
    BY <1>2 DEF RefreshSchedule
  <2>2. read \in Ids /\ FreshId \in Ids /\ ~OnTheWay(FreshId) /\ FreshId # inFlight
    BY FreshIsFree DEF Typed
  <2>3. /\ new \in OwnerRec /\ new.read = read
        /\ new.shown = o.shown /\ new.mutation = o.mutation /\ new.owed = o.owed
    BY <2>2 DEF OwnerRec
  <2>4. read # None
    BY <2>2, NamesAssumption
  <2> HIDE DEF new
  <2>5. /\ owner' = new /\ inFlight' = read
        /\ toServer' = toServer \cup (IF read # entry THEN {ReadCommand(read)} ELSE {})
    BY <1>2, <2>1, <2>3, <2>4 DEF Becomes
  <2>6. CASE entry # None
    BY <2>3, <2>4, <2>5, <2>6
  <2>7. CASE entry = None
    BY <2>2, <2>3, <2>4, <2>5, <2>7
  <2> QED
    BY <2>6, <2>7
<1> QED
  BY <1>1, <1>2

(* ------------------------ steps ------------------------ *)

LEMMA ReadCommandJoins ==
  ASSUME Typed, NEW i \in Ids, ~OnTheWay(i), NEW cli, WireInv(toServer, cli, Schedule),
         \A x : UnderWay(x, toServer, cli) => OnTheWay(x)
  PROVE  /\ WireInv(toServer \cup {ReadCommand(i)}, cli, Schedule)
         /\ \A x : UnderWay(x, toServer \cup {ReadCommand(i)}, cli) <=> UnderWay(x, toServer, cli) \/ x = i
         /\ \A w, a : TakenIn(w, a, toServer \cup {ReadCommand(i)}, cli) <=> TakenIn(w, a, toServer, cli)
<1> DEFINE c == ReadCommand(i)
<1>1. c \in Command /\ c.id = i /\ c.does # "answer"
  BY DEF ReadCommand, Command
<1>2. ~UnderWay(c.id, toServer, cli)
  BY <1>1
<1> HIDE DEF c
<1> QED
  BY <1>1, <1>2, WireAsks, TakenAsks DEF c

(* The owner asks, while nothing moves on the wire. *)
LEMMA OwnerRefreshes ==
  ASSUME OwnerInv, Becomes(RefreshSchedule(owner, inFlight), inFlight, {}, {}),
         UNCHANGED <<version, toClient, writer, presses, overtaken>>,
         pending' \subseteq {"schedule"}
  PROVE  Typed' /\ Linked' /\ Counted' /\ Accounted'
<1> USE DEF OwnerInv
<1>1. /\ owner' \in OwnerRec /\ owner'.read # None
      /\ owner'.shown = owner.shown /\ owner'.mutation = owner.mutation /\ owner'.owed = owner.owed
      /\ \/ /\ toServer' = toServer /\ inFlight' = inFlight
            /\ owner'.read = owner.read \/ owner'.read = inFlight
         \/ \E i \in Ids : /\ ~OnTheWay(i) /\ i # inFlight /\ inFlight = None
                           /\ toServer' = toServer \cup {ReadCommand(i)}
                           /\ inFlight' = i /\ owner'.read = i
  <2>1. owner \in OwnerRec /\ owner.read = owner.read /\ inFlight \in {inFlight, None}
    BY DEF Typed
  <2> QED
    BY <2>1, BecomesReading
<1>2. Accounted'
  BY <1>1 DEF Accounted, WillBeCurrent
<1>3. Schedule' = Schedule /\ toClient' = toClient
  BY DEF Schedule
<1>4. CASE /\ toServer' = toServer /\ inFlight' = inFlight
           /\ owner'.read = owner.read \/ owner'.read = inFlight
  <2>1. Typed'
    BY <1>1, <1>3, <1>4 DEF Typed
  <2>2. Linked'
    BY <1>1, <1>3, <1>4 DEF Linked, OnTheWay
  <2>3. Counted'
    BY <1>3, <1>4 DEF Counted
  <2> QED
    BY <1>2, <2>1, <2>2, <2>3
<1>5. ASSUME NEW i \in Ids, ~OnTheWay(i), i # inFlight, inFlight = None,
             toServer' = toServer \cup {ReadCommand(i)}, inFlight' = i, owner'.read = i
      PROVE  Typed' /\ Linked' /\ Counted'
  <2>1. /\ WireInv(toServer', toClient', Schedule')
        /\ \A x : OnTheWay(x)' <=> OnTheWay(x) \/ x = i
    BY <1>3, <1>5, ReadCommandJoins DEF OnTheWay, Typed
  <2>2. Typed'
    BY <1>1, <1>3, <1>5, <2>1 DEF Typed
  <2>3. Linked'
    BY <1>1, <1>5, <2>1, NamesAssumption DEF Linked
  <2>4. LooseIn(toServer', toClient', inFlight') \subseteq LooseIn(toServer, toClient, inFlight)
    BY <1>5, <2>1, NamesAssumption DEF LooseIn, OnTheWay
  <2>5. Cardinality(LooseIn(toServer', toClient', inFlight'))
          <= Cardinality(LooseIn(toServer, toClient, inFlight))
    BY <2>4, CountsAreNumbers, FS_Subset
  <2>6. Counted'
    BY <2>5, CountsAreNumbers, NamesAssumption DEF Counted, Typed
  <2> QED
    BY <2>2, <2>3, <2>6
<1> QED
  BY <1>1, <1>2, <1>4, <1>5

(* A cue to read: at once, or once the write that is out has settled. *)
LEMMA OwnerHeeds ==
  ASSUME OwnerInv, Becomes(Refresh(owner, inFlight), inFlight, {}, {}),
         UNCHANGED <<version, toClient, writer, presses, overtaken>>,
         pending' \subseteq {"schedule"}
  PROVE  Typed' /\ Linked' /\ Counted' /\ Accounted'
<1>1. CASE owner.mutation = None
  BY <1>1, OwnerRefreshes DEF Refresh
<1>2. CASE owner.mutation # None
  <2> DEFINE o == [owner EXCEPT !.owed = TRUE]
  <2>1. o \in OwnerRec /\ o.read = owner.read /\ o.mutation = owner.mutation /\ o.owed
    BY DEF OwnerInv, Typed, OwnerRec
  <2>2. Becomes(o, inFlight, {}, {})
    BY <1>2 DEF Refresh
  <2> HIDE DEF o
  <2>3. owner' = o /\ inFlight' = inFlight /\ toServer' = toServer /\ toClient' = toClient
    BY <2>1, <2>2, BecomesAsBefore
  <2>4. Typed'
    BY <2>1, <2>3 DEF OwnerInv, Typed, Schedule
  <2>5. Linked'
    BY <1>2, <2>1, <2>3 DEF OwnerInv, Linked, OnTheWay
  <2>6. Counted'
    BY <2>3 DEF OwnerInv, Counted
  <2>7. Accounted'
    BY <2>1, <2>3 DEF Accounted, WillBeCurrent, Told
  <2> QED
    BY <2>4, <2>5, <2>6, <2>7
<1> QED
  BY <1>1, <1>2

LEMMA SubscribeKeeps ==
  ASSUME OwnerInv, NEW view, Subscribe(view)
  PROVE  OwnerInv'
<1> USE DEF Subscribe, Subscribed
<1>1. Attached'
  BY DEF OwnerInv, Attached
<1>2. pending' \subseteq {"schedule"}
  BY DEF OwnerInv, Typed
<1>3. CASE owner.shown = None /\ owner.busy = "no"
  BY <1>1, <1>2, <1>3, OwnerRefreshes DEF OwnerInv
<1>4. CASE ~(owner.shown = None /\ owner.busy = "no")
  <2>1. owner' = owner /\ inFlight' = inFlight /\ toServer' = toServer
    BY <1>4, BecomesAsBefore
  <2>2. viewers # {}
    BY <1>4 DEF OwnerInv, Attached, NewOwner
  <2> QED
    BY <1>1, <2>1, <2>2 DEF OwnerInv, Typed, Linked, Counted, Accounted, Schedule, OnTheWay,
       WillBeCurrent, WillSay, Told, NoneTaken, Sent
<1> QED
  BY <1>3, <1>4

LEMMA UnsubscribeKeeps ==
  ASSUME OwnerInv, NEW view, Unsubscribe(view)
  PROVE  OwnerInv'
<1> USE DEF Unsubscribe
<1>1. CASE viewers # {view}
  <2>1. viewers # {} /\ viewers' # {}
    BY <1>1
  <2> QED
    BY <1>1, <2>1 DEF OwnerInv, Typed, Linked, Attached, Counted, Accounted, Schedule, OnTheWay,
       WillBeCurrent, WillSay, Told, NoneTaken, Sent, feedVars
<1>2. CASE viewers = {view}
  <2>1. viewers' = {} /\ {"owner", "store"} \subseteq listeners /\ owner' = NewOwner
    BY <1>2 DEF OwnerInv, Attached
  <2>2. /\ UNCHANGED <<pending, toClient, version, toServer, inFlight, presses, overtaken>>
        /\ "store" \in listeners' /\ "owner" \notin listeners'
    BY <1>2, <2>1 DEF Left
  <2>3. /\ writer' \in [Writers -> WriterRec]
        /\ \A w \in Writers :  /\ writer'[w].at \in {"idle", "orphan"}
                               /\ writer'[w].at = "idle" <=> writer[w].at = "idle"
                               /\ writer'[w].at = "orphan" <=> writer[w].at \in {"sent", "orphan"}
    BY <1>2 DEF OwnerInv, Typed, WriterRec
  <2>4. owner' \in OwnerRec /\ owner'.read = None /\ owner'.mutation = None /\ ~owner'.owed
    BY <2>1 DEF NewOwner, OwnerRec
  <2>5. Typed'
    BY <2>2, <2>3, <2>4 DEF OwnerInv, Typed, Schedule
  <2>6. Linked'
    BY <2>2, <2>3, <2>4 DEF OwnerInv, Linked, OnTheWay
  <2>7. Attached'
    BY <2>1, <2>2, <2>3 DEF Attached
  <2>8. PressedIn(writer') = PressedIn(writer)
    BY <2>3 DEF PressedIn
  <2>9. Counted'
    BY <2>2, <2>8 DEF OwnerInv, Counted
  <2> QED
    BY <2>1, <2>5, <2>6, <2>7, <2>9 DEF OwnerInv, Accounted
<1> QED
  BY <1>1, <1>2

(* A write goes out. *)
LEMMA SendsKeeps ==
  ASSUME OwnerInv, NEW w \in Writers, writer[w].at \notin {"sent", "orphan"}, viewers # {},
         Sends(w), UNCHANGED <<version, toClient, feedVars, viewers, overtaken>>, presses' \in Nat
  PROVE  /\ Typed' /\ Linked' /\ Attached' /\ Accounted'
         /\ LooseIn(toServer', toClient', inFlight') = LooseIn(toServer, toClient, inFlight)
         /\ PressedIn(writer') = PressedIn(writer) \cup {w}
<1> DEFINE c == WriteCommand(w)
           o == [owner EXCEPT !.flags = @ \cup {w}, !.error = FALSE, !.mutation = w]
<1>1. c \in Command /\ c.id = w /\ c.does # "answer"
  BY DEF WriteCommand, Command
<1>2. ~UnderWay(c.id, toServer, toClient)
  BY <1>1 DEF OwnerInv, Linked, OnTheWay
<1>3. /\ o \in OwnerRec /\ o.read = owner.read /\ o.mutation = w
      /\ o.shown = owner.shown /\ o.owed = owner.owed
  BY DEF OwnerInv, Typed, OwnerRec
<1> HIDE DEF o, c
<1>4. owner' = o /\ inFlight' = inFlight /\ toServer' = toServer \cup {c}
  BY <1>3, BecomesAsBefore DEF Sends, o, c
<1>5. toClient' = toClient /\ Schedule' = Schedule
  BY DEF Schedule
<1>6. /\ WireInv(toServer', toClient', Schedule')
      /\ \A x : OnTheWay(x)' <=> OnTheWay(x) \/ x = w
  BY <1>1, <1>2, <1>4, <1>5, WireAsks DEF OnTheWay, OwnerInv, Typed
<1>7. /\ writer' \in [Writers -> WriterRec] /\ writer'[w].at = "sent"
      /\ \A u \in Writers : u # w => writer'[u] = writer[u]
  BY NamesAssumption DEF Sends, OwnerInv, Typed, WriterRec
<1>8. Typed'
  BY <1>3, <1>4, <1>6, <1>7 DEF OwnerInv, Typed, feedVars
<1>9. Linked'
  <2>1. \A i \in Ids : i # w
    BY NamesAssumption
  <2> QED
    <3>1. (inFlight # None => OnTheWay(inFlight))' /\ (owner.read # None => OnTheWay(owner.read))'
      BY <1>3, <1>4, <1>6 DEF OwnerInv, Linked
    <3>2. (\A u \in Writers : writer[u].at \in {"sent", "orphan"} <=> OnTheWay(u))'
      BY <1>6, <1>7 DEF OwnerInv, Linked
    <3>3. (owner.mutation # None => writer[owner.mutation].at = "sent")' /\ (owner.owed => owner.mutation # None)'
      BY <1>3, <1>4, <1>7, NamesAssumption
    <3> QED
      BY <3>1, <3>2, <3>3 DEF Linked
<1>10. Attached'
  BY <1>4, <1>5 DEF OwnerInv, Attached, feedVars
<1>11. \A u, a : TakenIn(u, a, toServer', toClient') <=> TakenIn(u, a, toServer, toClient)
  BY <1>1, <1>4, <1>5, TakenAsks
<1>12. ASSUME NEW a PROVE ~TakenIn(w, a, toServer, toClient)
  BY <1>1, <1>2 DEF TakenIn, UnderWay
<1>13. Accounted'
  <2> SUFFICES ASSUME ~overtaken PROVE WillBeCurrent' \/ WillSay'
    BY DEF Accounted
  <2>1. CASE WillBeCurrent
    BY <1>3, <1>4, <1>5, <1>7, <1>11, <1>12, <2>1 DEF WillBeCurrent, Told, Sent, feedVars
  <2>2. CASE WillSay
    BY <1>7, <1>11, <1>12, <2>2 DEF WillSay, NoneTaken, Sent
  <2> QED
    BY <2>1, <2>2 DEF OwnerInv, Accounted
<1>14. LooseIn(toServer', toClient', inFlight') = LooseIn(toServer, toClient, inFlight)
  BY <1>4, <1>6, NamesAssumption DEF LooseIn, OnTheWay
<1>15. PressedIn(writer') = PressedIn(writer) \cup {w}
  BY <1>7 DEF PressedIn
<1> QED
  BY <1>8, <1>9, <1>10, <1>13, <1>14, <1>15

(* A write waits for its turn. *)
LEMMA WaitsKeeps ==
  ASSUME OwnerInv, NEW w \in Writers, writer[w].at \notin {"sent", "orphan"}, viewers # {},
         NEW how \in {"awaitMutation", "awaitRead"}, NEW on \in Ids \cup Writers, Waits(w, how, on),
         UNCHANGED <<version, toClient, feedVars, viewers, overtaken>>, presses' \in Nat
  PROVE  /\ Typed' /\ Linked' /\ Attached' /\ Accounted'
         /\ LooseIn(toServer', toClient', inFlight') = LooseIn(toServer, toClient, inFlight)
         /\ PressedIn(writer') = PressedIn(writer) \cup {w}
<1> USE DEF Waits
<1>1. /\ writer' \in [Writers -> WriterRec] /\ writer'[w].at = how
      /\ \A u \in Writers : u # w => writer'[u] = writer[u]
  BY DEF OwnerInv, Typed, WriterRec
<1>2. \A u \in Writers : Sent(u)' <=> Sent(u)
  BY <1>1 DEF Sent
<1>3. Schedule' = Schedule /\ \A x : OnTheWay(x)' <=> OnTheWay(x)
  BY DEF Schedule, OnTheWay
<1>4. Typed'
  BY <1>1, <1>3 DEF OwnerInv, Typed, feedVars
<1>5. Linked'
  BY <1>1, <1>3 DEF OwnerInv, Linked, Typed
<1>6. Attached'
  BY DEF OwnerInv, Attached, feedVars
<1>7. Accounted'
  BY <1>2, <1>3 DEF OwnerInv, Accounted, WillBeCurrent, WillSay, Told, NoneTaken, feedVars
<1>8. PressedIn(writer') = PressedIn(writer) \cup {w}
  BY <1>1 DEF PressedIn
<1> QED
  BY <1>4, <1>5, <1>6, <1>7, <1>8

LEMMA TrackMutationKeeps ==
  ASSUME OwnerInv, NEW w \in Writers, TrackMutation(w)
  PROVE  OwnerInv'
<1> USE DEF TrackMutation
<1>1. /\ writer[w].at = "idle" /\ viewers # {} /\ presses' \in Nat /\ presses' = presses + 1
      /\ owner.mutation \in Writers \cup {None} /\ owner.read \in Ids \cup {None}
      /\ presses < MaxWrites /\ presses \in Nat
      /\ UNCHANGED <<version, toClient, feedVars, viewers, overtaken>>
  BY DEF OwnerInv, Typed, OwnerRec
<1>2. /\ Typed' /\ Linked' /\ Attached' /\ Accounted'
      /\ LooseIn(toServer', toClient', inFlight') = LooseIn(toServer, toClient, inFlight)
      /\ PressedIn(writer') = PressedIn(writer) \cup {w}
  <2>1. CASE owner.mutation # None
    BY <1>1, <2>1, WaitsKeeps
  <2>2. CASE owner.mutation = None /\ owner.read # None
    BY <1>1, <2>2, WaitsKeeps
  <2>3. CASE owner.mutation = None /\ owner.read = None
    BY <1>1, <2>3, SendsKeeps
  <2> QED
    BY <2>1, <2>2, <2>3
<1>3. Cardinality(PressedIn(writer')) = Cardinality(PressedIn(writer)) + 1
  <2>1. w \notin PressedIn(writer)
    BY <1>1 DEF PressedIn
  <2> QED
    BY <1>2, <2>1, CountsAreNumbers, FS_AddElement
<1>4. Counted'
  BY <1>1, <1>2, <1>3, CountsAreNumbers, NamesAssumption DEF OwnerInv, Counted
<1> QED
  BY <1>2, <1>4 DEF OwnerInv

LEMMA ResumesKeeps ==
  ASSUME OwnerInv, NEW w \in Writers, Resumes(w)
  PROVE  OwnerInv'
<1> USE DEF Resumes
<1>1. /\ writer[w].at \in {"afterMutation", "afterRead"} /\ presses' \in Nat /\ presses' = presses
      /\ viewers # {} /\ owner.read \in Ids \cup {None}
      /\ UNCHANGED <<version, toClient, feedVars, viewers, overtaken>>
  BY DEF OwnerInv, Typed, OwnerRec, Attached
<1>2. /\ Typed' /\ Linked' /\ Attached' /\ Accounted'
      /\ LooseIn(toServer', toClient', inFlight') = LooseIn(toServer, toClient, inFlight)
      /\ PressedIn(writer') = PressedIn(writer) \cup {w}
  <2>1. CASE writer[w].at = "afterMutation" /\ owner.read # None
    BY <1>1, <2>1, WaitsKeeps
  <2>2. CASE Sends(w)
    BY <1>1, <2>2, SendsKeeps
  <2> QED
    BY <1>1, <2>1, <2>2
<1>3. PressedIn(writer') = PressedIn(writer)
  BY <1>1, <1>2 DEF PressedIn
<1> QED
  BY <1>1, <1>2, <1>3 DEF OwnerInv, Counted

LEMMA BoundaryKeeps ==
  ASSUME OwnerInv, BoundaryPasses
  PROVE  OwnerInv'
<1> USE DEF BoundaryPasses
<1>1. pending' \subseteq {"schedule"}
  BY DEF OwnerInv, Typed, feedVars
<1>2. Attached'
  BY DEF OwnerInv, Attached, feedVars
<1> QED
  BY <1>1, <1>2, OwnerHeeds DEF OwnerInv

LEMMA FeedTellsKeeps ==
  ASSUME OwnerInv, FeedTells
  PROVE  OwnerInv'
<1> USE DEF FeedTells
<1>1. pending' = {} /\ listeners' = listeners
  BY DEF FeedFlushes, TimerFires, ComesBackWithNews
<1>2. CASE "owner" \in listeners /\ pending # {}
  <2>1. Typed' /\ Linked' /\ Counted' /\ Accounted'
    BY <1>1, <1>2, OwnerHeeds
  <2>2. viewers # {} /\ viewers' = viewers /\ {"owner", "store"} \subseteq listeners
    BY <1>2 DEF OwnerInv, Attached
  <2>3. Attached'
    BY <1>1, <2>2 DEF Attached
  <2> QED
    BY <2>1, <2>3 DEF OwnerInv
<1>3. CASE ~("owner" \in listeners /\ pending # {})
  <2>1. owner' = owner /\ inFlight' = inFlight /\ toServer' = toServer
    BY <1>3, BecomesAsBefore
  <2>2. viewers # {} => pending = {}
    BY <1>3 DEF OwnerInv, Attached
  <2> QED
    BY <1>1, <2>1, <2>2 DEF OwnerInv, Typed, Linked, Attached, Counted, Accounted, Schedule, OnTheWay,
       WillBeCurrent, WillSay, Told, NoneTaken, Sent
<1> QED
  BY <1>2, <1>3

(* ------------------------ the wire moves ------------------------ *)

LEMMA FeedHearsKeeps ==
  ASSUME OwnerInv, FeedHears
  PROVE  OwnerInv'
<1> USE DEF FeedHears, OnEvent, ownerVars
<1>1. /\ WireInv(toServer, Tail(toClient), Schedule) /\ Head(toClient) \in Message
      /\ \A x : UnderWay(x, toServer, Tail(toClient)) <=> OnTheWay(x)
  BY WireDelivers DEF OwnerInv, Typed, OnTheWay
<1>2. Head(toClient) = Event("schedule")
  BY <1>1, MessageKinds
<1>3. pending' = {"schedule"}
  <2>1. Head(toClient).event = "schedule" /\ pending \subseteq {"schedule"}
    BY <1>2 DEF OwnerInv, Typed, Event
  <2> QED
    BY <2>1
<1>4. /\ toClient' = Tail(toClient) /\ toServer' = toServer /\ Schedule' = Schedule
      /\ \A x : OnTheWay(x)' <=> OnTheWay(x)
  BY <1>1 DEF Schedule, OnTheWay
<1>5. Typed'
  BY <1>1, <1>3, <1>4 DEF OwnerInv, Typed
<1>6. Linked'
  BY <1>4 DEF OwnerInv, Linked
<1>7. Attached'
  BY DEF OwnerInv, Attached
<1>8. LooseIn(toServer', toClient', inFlight') = LooseIn(toServer, toClient, inFlight)
  BY <1>4 DEF LooseIn, OnTheWay
<1>9. Counted'
  BY <1>8 DEF OwnerInv, Counted
<1>10. Accounted'
  BY <1>3 DEF Accounted, WillBeCurrent, Told
<1> QED
  BY <1>5, <1>6, <1>7, <1>9, <1>10 DEF OwnerInv

(* Nothing happens to the owner, and whatever was under way still is. *)
LEMMA ServedKeeps ==
  ASSUME OwnerInv, UNCHANGED <<owner, viewers, writer, inFlight, presses, overtaken>>,
         pending' \subseteq {"schedule"}, version' \in [Kinds -> Nat],
         {"owner"} \cap listeners' = {"owner"} \cap listeners, {"store"} \cap listeners' = {"store"} \cap listeners,
         listeners' = {} => toServer' = {} /\ toClient' = <<>>,
         WireInv(toServer', toClient', Schedule'),
         \A x : OnTheWay(x)' <=> OnTheWay(x),
         Accounted'
  PROVE  OwnerInv'
<1>1. Typed'
  BY DEF OwnerInv, Typed
<1>2. Linked'
  BY DEF OwnerInv, Linked
<1>3. Attached'
  BY DEF OwnerInv, Attached
<1>4. LooseIn(toServer', toClient', inFlight') = LooseIn(toServer, toClient, inFlight)
  BY DEF LooseIn, OnTheWay
<1>5. Counted'
  BY <1>4 DEF OwnerInv, Counted
<1> QED
  BY <1>1, <1>2, <1>3, <1>5 DEF OwnerInv

(* An answer leaves: what the owner is told and what has been taken stay. *)
LEMMA AnswerLeaves ==
  ASSUME OwnerInv, NEW c \in toServer,
         NEW m \in AnswerRec, m.id = c.id,
         m.at <= Schedule, ~Outdated(m, Schedule),
         c.does = "answer" => m.ok /\ m.at = c.at, c.does = "write" => ~m.ok,
         toServer' = toServer \ {c}, toClient' = Append(toClient, m),
         UNCHANGED <<version, feedVars, owner, viewers, writer, inFlight, presses, overtaken>>
  PROVE  OwnerInv'
<1>1. Schedule' = Schedule /\ WireInv(toServer, toClient, Schedule)
  BY DEF Schedule, OwnerInv, Typed
<1>2. /\ WireInv(toServer', toClient', Schedule')
      /\ \A x : UnderWay(x, toServer', toClient') <=> UnderWay(x, toServer, toClient)
      /\ Len(toClient') = Len(toClient) + 1
      /\ \A n \in 1..Len(toClient) : toClient'[n] = toClient[n]
  <2>1. WireInv(toServer \ {c}, Append(toClient, m), Schedule)
    BY <1>1, WireAnswers
  <2>2. \A x : UnderWay(x, toServer \ {c}, Append(toClient, m)) <=> UnderWay(x, toServer, toClient)
    BY <1>1, WireAnswers
  <2>3. Len(Append(toClient, m)) = Len(toClient) + 1
    BY <1>1, WireAnswers
  <2>4. \A n \in 1..Len(toClient) : Append(toClient, m)[n] = toClient[n]
    BY <1>1, WireAnswers
  <2> QED
    BY <1>1, <2>1, <2>2, <2>3, <2>4
<1>3. \A w \in Writers : \A a : TakenIn(w, a, toServer', toClient') <=> TakenIn(w, a, toServer, toClient)
  BY <1>1, TakenAnswers
<1>4. \A n \in 1..Len(toClient) : EventIn(toClient, n) => n \in 1..Len(toClient') /\ EventIn(toClient', n)
  BY <1>1, <1>2, LenProperties DEF EventIn, WireInv
<1>5. Told => Told'
  BY <1>4 DEF Told, feedVars
<1>6. Accounted'
  BY <1>1, <1>3, <1>5 DEF OwnerInv, Accounted, WillBeCurrent, WillSay, NoneTaken, Sent, Typed, WireInv
<1>7. listeners' = {} => toServer' = {} /\ toClient' = <<>>
  BY DEF OwnerInv, Attached, feedVars
<1> QED
  BY <1>1, <1>2, <1>6, <1>7, ServedKeeps DEF OwnerInv, Typed, OnTheWay, feedVars

LEMMA AnswersReadKeeps ==
  ASSUME OwnerInv, NEW c \in toServer, AnswersRead(c)
  PROVE  OwnerInv'
<1> USE DEF AnswersRead
<1>1. c.id \in Ids /\ c.does = "read" /\ Schedule \in Nat
  BY DEF OwnerInv, Typed, WireInv, Command
<1>2. PICK m \in AnswerRec :
        /\ m.id = c.id /\ m.at <= Schedule /\ ~Outdated(m, Schedule)
        /\ c.does # "answer" /\ c.does # "write"
        /\ toClient' = Append(toClient, m)
  <2> DEFINE good == [id |-> c.id, ok |-> TRUE, at |-> Schedule]
             bad  == [id |-> c.id, ok |-> FALSE, at |-> 0]
  <2>1. good \in AnswerRec
        /\ bad \in AnswerRec
    BY <1>1 DEF AnswerRec
  <2>2. toClient' = Append(toClient, good) \/ toClient' = Append(toClient, bad)
    BY DEF Schedule
  <2>3. good.id = c.id /\ good.at <= Schedule /\ ~Outdated(good, Schedule)
        /\ bad.id = c.id /\ bad.at <= Schedule /\ ~Outdated(bad, Schedule)
    BY <1>1 DEF Outdated
  <2> HIDE DEF good, bad
  <2> QED
    BY <1>1, <2>1, <2>2, <2>3
<1> QED
  BY <1>1, <1>2, AnswerLeaves

LEMMA AnswersWriteKeeps ==
  ASSUME OwnerInv, NEW c \in toServer, AnswersWrite(c)
  PROVE  OwnerInv'
<1> USE DEF AnswersWrite
<1>1. /\ c.id \in Writers /\ c.id \notin Ids /\ Schedule \in Nat
      /\ c.does \in {"write", "answer"}
      /\ c.does = "answer" => c.at \in Nat /\ c.at <= Schedule
  BY NamesAssumption DEF OwnerInv, Typed, WireInv, Command, NoneAhead
<1>2. PICK m \in AnswerRec :
        /\ m.id = c.id /\ m.at <= Schedule /\ ~Outdated(m, Schedule)
        /\ c.does = "answer" => m.ok /\ m.at = c.at
        /\ c.does = "write" => ~m.ok
        /\ toClient' = Append(toClient, m)
  <2> DEFINE good == [id |-> c.id, ok |-> TRUE, at |-> c.at]
             bad  == [id |-> c.id, ok |-> FALSE, at |-> 0]
  <2>1. CASE c.does = "answer"
    <3>1. good \in AnswerRec
      BY <1>1, <2>1 DEF AnswerRec
    <3>2. toClient' = Append(toClient, good)
      BY <2>1
    <3>3. good.id = c.id /\ good.at = c.at /\ good.ok
      OBVIOUS
    <3> HIDE DEF good
    <3> QED
      BY <1>1, <2>1, <3>1, <3>2, <3>3 DEF Outdated
  <2>2. CASE c.does = "write"
    <3>1. bad \in AnswerRec
      BY <1>1 DEF AnswerRec
    <3>2. toClient' = Append(toClient, bad)
      BY <2>2
    <3>3. bad.id = c.id /\ bad.at = 0 /\ ~bad.ok
      OBVIOUS
    <3> HIDE DEF bad
    <3> QED
      BY <1>1, <2>2, <3>1, <3>2, <3>3 DEF Outdated
  <2> QED
    BY <1>1, <2>1, <2>2
<1> QED
  BY <1>1, <1>2, AnswerLeaves

(* A write is applied, or the document changes: the news is on its way. *)
LEMMA AppliesWriteKeeps ==
  ASSUME OwnerInv, NEW c \in toServer, AppliesWrite(c)
  PROVE  OwnerInv'
<1> USE DEF AppliesWrite, ownerVars, feedVars
<1>1. WireInv(toServer, toClient, Schedule) /\ version \in [Kinds -> Nat] /\ c.does = "write"
  BY DEF OwnerInv, Typed
<1>2. listeners # {} /\ toClient' = Append(toClient, Event("schedule"))
  BY DEF OwnerInv, Attached, Announced
<1>3. Schedule' = Schedule + 1 /\ version' \in [Kinds -> Nat] /\ Schedule = version["schedule"]
  BY <1>1, ScheduleAssumption DEF Schedule
<1>4. /\ WireInv(toServer', toClient', Schedule')
      /\ \A x : UnderWay(x, toServer', toClient') <=> UnderWay(x, toServer, toClient)
      /\ EventIn(toClient', Len(toClient')) /\ Len(toClient') \in Nat /\ Len(toClient') >= 1
  <2> DEFINE d    == [id |-> c.id, does |-> "answer", at |-> Schedule + 1]
             left == (toServer \ {c}) \cup {d}
             new  == Append(toClient, Event("schedule"))
  <2>1. /\ WireInv(left, new, Schedule + 1)
        /\ \A x : UnderWay(x, left, new) <=> UnderWay(x, toServer, toClient)
        /\ EventIn(new, Len(new)) /\ Len(new) \in Nat /\ Len(new) >= 1
    BY <1>1, WireApplies
  <2>2. toServer' = left /\ toClient' = new
    BY <1>2, <1>3
  <2> QED
    BY <1>3, <2>1, <2>2
<1>5. Accounted'
  BY <1>4 DEF Accounted, WillBeCurrent, Told
<1> QED
  BY <1>2, <1>3, <1>4, <1>5, ServedKeeps DEF OwnerInv, Typed, OnTheWay

LEMMA DocumentChangesKeeps ==
  ASSUME OwnerInv, DocumentChanges
  PROVE  OwnerInv'
<1> USE DEF DocumentChanges, ServerChanges, ownerVars, feedVars
<1>1. WireInv(toServer, toClient, Schedule) /\ version \in [Kinds -> Nat]
  BY DEF OwnerInv, Typed
<1>2. Schedule' = Schedule + 1 /\ version' \in [Kinds -> Nat]
  BY <1>1, ScheduleAssumption DEF Schedule
<1>3. CASE listeners = {}
  <2>1. toServer' = {} /\ toClient' = <<>> /\ toServer = {} /\ toClient = <<>> /\ viewers = {}
    BY <1>3 DEF OwnerInv, Attached, Announced
  <2>2. WireInv(toServer', toClient', Schedule')
    <3>1. Schedule' \in Nat /\ Len(<<>>) = 0 /\ <<>> \in Seq(Message)
      BY <1>1, <1>2, EmptySeq DEF WireInv
    <3>2. 1..Len(<<>>) = {}
      BY <3>1
    <3>3. OneEach({}, <<>>) /\ TellsBehind(<<>>, Schedule') /\ NoneAhead({}, <<>>, Schedule')
      BY <3>2 DEF OneEach, TellsBehind, NoneAhead
    <3> QED
      BY <2>1, <3>1, <3>3 DEF WireInv
  <2>3. Accounted'
    BY <2>1 DEF Accounted
  <2> QED
    BY <1>2, <2>1, <2>2, <2>3, ServedKeeps DEF OwnerInv, Typed, OnTheWay
<1>4. CASE listeners # {}
  <2>1. toClient' = Append(toClient, Event("schedule")) /\ toServer' = toServer
    BY <1>4 DEF Announced
  <2>2. /\ WireInv(toServer', toClient', Schedule')
        /\ \A x : UnderWay(x, toServer', toClient') <=> UnderWay(x, toServer, toClient)
        /\ EventIn(toClient', Len(toClient')) /\ Len(toClient') = Len(toClient) + 1
    <3> DEFINE new == Append(toClient, Event("schedule"))
    <3>1. /\ WireInv(toServer, new, Schedule + 1)
          /\ \A x : UnderWay(x, toServer, new) <=> UnderWay(x, toServer, toClient)
          /\ EventIn(new, Len(new)) /\ Len(new) = Len(toClient) + 1
      BY <1>1, WireTells
    <3> QED
      BY <1>2, <2>1, <3>1
  <2>3. Len(toClient') \in 1..Len(toClient')
    BY <2>2 DEF EventIn
  <2>4. Accounted'
    BY <2>2, <2>3 DEF Accounted, WillBeCurrent, Told
  <2> QED
    BY <1>2, <1>4, <2>2, <2>4, ServedKeeps DEF OwnerInv, Typed, OnTheWay
<1> QED
  BY <1>3, <1>4

LEMMA TabStepsKeep ==
  ASSUME OwnerInv, TabSteps
  PROVE  OwnerInv'
BY DEF TabSteps, TabHides, TabShows, wireVars, ownerVars, OwnerInv, Typed, Linked, Attached, Counted,
   Accounted, Schedule, OnTheWay, WillBeCurrent, WillSay, Told, NoneTaken, Sent

(* ------------------------ the answers arrive ------------------------ *)

LEMMA AnswerArrives ==
  ASSUME OwnerInv, NEW x, Answer(x)
  PROVE  /\ Head(toClient) \in AnswerRec /\ Head(toClient).id = x /\ x \in Ids \cup Writers
         /\ Head(toClient).at <= Schedule /\ toClient' = Tail(toClient) /\ OnTheWay(x)
         /\ WireInv(toServer, Tail(toClient), Schedule)
         /\ \A y : UnderWay(y, toServer, Tail(toClient)) <=> OnTheWay(y) /\ y # x
         /\ \A n \in 1..Len(toClient) : EventIn(toClient, n)
              => \E q \in 1..Len(Tail(toClient)) : EventIn(Tail(toClient), q)
         /\ Outdated(Head(toClient), Schedule)
              => \E q \in 1..Len(Tail(toClient)) : EventIn(Tail(toClient), q)
         /\ listeners # {}
<1> USE DEF Answer
<1> DEFINE new == Tail(toClient)
<1>1. WireInv(toServer, toClient, Schedule) /\ toClient # <<>> /\ ~IsEvent(Head(toClient))
  BY DEF OwnerInv, Typed
<1>2. /\ WireInv(toServer, new, Schedule)
      /\ Head(toClient) = toClient[1] /\ Head(toClient) \in Message
      /\ Len(new) = Len(toClient) - 1 /\ Len(toClient) \in Nat /\ 1 \in 1..Len(toClient)
  BY <1>1, WireDelivers
<1>3. \A n \in 1..Len(new) : new[n] = toClient[n + 1]
  BY <1>1, WireDelivers
<1>4. /\ \A y : UnderWay(y, toServer, new) <=> UnderWay(y, toServer, toClient) /\ y # Head(toClient).id
      /\ UnderWay(Head(toClient).id, toServer, toClient)
  BY <1>1, WireDelivers
<1>5. Head(toClient) \in AnswerRec /\ x \in Ids \cup Writers
  BY <1>1, <1>2, MessageKinds DEF AnswerRec
<1>6. AnswerIn(toClient, 1)
  BY <1>1, <1>2 DEF AnswerIn
<1>7. Head(toClient).at <= Schedule
  BY <1>1, <1>2, <1>6 DEF WireInv, NoneAhead
<1>8. listeners # {}
  BY <1>1 DEF OwnerInv, Attached
<1> HIDE DEF new
<1>9. ASSUME NEW n \in 1..Len(toClient), EventIn(toClient, n)
      PROVE  \E q \in 1..Len(new) : EventIn(new, q)
  <2>1. n # 1
    BY <1>6, <1>9 DEF EventIn, AnswerIn
  <2>2. n - 1 \in 1..Len(new) /\ (n - 1) + 1 = n
    BY <1>2, <2>1
  <2>3. EventIn(new, n - 1)
    BY <1>3, <1>9, <2>2 DEF EventIn
  <2> QED
    BY <2>2, <2>3
<1>10. ASSUME Outdated(Head(toClient), Schedule) PROVE \E q \in 1..Len(new) : EventIn(new, q)
  <2>1. PICK n \in (1 + 1)..Len(toClient) : EventIn(toClient, n)
    BY <1>1, <1>2, <1>6, <1>10 DEF WireInv, TellsBehind
  <2>2. n \in 1..Len(toClient)
    BY <1>2, <2>1
  <2> QED
    BY <1>9, <2>1, <2>2
<1> QED
  BY <1>2, <1>4, <1>5, <1>7, <1>8, <1>9, <1>10 DEF new, OnTheWay

(* What a settled promise does to the writes that wait for it. *)
LEMMA FreedKeeps ==
  ASSUME Typed, NEW x, NEW from \in {"awaitMutation", "awaitRead"}, NEW to \in {"afterMutation", "afterRead"}
  PROVE  /\ Freed(from, x, to) \in [Writers -> WriterRec]
         /\ \A u \in Writers :
              /\ Freed(from, x, to)[u].at = "idle" <=> writer[u].at = "idle"
              /\ Freed(from, x, to)[u].at = "sent" <=> writer[u].at = "sent"
              /\ Freed(from, x, to)[u].at = "orphan" <=> writer[u].at = "orphan"
BY DEF Freed, Typed, WriterRec

LEMMA ReadSettlesKeeps ==
  ASSUME OwnerInv, NEW i \in Ids, ReadSettles(i)
  PROVE  OwnerInv'
<1> USE DEF ReadSettles
<1> DEFINE m == Head(toClient)
           entry == IF inFlight = i THEN None ELSE inFlight
           settled == [owner EXCEPT !.busy = "no", !.read = None]
           o == IF owner.read # i THEN owner
                ELSE IF m.ok THEN Commit(settled, m.at)
                ELSE [settled EXCEPT !.error = TRUE, !.stale = (owner.shown # None)]
<1>1. /\ m \in AnswerRec /\ m.id = i /\ m.at <= Schedule /\ toClient' = Tail(toClient)
      /\ WireInv(toServer, toClient', Schedule)
      /\ \A y : UnderWay(y, toServer, toClient') <=> OnTheWay(y) /\ y # i
      /\ \A n \in 1..Len(toClient) : EventIn(toClient, n)
           => \E q \in 1..Len(toClient') : EventIn(toClient', q)
      /\ Outdated(m, Schedule) => \E q \in 1..Len(toClient') : EventIn(toClient', q)
      /\ listeners # {}
  <2>1. Answer(i)
    OBVIOUS
  <2>2. toClient' = Tail(toClient)
    BY <2>1, AnswerArrives
  <2> QED
    BY <2>1, <2>2, AnswerArrives
<1>2. /\ o \in OwnerRec /\ o.mutation = owner.mutation /\ o.owed = owner.owed
      /\ owner.read # i => o = owner
      /\ owner.read = i => /\ o.read = None
                           /\ m.ok => o.shown = m.at
                           /\ ~m.ok => o.shown = owner.shown /\ o.error
  BY <1>1 DEF OwnerInv, Typed, OwnerRec, AnswerRec, Commit
<1>3. Becomes(o, entry, {}, {}) /\ (o.read = None \/ o.read = owner.read)
  BY <1>2
<1>4. m.ok \in BOOLEAN /\ m.at \in Nat
  BY <1>1 DEF AnswerRec
<1>5. Outdated(m, Schedule) <=> m.ok /\ m.at # Schedule
  BY <1>1 DEF Outdated
<1>6. /\ writer' \in [Writers -> WriterRec]
      /\ \A u \in Writers : /\ writer'[u].at = "idle" <=> writer[u].at = "idle"
                            /\ writer'[u].at = "sent" <=> writer[u].at = "sent"
                            /\ writer'[u].at = "orphan" <=> writer[u].at = "orphan"
  BY FreedKeeps DEF OwnerInv
<1>7. overtaken' = (overtaken \/ (owner.read = i /\ ~m.ok /\ \E w \in Writers : Sent(w)))
  BY DEF Sent
<1>8. IsEvent(Head(toClient)) \/ \A w \in Writers : Head(toClient).id # w
  BY <1>1, NamesAssumption
<1>9. toClient # <<>> /\ Schedule' = Schedule /\ UNCHANGED <<version, feedVars, viewers, presses>>
  BY DEF Answer, Schedule
<1> HIDE DEF o, m, ReadSettles
<1>10. owner' = o /\ inFlight' = entry /\ toServer' = toServer
  BY <1>3 DEF Becomes
<1>11. \A x : OnTheWay(x)' <=> OnTheWay(x) /\ x # i
  BY <1>1, <1>10 DEF OnTheWay
<1>12. Typed'
  BY <1>1, <1>2, <1>6, <1>7, <1>9, <1>10 DEF OwnerInv, Typed, feedVars
<1>13. Linked'
  <2>1. (inFlight # None => OnTheWay(inFlight))' /\ (owner.read # None => OnTheWay(owner.read))'
    BY <1>2, <1>10, <1>11 DEF OwnerInv, Linked
  <2>2. (\A w \in Writers : writer[w].at \in {"sent", "orphan"} <=> OnTheWay(w))'
    BY <1>6, <1>11, NamesAssumption DEF OwnerInv, Linked
  <2>3. (owner.mutation # None => writer[owner.mutation].at = "sent")' /\ (owner.owed => owner.mutation # None)'
    BY <1>2, <1>6, <1>10 DEF OwnerInv, Linked, Typed, OwnerRec
  <2> QED
    BY <2>1, <2>2, <2>3 DEF Linked
<1>14. Attached'
  <2>1. viewers = {} => o = owner
    BY <1>2, NamesAssumption DEF OwnerInv, Attached, NewOwner
  <2> QED
    BY <1>1, <1>6, <1>9, <1>10, <2>1 DEF OwnerInv, Attached, feedVars
<1>15. Counted'
  <2>1. LooseIn(toServer', toClient', inFlight') \subseteq LooseIn(toServer, toClient, inFlight)
    BY <1>10, <1>11 DEF LooseIn, OnTheWay
  <2>2. PressedIn(writer') = PressedIn(writer)
    BY <1>6 DEF PressedIn
  <2>3. Cardinality(LooseIn(toServer', toClient', inFlight'))
          <= Cardinality(LooseIn(toServer, toClient, inFlight))
    BY <2>1, CountsAreNumbers, FS_Subset
  <2> QED
    BY <1>9, <2>2, <2>3, CountsAreNumbers, NamesAssumption DEF OwnerInv, Counted, Typed
<1>16. \A w \in Writers : \A a : TakenIn(w, a, toServer', toClient') <=> TakenIn(w, a, toServer, toClient)
  <2>1. WireInv(toServer, toClient, Schedule) /\ toClient' = Tail(toClient)
    BY <1>1 DEF OwnerInv, Typed
  <2> QED
    BY <1>8, <1>9, <1>10, <2>1, TakenDelivers
<1>17. Accounted'
  <2> SUFFICES ASSUME viewers # {}, ~overtaken' PROVE WillBeCurrent' \/ WillSay'
    BY <1>9 DEF Accounted
  <2>1. WillBeCurrent \/ WillSay
    BY <1>7 DEF OwnerInv, Accounted
  <2>2. \A w \in Writers : Sent(w)' <=> Sent(w)
    BY <1>6 DEF Sent
  <2>3. NoneTaken => NoneTaken'
    BY <1>16, <2>2 DEF NoneTaken
  <2>4. CASE owner.read # i
    <3>1. o = owner
      BY <1>2, <2>4
    <3>2. Told => Told'
      BY <1>1, <1>9, <1>10, <3>1 DEF Told, feedVars
    <3>3. WillBeCurrent => WillBeCurrent'
      BY <1>9, <1>10, <1>16, <2>2, <3>1, <3>2 DEF WillBeCurrent
    <3>4. WillSay => WillSay'
      BY <1>10, <2>2, <2>3, <3>1 DEF WillSay
    <3> QED
      BY <2>1, <3>3, <3>4
  <2>5. CASE owner.read = i /\ m.ok
    BY <1>1, <1>2, <1>5, <1>9, <1>10, <2>5 DEF WillBeCurrent, Told
  <2>6. CASE owner.read = i /\ ~m.ok
    <3>1. \A w \in Writers : ~Sent(w)
      BY <1>7, <2>6
    <3>2. NoneTaken' /\ owner'.error
      BY <1>2, <1>10, <2>2, <2>6, <3>1 DEF NoneTaken
    <3> QED
      BY <3>2 DEF WillSay
  <2> QED
    BY <1>4, <2>4, <2>5, <2>6
<1> QED
  BY <1>12, <1>13, <1>14, <1>15, <1>17 DEF OwnerInv

LEMMA MutationSettlesKeeps ==
  ASSUME OwnerInv, NEW w \in Writers, MutationSettles(w)
  PROVE  OwnerInv'
<1> USE DEF MutationSettles
<1> DEFINE m == Head(toClient)
           committed == IF m.ok THEN Commit(owner, m.at) ELSE [owner EXCEPT !.error = TRUE]
           done == [committed EXCEPT !.flags = @ \ {w},
                                     !.mutation = IF @ = w THEN None ELSE @,
                                     !.owed = FALSE]
           freed == Freed("awaitMutation", w, "afterMutation")
<1>1. /\ m \in AnswerRec /\ m.id = w /\ m.at <= Schedule /\ toClient' = Tail(toClient)
      /\ WireInv(toServer, toClient', Schedule)
      /\ \A y : UnderWay(y, toServer, toClient') <=> OnTheWay(y) /\ y # w
      /\ \A n \in 1..Len(toClient) : EventIn(toClient, n)
           => \E q \in 1..Len(toClient') : EventIn(toClient', q)
      /\ OnTheWay(w) /\ listeners # {}
  <2>1. Answer(w)
    OBVIOUS
  <2>2. toClient' = Tail(toClient)
    BY <2>1, AnswerArrives
  <2> QED
    BY <2>1, <2>2, AnswerArrives
<1>2. m.ok \in BOOLEAN /\ m.at \in Nat
  BY <1>1 DEF AnswerRec
<1>3. committed \in OwnerRec /\ committed.read = owner.read /\ committed.mutation = owner.mutation
      /\ (m.ok => committed.shown = m.at) /\ (~m.ok => committed.shown = owner.shown /\ committed.error)
  BY <1>2 DEF OwnerInv, Typed, OwnerRec, Commit
<1> HIDE DEF committed
<1>4. /\ done \in OwnerRec /\ done.read = owner.read /\ done.owed = FALSE
      /\ done.mutation = IF owner.mutation = w THEN None ELSE owner.mutation
      /\ done.shown = committed.shown /\ done.error = committed.error
  BY <1>3 DEF OwnerRec
<1>5. Becomes(IF writer[w].at = "orphan" THEN owner
              ELSE IF owner.owed THEN RefreshSchedule(done, None) ELSE done,
              None, {}, {})
  BY DEF committed
<1>6. /\ freed \in [Writers -> WriterRec]
      /\ \A u \in Writers : /\ freed[u].at = "idle" <=> writer[u].at = "idle"
                            /\ freed[u].at = "sent" <=> writer[u].at = "sent"
                            /\ freed[u].at = "orphan" <=> writer[u].at = "orphan"
  BY FreedKeeps DEF OwnerInv
<1>7. writer' = [freed EXCEPT ![w] = Idle]
  OBVIOUS
<1> HIDE DEF freed, done
<1>8. /\ writer' \in [Writers -> WriterRec] /\ writer'[w].at = "idle"
      /\ \A u \in Writers : u # w =>
           /\ writer'[u].at = "idle" <=> writer[u].at = "idle"
           /\ writer'[u].at = "sent" <=> writer[u].at = "sent"
           /\ writer'[u].at = "orphan" <=> writer[u].at = "orphan"
  <2>1. Idle \in WriterRec /\ Idle.at = "idle"
    BY DEF Idle, WriterRec
  <2>2. \A u \in Writers : writer'[u] = IF u = w THEN Idle ELSE freed[u]
    BY <1>6, <1>7
  <2>3. writer' \in [Writers -> WriterRec]
    BY <1>6, <1>7, <2>1
  <2> QED
    BY <1>6, <2>1, <2>2, <2>3
<1>9. writer[w].at \in {"sent", "orphan"}
  BY <1>1 DEF OwnerInv, Linked
<1>10. overtaken' = (overtaken \/ (Sent(w) /\ m.ok /\ owner.shown # None /\ m.at < owner.shown))
  BY DEF Sent
<1>11. toClient # <<>> /\ ~IsEvent(m) /\ Schedule' = Schedule /\ UNCHANGED <<version, feedVars, viewers, presses>>
  BY DEF Answer, Schedule
<1> HIDE DEF m, MutationSettles
(* What it leaves behind it: the owner, and perhaps a new read. *)
<1>12. /\ owner' \in OwnerRec
       /\ writer[w].at = "orphan" => owner' = owner
       /\ writer[w].at = "sent" =>
            /\ owner'.shown = done.shown /\ owner'.mutation = done.mutation /\ ~owner'.owed
            /\ owner.owed => owner'.read # None
            /\ ~owner.owed => owner' = done
       /\ \/ /\ toServer' = toServer /\ inFlight' = None
             /\ owner'.read = owner.read \/ (owner'.read = inFlight /\ inFlight # None)
          \/ \E i \in Ids : /\ ~OnTheWay(i) /\ toServer' = toServer \cup {ReadCommand(i)}
                            /\ inFlight' = i /\ owner'.read = i
  <2>1. CASE writer[w].at = "orphan"
    <3>1. owner' = owner /\ inFlight' = None /\ toServer' = toServer
      BY <1>5, <2>1, BecomesAsBefore
    <3> QED
      BY <2>1, <3>1 DEF OwnerInv, Typed
  <2>2. CASE writer[w].at = "sent" /\ ~owner.owed
    <3>1. owner' = done /\ inFlight' = None /\ toServer' = toServer
      BY <1>4, <1>5, <2>2, BecomesAsBefore
    <3> QED
      BY <1>4, <2>2, <3>1
  <2>3. CASE writer[w].at = "sent" /\ owner.owed
    <3>1. Becomes(RefreshSchedule(done, None), None, {}, {})
      BY <1>5, <2>3
    <3>2. /\ owner' \in OwnerRec /\ owner'.read # None
          /\ owner'.shown = done.shown /\ owner'.mutation = done.mutation /\ owner'.owed = done.owed
          /\ \/ /\ toServer' = toServer /\ inFlight' = None
                /\ owner'.read = owner.read \/ owner'.read = inFlight
             \/ \E i \in Ids : /\ ~OnTheWay(i) /\ i # inFlight
                               /\ toServer' = toServer \cup {ReadCommand(i)}
                               /\ inFlight' = i /\ owner'.read = i
      BY <1>4, <3>1, BecomesReading DEF OwnerInv
    <3> QED
      BY <1>4, <2>3, <3>2
  <2> QED
    BY <1>9, <2>1, <2>2, <2>3
<1>13. /\ WireInv(toServer', toClient', Schedule')
       /\ \A x : OnTheWay(x)' => (OnTheWay(x) /\ x # w) \/ (x \in Ids /\ x = inFlight')
       /\ \A x : OnTheWay(x) /\ x # w => OnTheWay(x)'
       /\ inFlight' \in Ids => UnderWay(inFlight', toServer', toClient') /\ owner'.read = inFlight'
       /\ inFlight' \in Ids \cup {None}
       /\ \A u, a : TakenIn(u, a, toServer', toClient') <=> TakenIn(u, a, toServer, toClient')
  <2>1. CASE toServer' = toServer /\ inFlight' = None
    BY <1>1, <1>11, <2>1, NamesAssumption DEF OnTheWay
  <2>2. ASSUME NEW i \in Ids, ~OnTheWay(i), toServer' = toServer \cup {ReadCommand(i)},
               inFlight' = i, owner'.read = i
        PROVE  <1>13!1 /\ <1>13!2 /\ <1>13!3 /\ <1>13!4 /\ <1>13!5 /\ <1>13!6
    <3>1. \A x : UnderWay(x, toServer, toClient') => OnTheWay(x)
      BY <1>1
    <3>2. /\ WireInv(toServer', toClient', Schedule)
          /\ \A x : UnderWay(x, toServer', toClient') <=> UnderWay(x, toServer, toClient') \/ x = i
      BY <1>1, <2>2, <3>1, ReadCommandJoins DEF OwnerInv
    <3>3. \A u, a : TakenIn(u, a, toServer', toClient') <=> TakenIn(u, a, toServer, toClient')
      BY <1>1, <2>2, <3>1, ReadCommandJoins DEF OwnerInv
    <3> QED
      BY <1>1, <1>11, <2>2, <3>2, <3>3 DEF OnTheWay
  <2> QED
    BY <1>12, <2>1, <2>2
<1>14. Typed'
  BY <1>8, <1>10, <1>11, <1>12, <1>13 DEF OwnerInv, Typed, feedVars
<1>15. w \notin Ids /\ w # None /\ None \notin Ids
  BY NamesAssumption
<1>16. Linked'
  <2>1. (inFlight # None => OnTheWay(inFlight))'
    BY <1>13 DEF OnTheWay
  <2>2. (owner.read # None => OnTheWay(owner.read))'
    <3>1. CASE owner'.read = inFlight' /\ inFlight' \in Ids
      BY <1>13, <3>1 DEF OnTheWay
    <3>2. CASE owner'.read = owner.read \/ (owner'.read = inFlight /\ inFlight # None)
      BY <1>13, <1>15, <3>2 DEF OwnerInv, Linked, Typed, OwnerRec
    <3> QED
      BY <1>12, <3>1, <3>2
  <2>3. ASSUME NEW u \in Writers PROVE (writer[u].at \in {"sent", "orphan"} <=> OnTheWay(u))'
    BY <1>8, <1>13, NamesAssumption DEF OwnerInv, Linked
  <2>4. (owner.mutation # None => writer[owner.mutation].at = "sent")'
    <3>1. CASE writer[w].at = "orphan"
      <4>1. owner.mutation # w
        BY <3>1, <1>15 DEF OwnerInv, Linked
      <4> QED
        BY <1>8, <1>12, <3>1, <4>1 DEF OwnerInv, Linked, Typed, OwnerRec
    <3>2. CASE writer[w].at = "sent"
      BY <1>4, <1>8, <1>12, <3>2 DEF OwnerInv, Linked, Typed, OwnerRec
    <3> QED
      BY <1>9, <3>1, <3>2
  <2>5. (owner.owed => owner.mutation # None)'
    BY <1>9, <1>12 DEF OwnerInv, Linked
  <2> QED
    BY <2>1, <2>2, <2>3, <2>4, <2>5 DEF Linked
<1>17. Attached'
  <2>1. viewers = {} => owner' = owner
    BY <1>9, <1>12 DEF OwnerInv, Attached
  <2> QED
    BY <1>1, <1>8, <1>11, <2>1 DEF OwnerInv, Attached, feedVars
<1>18. Counted'
  <2> DEFINE loose == LooseIn(toServer, toClient, inFlight)
             looser == LooseIn(toServer', toClient', inFlight')
             pressed == PressedIn(writer)
  <2>1. looser \subseteq loose \cup {inFlight}
    BY <1>13 DEF LooseIn, OnTheWay
  <2>2. PressedIn(writer') = pressed \ {w} /\ w \in pressed
    BY <1>8, <1>9 DEF PressedIn
  <2>3. /\ IsFiniteSet(loose) /\ Cardinality(loose) \in Nat /\ Cardinality(looser) \in Nat
        /\ IsFiniteSet(pressed) /\ Cardinality(pressed) \in Nat
    BY CountsAreNumbers
  <2> HIDE DEF loose, looser, pressed
  <2>4. IsFiniteSet(loose \cup {inFlight}) /\ Cardinality(loose \cup {inFlight}) \in {Cardinality(loose), Cardinality(loose) + 1}
    BY <2>3, FS_AddElement
  <2>5. Cardinality(looser) <= Cardinality(loose \cup {inFlight})
    BY <2>1, <2>4, FS_Subset
  <2>6. Cardinality(pressed \ {w}) = Cardinality(pressed) - 1
    BY <2>2, <2>3, FS_RemoveElement
  <2>7. Cardinality(loose) + Cardinality(pressed) <= presses /\ presses <= MaxWrites /\ presses \in Nat
    BY DEF OwnerInv, Counted, Typed, loose, pressed
  <2>8. Cardinality(looser) + Cardinality(pressed \ {w}) <= presses
    BY <2>3, <2>4, <2>5, <2>6, <2>7
  <2> QED
    BY <1>11, <2>2, <2>7, <2>8 DEF Counted, looser
<1>19. \A u \in Writers : \A a : u # w => (TakenIn(u, a, toServer', toClient') <=> TakenIn(u, a, toServer, toClient))
  <2>1. WireInv(toServer, toClient, Schedule) /\ toClient' = Tail(toClient) /\ Head(toClient).id = w
    BY <1>1 DEF OwnerInv, Typed, m
  <2> QED
    BY <1>11, <1>13, <2>1, TakenDelivers
<1>20. m.ok => TakenIn(w, m.at, toServer, toClient)
  <2>1. toClient[1] = m /\ 1 \in 1..Len(toClient)
    BY <1>11, WireDelivers DEF OwnerInv, Typed, m
  <2>2. AnswerIn(toClient, 1)
    BY <1>11, <2>1 DEF AnswerIn
  <2> QED
    BY <1>1, <2>1, <2>2 DEF TakenIn
<1>21. \A a : TakenIn(w, a, toServer, toClient) => m.ok /\ a = m.at
  <2>1. toClient[1] = m /\ 1 \in 1..Len(toClient) /\ WireInv(toServer, toClient, Schedule)
    BY <1>11, WireDelivers DEF OwnerInv, Typed, m
  <2>2. AnswerIn(toClient, 1)
    BY <1>11, <2>1 DEF AnswerIn
  <2> QED
    BY <1>1, <2>1, <2>2 DEF TakenIn, WireInv, OneEach
<1>22. Accounted'
  <2> SUFFICES ASSUME viewers # {}, ~overtaken' PROVE WillBeCurrent' \/ WillSay'
    BY <1>11 DEF Accounted
  <2>1. WillBeCurrent \/ WillSay
    BY <1>10 DEF OwnerInv, Accounted
  <2>2. \A u \in Writers : u # w => (Sent(u)' <=> Sent(u))
    BY <1>8 DEF Sent
  <2>3. ~Sent(w)'
    BY <1>8 DEF Sent
  <2>4. NoneTaken => NoneTaken'
    BY <1>19, <2>2, <2>3 DEF NoneTaken
  <2>5. pending' = pending /\ \A n \in 1..Len(toClient) : EventIn(toClient, n) => Told'
    BY <1>1, <1>11 DEF Told, feedVars
  <2>6. ASSUME NEW u \in Writers, Sent(u), TakenIn(u, Schedule, toServer, toClient), u # w
        PROVE  WillBeCurrent'
    BY <1>11, <1>19, <2>2, <2>6 DEF WillBeCurrent
  <2>7. CASE writer[w].at = "orphan"
    <3>1. owner' = owner /\ ~Sent(w)
      BY <1>12, <2>7 DEF Sent
    <3>2. WillBeCurrent => WillBeCurrent'
      BY <1>11, <2>5, <2>6, <3>1 DEF WillBeCurrent, Told
    <3>3. WillSay => WillSay'
      BY <2>2, <2>4, <3>1 DEF WillSay
    <3> QED
      BY <2>1, <3>2, <3>3
  <2>8. CASE Sent(w) /\ (owner.owed \/ owner.read # None)
    <3>1. owner'.read # None
      BY <1>4, <1>12, <2>8 DEF Sent
    <3> QED
      BY <3>1 DEF WillBeCurrent
  <2>9. CASE Sent(w) /\ ~owner.owed /\ owner.read = None
    <3>1. owner' = done
      BY <1>12, <2>9 DEF Sent
    <3>2. CASE pending # {} \/ \E n \in 1..Len(toClient) : EventIn(toClient, n)
      BY <2>5, <3>2 DEF WillBeCurrent, Told
    <3>3. CASE \E u \in Writers : Sent(u) /\ TakenIn(u, Schedule, toServer, toClient) /\ u # w
      BY <2>6, <3>3
    <3>4. CASE TakenIn(w, Schedule, toServer, toClient)
      <4>1. m.ok /\ m.at = Schedule
        BY <1>21, <3>4
      <4> QED
        BY <1>3, <1>4, <1>11, <3>1, <4>1 DEF WillBeCurrent
    <3>5. CASE owner.shown = Schedule /\ m.ok
      <4>1. m.at = Schedule
        <5>1. Schedule \in Nat /\ Schedule # None
          BY NamesAssumption DEF OwnerInv, Typed, WireInv
        <5>2. ~(Sent(w) /\ m.ok /\ owner.shown # None /\ m.at < owner.shown)
          BY <1>10
        <5>3. ~(m.at < owner.shown)
          BY <2>9, <3>5, <5>1, <5>2
        <5> QED
          BY <1>1, <1>2, <3>5, <5>1, <5>3
      <4> QED
        BY <1>3, <1>4, <1>11, <3>1, <3>5, <4>1 DEF WillBeCurrent
    <3>6. CASE owner.shown = Schedule /\ ~m.ok
      BY <1>3, <1>4, <1>11, <3>1, <3>6 DEF WillBeCurrent
    <3>7. CASE WillSay
      <4>1. ~m.ok
        BY <1>2, <1>20, <2>9, <3>7 DEF WillSay, NoneTaken
      <4> QED
        BY <1>3, <1>4, <2>4, <3>1, <3>7, <4>1 DEF WillSay
    <3>8. WillBeCurrent => \/ owner.shown = Schedule
                           \/ pending # {} \/ \E n \in 1..Len(toClient) : EventIn(toClient, n)
                           \/ \E u \in Writers : Sent(u) /\ TakenIn(u, Schedule, toServer, toClient)
      BY <2>9 DEF WillBeCurrent, Told
    <3> QED
      BY <2>1, <3>2, <3>3, <3>4, <3>5, <3>6, <3>7, <3>8
  <2> QED
    BY <1>9, <2>7, <2>8, <2>9 DEF Sent
<1> QED
  BY <1>14, <1>16, <1>17, <1>18, <1>22 DEF OwnerInv

(* ------------------------ the owner's theorems ------------------------ *)

LEMMA OwnerStarts ==
  ASSUME OwnerInit
  PROVE  OwnerInv
<1> USE DEF OwnerInit, FeedInit
<1>1. toServer = {} /\ toClient = <<>> /\ Len(<<>>) = 0 /\ <<>> \in Seq(Message) /\ Schedule = 0
  BY ScheduleAssumption, EmptySeq DEF Schedule
<1>2. 1..Len(<<>>) = {}
  BY <1>1
<1>3. WireInv(toServer, toClient, Schedule)
  BY <1>1, <1>2 DEF WireInv, OneEach, TellsBehind, NoneAhead
<1>4. Typed
  BY <1>3 DEF Typed, NewOwner, OwnerRec, Idle, WriterRec
<1>5. \A x : ~OnTheWay(x)
  BY <1>1, <1>2 DEF OnTheWay, UnderWay
<1>6. Linked
  BY <1>5 DEF Linked, NewOwner, Idle
<1>7. Attached
  BY DEF Attached, Idle, NewOwner
<1>8. LooseIn(toServer, toClient, inFlight) = {} /\ PressedIn(writer) = {}
  BY <1>5 DEF LooseIn, PressedIn, OnTheWay, Idle
<1>9. Counted
  <2>1. Cardinality({}) = 0 /\ presses = 0 /\ MaxWrites \in Nat
    BY FS_EmptySet, NamesAssumption
  <2>2. Cardinality(LooseIn(toServer, toClient, inFlight)) = 0 /\ Cardinality(PressedIn(writer)) = 0
    BY <1>8, <2>1
  <2> HIDE DEF OwnerInit, FeedInit
  <2> QED
    BY <2>1, <2>2 DEF Counted
<1>10. Accounted
  BY DEF Accounted
<1> QED
  BY <1>4, <1>6, <1>7, <1>9, <1>10 DEF OwnerInv

LEMMA OwnerGoesOn ==
  ASSUME OwnerInv, [OwnerNext]_ownVars
  PROVE  OwnerInv'
<1>1. CASE \E view \in Viewers : Subscribe(view) \/ Unsubscribe(view)
  BY <1>1, SubscribeKeeps, UnsubscribeKeeps
<1>2. CASE \E w \in Writers : TrackMutation(w) \/ Resumes(w)
  BY <1>2, TrackMutationKeeps, ResumesKeeps
<1>3. CASE BoundaryPasses \/ FeedTells
  BY <1>3, BoundaryKeeps, FeedTellsKeeps
<1>4. CASE TabSteps \/ DocumentChanges
  BY <1>4, TabStepsKeep, DocumentChangesKeeps
<1>5. CASE Serves
  BY <1>5, AnswersReadKeeps, AppliesWriteKeeps, AnswersWriteKeeps DEF Serves
<1>6. CASE Receives
  BY <1>6, ReadSettlesKeeps, MutationSettlesKeeps, FeedHearsKeeps DEF Receives
<1>7. CASE UNCHANGED ownVars
  BY <1>7 DEF ownVars, wireVars, feedVars, ownerVars, OwnerInv, Typed, Linked, Attached, Counted, Accounted,
     Schedule, OnTheWay, WillBeCurrent, WillSay, Told, NoneTaken, Sent
<1> QED
  BY <1>1, <1>2, <1>3, <1>4, <1>5, <1>6, <1>7 DEF OwnerNext

LEMMA NothingMissed ==
  ASSUME OwnerInv
  PROVE  CurrentWhenQuiet
<1> SUFFICES ASSUME NothingUnderWay, viewers # {}, ~owner.error, ~overtaken
             PROVE  owner.shown = version["schedule"]
  BY DEF CurrentWhenQuiet
<1>1. \A x : ~OnTheWay(x)
  BY EmptySeq DEF NothingUnderWay, OnTheWay, UnderWay, AnswerIn
<1>2. \A w \in Writers : ~Sent(w)
  BY <1>1 DEF OwnerInv, Linked, Sent
<1>3. owner.read = None
  BY <1>1 DEF OwnerInv, Linked
<1>4. ~owner.owed
  BY <1>2 DEF OwnerInv, Linked, Sent, Typed, OwnerRec
<1>5. \A n \in 1..Len(toClient) : ~EventIn(toClient, n)
  BY EmptySeq DEF NothingUnderWay, EventIn
<1>6. ~Told
  BY <1>4, <1>5 DEF Told, NothingUnderWay
<1> QED
  BY <1>2, <1>3, <1>6 DEF OwnerInv, Accounted, WillBeCurrent, WillSay, Schedule

(* Whatever is lost, refused or out of order on the way, the owner's own promise    *)
(* holds of it alone, with views that come and go (schedule-owner.ts).              *)
THEOREM OwnerIsCurrentWhenQuiet == OwnerSpec => []CurrentWhenQuiet
<1>1. OwnerInit => OwnerInv
  BY OwnerStarts
<1>2. OwnerInv /\ [OwnerNext]_ownVars => OwnerInv'
  BY OwnerGoesOn
<1>3. OwnerInv => CurrentWhenQuiet
  BY NothingMissed
<1> QED
  BY <1>1, <1>2, <1>3, PTL DEF OwnerSpec

(* ------------------------ the day editor's host ------------------------ *)

AttemptRec == [stands : BOOLEAN, draft : 1..MaxEdits]
HostRec == [known : BOOLEAN, pending : {None} \cup [single : BOOLEAN], open : BOOLEAN,
            atOpen : BOOLEAN, changed : BOOLEAN, error : {None} \cup (1..MaxEdits), saving : BOOLEAN]
DialogRec == [up : BOOLEAN, open : BOOLEAN, draft : 0..MaxEdits]
ReopenRec == [draft : 0..MaxEdits, atOpen : BOOLEAN, changed : BOOLEAN,
              error : {None} \cup (1..MaxEdits)]

HostTyped ==
  /\ host \in HostRec /\ dialog \in DialogRec
  /\ reopening \in {None} \cup ReopenRec /\ attempt \in {None} \cup AttemptRec
  /\ edits \in 0..MaxEdits

(* The save is out from its press to the answer. *)
SaveIsOut == writer["_writing"].at # "idle"

(* While a save is out no reason is kept; a reason that is kept is a refusal's, and *)
(* so is one that waits for the dialog to be replaced.                              *)
ReasonsStand ==
  /\ SaveIsOut => /\ attempt \in AttemptRec /\ host.error = None
                  /\ reopening # None => reopening.error = None
  /\ host.error # None => host.error \in refused
  /\ reopening # None /\ reopening.error # None => reopening.error \in refused

HostInv == OwnerInv /\ HostTyped /\ ReasonsStand

LEMMA HostIsOwner ==
  /\ HostInit => OwnerInit
  /\ [HostNext]_hostState => [OwnerNext]_ownVars
<1>1. HostInit => OwnerInit
  BY DEF HostInit
<1>2. ASSUME User PROVE [OwnerNext]_ownVars
  BY <1>2, HostNames DEF User, PressesLane, UserEdits, Cancels, Saves, UnchangedUnderHost, OwnerNext, ownVars
<1>3. ASSUME HostSteps PROVE [OwnerNext]_ownVars
  BY <1>3 DEF HostSteps, PendingIsServed, ReopenFinishes, DialogClosed, HostReadSettles, HostMutationSettles,
     UnchangedUnderHost, OwnerNext, Receives, ownVars
<1>4. ASSUME RosterMoves PROVE [OwnerNext]_ownVars
  BY <1>4 DEF RosterMoves, UnchangedUnderHost, ownVars
<1>5. ASSUME Below PROVE [OwnerNext]_ownVars
  BY <1>5, HostNames DEF Below, OwnerNext, Receives
<1>6. ASSUME UNCHANGED hostState PROVE [OwnerNext]_ownVars
  BY <1>6 DEF hostState, ownVars
<1> QED
  BY <1>1, <1>2, <1>3, <1>4, <1>5, <1>6 DEF HostNext

(* The save moves only at its press and at its answer. *)
LeavesTheSave ==
  \/ \E u \in Writers \ {"_writing"} : TrackMutation(u) \/ MutationSettles(u)
  \/ \E u \in Writers : Resumes(u)
  \/ \E view \in Viewers : Subscribe(view) \/ Unsubscribe(view)
  \/ \E i \in Ids : ReadSettles(i)
  \/ BoundaryPasses \/ FeedTells \/ FeedHears \/ TabSteps \/ DocumentChanges \/ Serves
  \/ UNCHANGED writer

LEMMA SaveStaysOut ==
  ASSUME OwnerInv, LeavesTheSave
  PROVE  SaveIsOut' <=> SaveIsOut
<1>0. writer \in [Writers -> WriterRec] /\ "_writing" \in Writers
  BY HostNames DEF OwnerInv, Typed
<1>1. CASE UNCHANGED writer
  BY <1>1 DEF SaveIsOut
<1>2. ASSUME NEW u \in Writers \ {"_writing"}, TrackMutation(u) PROVE SaveIsOut' <=> SaveIsOut
  <2>1. u # "_writing" /\ \E x \in WriterRec \cup {[at |-> "awaitMutation", on |-> owner.mutation],
           [at |-> "awaitRead", on |-> owner.read]} : writer' = [writer EXCEPT ![u] = x]
    BY <1>2 DEF TrackMutation, Waits, Sends, WriterRec
  <2> QED
    BY <1>0, <2>1 DEF SaveIsOut
<1>3. ASSUME NEW u \in Writers, Resumes(u) PROVE SaveIsOut' <=> SaveIsOut
  <2>1. writer[u].at # "idle" /\ \E x : x.at # "idle" /\ writer' = [writer EXCEPT ![u] = x]
    BY <1>3 DEF Resumes, Waits, Sends
  <2> QED
    BY <1>0, <2>1 DEF SaveIsOut
<1>4. ASSUME NEW view \in Viewers, Unsubscribe(view) PROVE SaveIsOut' <=> SaveIsOut
  BY <1>0, <1>4 DEF Unsubscribe, SaveIsOut
<1>5. ASSUME NEW i \in Ids, ReadSettles(i) PROVE SaveIsOut' <=> SaveIsOut
  BY <1>0, <1>5, FreedKeeps DEF ReadSettles, SaveIsOut, OwnerInv
<1>6. ASSUME NEW u \in Writers \ {"_writing"}, MutationSettles(u) PROVE SaveIsOut' <=> SaveIsOut
  <2> DEFINE freed == Freed("awaitMutation", u, "afterMutation")
  <2>1. writer' = [freed EXCEPT ![u] = Idle] /\ u # "_writing"
    BY <1>6 DEF MutationSettles
  <2>2. freed \in [Writers -> WriterRec] /\ (freed["_writing"].at = "idle" <=> writer["_writing"].at = "idle")
    BY <1>0, FreedKeeps DEF OwnerInv
  <2> HIDE DEF freed
  <2>3. writer'["_writing"] = freed["_writing"]
    BY <1>0, <2>1, <2>2
  <2> QED
    BY <2>2, <2>3 DEF SaveIsOut
<1>7. CASE \E view \in Viewers : Subscribe(view)
  BY <1>1, <1>7 DEF Subscribe
<1>8. CASE BoundaryPasses \/ FeedTells \/ FeedHears \/ TabSteps \/ DocumentChanges \/ Serves
  BY <1>1, <1>8 DEF BoundaryPasses, FeedTells, FeedHears, TabSteps, DocumentChanges, Serves, AnswersRead,
     AppliesWrite, AnswersWrite, ownerVars
<1> QED
  BY <1>1, <1>2, <1>3, <1>4, <1>5, <1>6, <1>7, <1>8 DEF LeavesTheSave

LEMMA SaveSettles ==
  ASSUME OwnerInv, MutationSettles("_writing")
  PROVE  SaveIsOut /\ ~SaveIsOut' /\ Head(toClient).ok \in BOOLEAN
<1>0. "_writing" \in Writers
  BY HostNames
<1>1. OnTheWay("_writing") /\ Head(toClient) \in AnswerRec
  BY AnswerArrives DEF MutationSettles
<1>2. SaveIsOut
  BY <1>0, <1>1 DEF OwnerInv, Linked, SaveIsOut
<1>3. writer'["_writing"] = Idle
  <2>1. Freed("awaitMutation", "_writing", "afterMutation") \in [Writers -> WriterRec]
    BY FreedKeeps DEF OwnerInv
  <2> QED
    BY <1>0, <2>1 DEF MutationSettles
<1> QED
  BY <1>1, <1>2, <1>3 DEF SaveIsOut, Idle, AnswerRec

(* A step that leaves the save where it is keeps the reasons, if the reasons on   *)
(* screen and in waiting come from those there were.                              *)
LEMMA ReasonsKept ==
  ASSUME ReasonsStand, HostTyped', SaveIsOut' <=> SaveIsOut, refused' = refused,
         SaveIsOut /\ attempt \in AttemptRec => attempt' \in AttemptRec,
         host'.error # None =>
           host'.error = host.error \/ (reopening # None /\ host'.error = reopening.error),
         reopening' # None => reopening'.error = host.error \/ reopening' = reopening
  PROVE  ReasonsStand'
<1>1. (SaveIsOut => attempt \in AttemptRec /\ host.error = None)'
  BY DEF ReasonsStand
<1>2. (SaveIsOut => (reopening # None => reopening.error = None))'
  BY DEF ReasonsStand
<1>3. (host.error # None => host.error \in refused)'
  BY DEF ReasonsStand
<1>4. (reopening # None /\ reopening.error # None => reopening.error \in refused)'
  BY DEF ReasonsStand
<1> QED
  BY <1>1, <1>2, <1>3, <1>4 DEF ReasonsStand

LEMMA OpenForKeeps ==
  ASSUME HostTyped, NEW press \in [single : BOOLEAN], NEW ahead \in BOOLEAN, OpenFor(press, ahead),
         UNCHANGED <<edits, owner>>
  PROVE  /\ HostTyped'
         /\ attempt \in AttemptRec => attempt' \in AttemptRec
         /\ host'.error # None => host'.error = host.error
         /\ reopening' # None => reopening'.error = host.error \/ reopening' = reopening
         /\ dialog.open => dialog'.open
<1> USE DEF HostTyped
<1>0. 0 \in 0..MaxEdits
  BY HostNames
<1>1. CASE ~Openable(host, press) \/ ~ahead
  <2>1. \E p \in {None} \cup [single : BOOLEAN] : host' = [host EXCEPT !.pending = p]
    BY <1>1 DEF OpenFor
  <2>2. host' \in HostRec /\ host'.error = host.error
    BY <2>1 DEF HostRec
  <2> QED
    BY <1>1, <2>2 DEF OpenFor
<1>2. CASE ~(~Openable(host, press) \/ ~ahead)
  <2>1. attempt' = AnotherOpening
    BY <1>2 DEF OpenFor
  <2>2. attempt' \in {None} \cup AttemptRec /\ (attempt \in AttemptRec => attempt' \in AttemptRec)
    BY <2>1, HostNames DEF AnotherOpening, AttemptRec
  <2>3. CASE dialog.up
    <3>1. /\ host' = [host EXCEPT !.pending = None] /\ dialog' = dialog
          /\ reopening' = [draft |-> dialog.draft, atOpen |-> host.atOpen,
                           changed |-> host.changed, error |-> host.error]
      BY <1>2, <2>3 DEF OpenFor
    <3>2. host' \in HostRec /\ host'.error = host.error
      BY <3>1 DEF HostRec
    <3>3. reopening' \in ReopenRec /\ reopening'.error = host.error
      BY <3>1 DEF HostRec, ReopenRec, DialogRec
    <3> QED
      BY <2>2, <3>1, <3>2, <3>3
  <2>4. CASE ~dialog.up
    <3>1. /\ host' = Opened(host) /\ reopening' = None
          /\ dialog' = [up |-> TRUE, open |-> TRUE, draft |-> Clean]
      BY <1>2, <2>4 DEF OpenFor
    <3>2. host' \in HostRec /\ host'.error = None
      BY <3>1 DEF HostRec, Opened
    <3>3. dialog' \in DialogRec /\ dialog'.open
      BY <1>0, <3>1 DEF DialogRec, Clean
    <3> QED
      BY <2>2, <3>1, <3>2, <3>3
  <2> QED
    BY <2>3, <2>4
<1> QED
  BY <1>1, <1>2

(* A dialog that closes here does so over its own success, or is cancelled. *)
OwnClosing ==
  dialog.open /\ ~dialog'.open /\ dialog.draft \notin cancelled' \cup {Clean}
    => attempt # None /\ attempt.stands /\ attempt.draft \notin refused'

LEMMA PressesKeep ==
  ASSUME HostInv, \/ \E single, ahead \in BOOLEAN : PressesLane(single, ahead)
                  \/ \E ahead \in BOOLEAN : PendingIsServed(ahead)
  PROVE  HostTyped' /\ ReasonsStand' /\ OwnClosing
<1>1. PICK press \in [single : BOOLEAN], ahead \in BOOLEAN :
        OpenFor(press, ahead) /\ UNCHANGED <<edits, refused, writer>> /\ UNCHANGED owner
  <2>1. CASE \E single, ahead \in BOOLEAN : PressesLane(single, ahead)
    <3>1. PICK single \in BOOLEAN, ahead \in BOOLEAN : PressesLane(single, ahead)
      BY <2>1
    <3>2. [single |-> single] \in [single : BOOLEAN]
      OBVIOUS
    <3> QED
      BY <3>1, <3>2 DEF PressesLane, UnchangedUnderHost, ownerVars
  <2>2. CASE \E ahead \in BOOLEAN : PendingIsServed(ahead)
    <3>1. PICK ahead \in BOOLEAN : PendingIsServed(ahead)
      BY <2>2
    <3>2. host.pending \in [single : BOOLEAN]
      BY <3>1 DEF PendingIsServed, PendingOpens, HostInv, HostTyped, HostRec
    <3> QED
      BY <3>1, <3>2 DEF PendingIsServed, UnchangedUnderHost, ownerVars
  <2> QED
    BY <2>1, <2>2
<1>2. /\ HostTyped'
      /\ attempt \in AttemptRec => attempt' \in AttemptRec
      /\ host'.error # None => host'.error = host.error
      /\ reopening' # None => reopening'.error = host.error \/ reopening' = reopening
      /\ dialog.open => dialog'.open
  BY <1>1, OpenForKeeps DEF HostInv
<1>3. SaveIsOut' <=> SaveIsOut
  BY <1>1 DEF SaveIsOut
<1>4. ReasonsStand'
  BY <1>1, <1>2, <1>3, ReasonsKept DEF HostInv
<1> QED
  BY <1>2, <1>4 DEF OwnClosing

LEMMA ReopenKeeps ==
  ASSUME HostInv, ReopenFinishes
  PROVE  HostTyped' /\ ReasonsStand' /\ OwnClosing
<1> USE DEF ReopenFinishes, HostInv
<1>1. reopening \in ReopenRec
  BY DEF HostTyped
<1>2. /\ host' \in HostRec /\ host'.error = reopening.error
      /\ dialog' \in DialogRec /\ dialog'.open /\ reopening' = None
  BY <1>1 DEF HostTyped, HostRec, ReopenRec, DialogRec, Opened
<1>3. attempt' \in {None} \cup AttemptRec /\ (attempt \in AttemptRec => attempt' \in AttemptRec)
  BY HostNames DEF AnotherOpening, AttemptRec, HostTyped
<1>4. HostTyped'
  BY <1>2, <1>3 DEF HostTyped
<1>5. SaveIsOut' <=> SaveIsOut
  BY DEF SaveIsOut, UnchangedUnderHost, ownerVars
<1>6. ReasonsStand'
  BY <1>2, <1>3, <1>4, <1>5, ReasonsKept
<1> QED
  BY <1>2, <1>4, <1>6 DEF OwnClosing

LEMMA DialogMovesKeep ==
  ASSUME HostInv, UserEdits \/ Cancels \/ DialogClosed \/ RosterMoves
  PROVE  HostTyped' /\ ReasonsStand' /\ OwnClosing
<1> USE DEF HostInv
<1>1. UNCHANGED <<reopening, attempt, refused, writer>>
  BY DEF UserEdits, Cancels, DialogClosed, RosterMoves, UnchangedUnderHost, ownerVars
<1>2. host' \in HostRec /\ (host'.error # None => host'.error = host.error)
  BY DEF UserEdits, Cancels, DialogClosed, RosterMoves, HostTyped, HostRec
<1>3. dialog' \in DialogRec /\ edits' \in 0..MaxEdits
  <2>1. CASE UserEdits
    <3>1. edits' = edits + 1 /\ edits' \in 0..MaxEdits
      BY <2>1, HostNames DEF UserEdits, HostTyped
    <3> QED
      BY <2>1, <3>1 DEF UserEdits, HostTyped, DialogRec
  <2>2. CASE Cancels
    BY <2>2 DEF Cancels, HostTyped, DialogRec
  <2>3. CASE DialogClosed
    BY <2>3, HostNames DEF DialogClosed, HostTyped, DialogRec, NoDialog, Clean
  <2>4. CASE RosterMoves
    BY <2>4 DEF RosterMoves, HostTyped
  <2> QED
    BY <2>1, <2>2, <2>3, <2>4
<1>4. HostTyped'
  BY <1>1, <1>2, <1>3 DEF HostTyped
<1>5. SaveIsOut' <=> SaveIsOut
  BY <1>1 DEF SaveIsOut
<1>6. ReasonsStand'
  BY <1>1, <1>2, <1>4, <1>5, ReasonsKept
<1>7. OwnClosing
  BY DEF OwnClosing, UserEdits, Cancels, DialogClosed, RosterMoves, HostTyped, DialogRec
<1> QED
  BY <1>4, <1>6, <1>7

LEMMA SavesKeep ==
  ASSUME HostInv, Saves
  PROVE  HostTyped' /\ ReasonsStand' /\ OwnClosing
<1> USE DEF HostInv, Saves
<1>1. dialog' = dialog /\ attempt' \in AttemptRec /\ UNCHANGED <<reopening, edits, refused>> /\ reopening = None
  BY HostNames DEF AttemptRec, HostTyped, DialogRec, Clean, DialogStands
<1>2. host' \in HostRec /\ host'.error = None
  BY DEF HostTyped, HostRec
<1>3. HostTyped' /\ ReasonsStand'
  BY <1>1, <1>2 DEF HostTyped, ReasonsStand
<1> QED
  BY <1>1, <1>3 DEF OwnClosing

(* A schedule arrives, and the host with it. *)
LEMMA NewScheduleKeeps ==
  ASSUME NEW h \in HostRec
  PROVE  NewSchedule(h) \in HostRec /\ NewSchedule(h).error = h.error
BY DEF NewSchedule, HostRec

LEMMA BelowKeeps ==
  ASSUME HostInv, \/ Below \/ UNCHANGED hostState \/ \E i \in Ids : HostReadSettles(i)
                  \/ \E u \in Writers \ {"_writing"} : HostMutationSettles(u)
  PROVE  HostTyped' /\ ReasonsStand' /\ OwnClosing
<1> USE DEF HostInv
<1>1. LeavesTheSave
  BY HostNames DEF LeavesTheSave, Below, HostReadSettles, HostMutationSettles, hostState, ownerVars
<1>2. UNCHANGED <<dialog, reopening, attempt, edits, refused>>
  BY DEF Below, HostReadSettles, HostMutationSettles, hostState, hostVars
<1>3. host' = host \/ host' = NewSchedule(host)
  BY DEF Below, HostReadSettles, HostMutationSettles, hostState, hostVars
<1>4. host' \in HostRec /\ host'.error = host.error
  BY <1>3, NewScheduleKeeps DEF HostTyped
<1>5. HostTyped'
  BY <1>2, <1>4 DEF HostTyped
<1>6. SaveIsOut' <=> SaveIsOut
  BY <1>1, SaveStaysOut
<1>7. ReasonsStand'
  BY <1>2, <1>4, <1>5, <1>6, ReasonsKept
<1> QED
  BY <1>2, <1>5, <1>7 DEF OwnClosing

(* The answer to the save: stored, its reason is withdrawn wherever it may stand;   *)
(* refused, the reason is of the draft that was refused.                            *)
LEMMA SaveAnswered ==
  ASSUME HostInv, HostMutationSettles("_writing")
  PROVE  HostTyped' /\ ReasonsStand' /\ OwnClosing
<1> USE DEF HostInv, HostMutationSettles
<1> DEFINE ok == Head(toClient).ok
           h == IF ok THEN NewSchedule(host) ELSE host
<1>1. SaveIsOut /\ ~SaveIsOut' /\ ok \in BOOLEAN
  BY SaveSettles
<1>2. /\ attempt \in AttemptRec /\ host.error = None /\ (reopening # None => reopening.error = None)
      /\ attempt.stands \in BOOLEAN /\ attempt.draft \in 1..MaxEdits
  BY <1>1 DEF ReasonsStand, AttemptRec
<1>3. h \in HostRec /\ h.error = None
  BY <1>2, NewScheduleKeeps DEF HostTyped
<1>4. host' = Answered(h, ok) /\ attempt' = None /\ reopening' = reopening /\ edits' = edits
  OBVIOUS
<1>5. /\ refused' = IF ok THEN refused \ {attempt.draft} ELSE refused \cup {attempt.draft}
      /\ dialog' = IF ok /\ attempt.stands THEN [dialog EXCEPT !.open = FALSE] ELSE dialog
  BY DEF Closes
<1> HIDE DEF h, ok, HostMutationSettles
<1>6. /\ host' \in HostRec
      /\ host'.error = IF attempt.stands /\ ~ok THEN attempt.draft ELSE None
  BY <1>2, <1>3, <1>4 DEF Answered, HostRec
<1>7. HostTyped'
  BY <1>4, <1>5, <1>6 DEF HostTyped, DialogRec
<1>8. ReasonsStand'
  BY <1>1, <1>2, <1>4, <1>5, <1>6 DEF ReasonsStand
<1>9. OwnClosing
  BY <1>2, <1>5, HostNames DEF OwnClosing, AttemptRec
<1> QED
  BY <1>7, <1>8, <1>9

LEMMA HostStarts ==
  ASSUME HostInit
  PROVE  HostInv
<1>1. OwnerInv
  BY OwnerStarts, HostIsOwner
<1>2. HostTyped
  BY HostNames DEF HostInit, HostTyped, HostRec, DialogRec, NoDialog, Clean
<1>3. ReasonsStand
  BY HostNames DEF HostInit, OwnerInit, ReasonsStand, SaveIsOut, Idle
<1> QED
  BY <1>1, <1>2, <1>3 DEF HostInv

LEMMA HostGoesOn ==
  ASSUME HostInv, [HostNext]_hostState
  PROVE  HostInv' /\ OwnClosing
<1>1. OwnerInv'
  BY HostIsOwner, OwnerGoesOn DEF HostInv
<1>2. HostTyped' /\ ReasonsStand' /\ OwnClosing
  <2>1. CASE User
    BY <2>1, PressesKeep, DialogMovesKeep, SavesKeep DEF User
  <2>2. CASE HostSteps
    BY <2>2, PressesKeep, ReopenKeeps, DialogMovesKeep, BelowKeeps, SaveAnswered DEF HostSteps
  <2>3. CASE RosterMoves
    BY <2>3, DialogMovesKeep
  <2>4. CASE Below \/ UNCHANGED hostState
    BY <2>4, BelowKeeps
  <2> QED
    BY <2>1, <2>2, <2>3, <2>4 DEF HostNext
<1> QED
  BY <1>1, <1>2 DEF HostInv

(* The views show the schedule the server has, or say that the last attempt       *)
(* failed, once every announcement and answer has been dealt with: no cue is      *)
(* lost to a read or a write that had left before the change it announces         *)
(* (schedule-owner.ts, store.ts, data-changed.ts), with the day editor over it.   *)
THEOREM HostIsCurrentWhenQuiet == HostSpec => []CurrentWhenQuiet
<1>1. HostInit => HostInv
  BY HostStarts
<1>2. HostInv /\ [HostNext]_hostState => HostInv'
  BY HostGoesOn
<1>3. HostInv => CurrentWhenQuiet
  BY NothingMissed DEF HostInv
<1> QED
  BY <1>1, <1>2, <1>3, PTL DEF HostSpec

(* The reason in the day editor is of a refusal that still stands                 *)
(* (scheduling-day-editor-host.ts, _handleEditorSave, _reopenFor).                *)
THEOREM ReasonIsOfARefusal == HostSpec => []ErrorIsAboutThisDraft
<1>1. HostInit => HostInv
  BY HostStarts
<1>2. HostInv /\ [HostNext]_hostState => HostInv'
  BY HostGoesOn
<1>3. HostInv => ErrorIsAboutThisDraft
  BY DEF HostInv, ReasonsStand, ErrorIsAboutThisDraft
<1> QED
  BY <1>1, <1>2, <1>3, PTL DEF HostSpec

(* The editor's dialog closes by itself only over a success of the opening that   *)
(* is up (scheduling-day-editor-host.ts, _handleEditorSave).                      *)
THEOREM DialogClosesOnItsOwn == HostSpec => ClosesOnItsOwnSuccess
<1>1. HostInit => HostInv
  BY HostStarts
<1>2. HostInv /\ [HostNext]_hostState => HostInv'
  BY HostGoesOn
<1>3. HostInv /\ [HostNext]_hostState => [OwnClosing]_hostState
  BY HostGoesOn
<1> QED
  BY <1>1, <1>2, <1>3, PTL DEF HostSpec, ClosesOnItsOwnSuccess, OwnClosing

----------------------------------------------------------------------------
(* A step of a tab is one of its schedule, of its store or of its cards, so what  *)
(* was shown of each part alone holds of the tab.                                 *)
THEOREM SharedIsItsParts ==
  Spec => HostInit /\ [][HostNext]_hostState /\ StoreSpec /\ CardSpec
<1>1. Init => HostInit /\ StoreInit /\ CardInit
  BY DEF Init
<1>2. [Next]_sharedVars => [HostNext]_hostState
  BY DEF Next, sharedVars
<1>3. [Next]_sharedVars => [StoreNext]_storeVars
  BY DEF Next, sharedVars
<1>4. [Next]_sharedVars => [CardNext]_cardVars
  BY DEF Next, sharedVars
<1> QED
  BY <1>1, <1>2, <1>3, <1>4, PTL DEF Spec, StoreSpec, CardSpec

(* In a tab with all of them the schedule, the day editor's host and the store    *)
(* keep their other promises too.                                                 *)
THEOREM TabKeepsUp ==
  Spec => /\ [](CurrentWhenQuiet /\ ErrorIsAboutThisDraft)
          /\ ClosesOnItsOwnSuccess /\ GivenOnlyCurrent
<1>1. HostInv /\ [HostNext]_hostState => HostInv' /\ [OwnClosing]_hostState
  BY HostGoesOn
<1>2. HostInv => CurrentWhenQuiet /\ ErrorIsAboutThisDraft
  BY NothingMissed DEF HostInv, ReasonsStand, ErrorIsAboutThisDraft
<1> QED
  BY <1>1, <1>2, HostStarts, SharedIsItsParts, ReadersGetOnlyCurrent, PTL DEF ClosesOnItsOwnSuccess, OwnClosing

(* What the tab's store hands out and what its cards draw is of the last          *)
(* announcement, whatever happens in which order (store.ts, energy-card-host.ts), *)
(* and the day editor's dialog blames no draft for another one's save             *)
(* (scheduling-day-editor-host.ts).                                               *)
THEOREM SharedHolds == Spec => []SharedInvariant
<1>1. StoreInvariant /\ CardInvariant /\ ErrorIsAboutThisDraft => SharedInvariant
  BY DEF SharedInvariant
<1> QED
  BY <1>1, SharedIsItsParts, StoreHolds, CardHolds, TabKeepsUp, PTL
==============================================================================
