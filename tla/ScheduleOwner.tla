--------------------------- MODULE ScheduleOwner ---------------------------
(***************************************************************************)
(* The one schedule a tab's views share (cards/shared/schedule/            *)
(* schedule-owner.ts) over the store's get_schedule entry                  *)
(* (cards/shared/data/store.ts) and the feed.                              *)
(*                                                                         *)
(* A message, a timer and a press are tasks of the browser; the promise    *)
(* continuations they free (Resumes) run before the next task, which is    *)
(* why a task waits for NoContinuation.                                    *)
(***************************************************************************)
EXTENDS DataFeed, FiniteSets

CONSTANTS Viewers,      \* the views that subscribe to the owner
          Writers,      \* "_writing" and "_togglingExecution"
          MaxWrites,    \* bound on the presses that write
          MaxFailures,  \* bound on the commands the server fails
          Ids,          \* names of reads in flight, enough for all there can be
          None

ASSUME ScheduleAssumption == "schedule" \in Kinds

\* The store drops its entry only behind a write: one read is in flight for each,
\* and one more.
ASSUME NamesAssumption ==
    /\ IsFiniteSet(Writers) /\ MaxWrites \in Nat
    /\ IsFiniteSet(Ids) /\ Cardinality(Ids) > MaxWrites + 1
    /\ Ids \cap Writers = {} /\ None \notin Ids \union Writers \union Nat

VARIABLES owner,        \* the ScheduleOwnerImpl of the connection
          viewers,      \* its _listeners
          writer,       \* [Writers -> where that write stands]
          inFlight,     \* the store's _inFlight entry of get_schedule
          presses, failures,
          overtaken     \* history: of two writes out at once, one is answered behind
                        \* the other's newer answer, or behind a read that failed

ownerVars == <<owner, viewers, writer, inFlight, presses, failures, overtaken>>

NewOwner == [shown |-> None,        \* _schedule, as the version it holds
             busy |-> "no",         \* _loading, _refreshing
             error |-> FALSE, stale |-> FALSE,
             read |-> None,         \* _request, as the read it waits for
             mutation |-> None,     \* _mutationRequest
             owed |-> FALSE,        \* _refreshAfterMutation
             flags |-> {}]          \* _writing, _togglingExecution

Idle == [at |-> "idle", on |-> None]

OwnerTypeOK ==
    /\ FeedTypeOK
    /\ owner.shown \in {None} \union 0..MaxChanges
    /\ owner.busy \in {"no", "loading", "refreshing"}
    /\ owner.read \in Ids \union {None}
    /\ owner.mutation \in Writers \union {None}
    /\ owner.flags \subseteq Writers
    /\ viewers \subseteq Viewers
    /\ \A w \in Writers : writer[w].at \in
          {"idle", "awaitMutation", "awaitRead", "afterMutation", "afterRead",
           "sent", "orphan"}
    /\ inFlight \in Ids \union {None}

OwnerInit ==
    /\ FeedInit
    /\ owner = NewOwner
    /\ viewers = {}
    /\ writer = [w \in Writers |-> Idle]
    /\ inFlight = None
    /\ presses = 0 /\ failures = 0
    /\ overtaken = FALSE

\* A name no command, answer or entry uses.
FreshId ==
    CHOOSE i \in Ids : /\ \A c \in toServer : c.id # i
                       /\ \A n \in DOMAIN toClient : IsEvent(toClient[n]) \/ toClient[n].id # i
                       /\ i # inFlight

ReadCommand(i) == [id |-> i, does |-> "read"]
WriteCommand(w) == [id |-> w, does |-> "write"]

(***************************************************************************)
(* _refreshSchedule and refresh, as what they make of the owner o when the *)
(* store's entry is entry.                                                 *)
(***************************************************************************)
RefreshSchedule(o, entry) ==
    IF o.read # None THEN o
    ELSE [o EXCEPT !.busy = IF o.shown = None THEN "loading" ELSE "refreshing",
                   !.read = IF entry # None THEN entry ELSE FreshId]

\* Faulty variant: a cue that arrives during a write is absorbed by it.
RefreshAbsorbed(o, entry) == IF o.mutation # None THEN o ELSE RefreshSchedule(o, entry)

Refresh(o, entry) ==
    IF o.mutation # None THEN [o EXCEPT !.owed = TRUE] ELSE RefreshSchedule(o, entry)

\* The owner becomes o; a read it started goes out unless it joined the entry.
Becomes(o, entry, gone, sent) ==
    LET started == o.read # None /\ o.read # owner.read
    IN /\ owner' = o
       /\ inFlight' = IF started THEN o.read ELSE entry
       /\ toServer' = ((toServer \ gone) \union sent) \union
                        (IF started /\ o.read # entry THEN {ReadCommand(o.read)} ELSE {})

Commit(o, v) == [o EXCEPT !.shown = v, !.error = FALSE, !.stale = FALSE]

NoContinuation == \A w \in Writers : writer[w].at \notin {"afterMutation", "afterRead"}

\* Settling a promise frees the writes that wait for it.
Freed(from, on, to) ==
    [w \in Writers |-> IF writer[w].at = from /\ writer[w].on = on
                       THEN [at |-> to, on |-> None] ELSE writer[w]]

----------------------------------------------------------------------------
\* A view subscribes: the first one opens the feed, and reads.  Every view of
\* the schedule also asks the store for the roster in that task, and the store
\* never gives up its own place on the feed (store.ts:188).
Subscribe(view) ==
    /\ NoContinuation
    /\ view \notin viewers
    /\ viewers' = viewers \union {view}
    /\ Subscribed({"owner", "store"})
    /\ Becomes(IF owner.shown = None /\ owner.busy = "no"
               THEN RefreshSchedule(owner, inFlight) ELSE owner, inFlight, {}, {})
    /\ UNCHANGED <<version, toClient, writer, presses, failures, overtaken>>

\* The last view leaves: the next one finds a new owner.  A write that is out
\* goes on, with nobody to commit its answer; the page is not left while one
\* waits for its turn (environment).
Unsubscribe(view) ==
    /\ NoContinuation
    /\ view \in viewers
    /\ viewers' = viewers \ {view}
    /\ IF viewers = {view}
       THEN /\ \A w \in Writers : writer[w].at \in {"idle", "sent", "orphan"}
            /\ Left({"owner"})
            /\ owner' = NewOwner
            /\ writer' = [w \in Writers |-> IF writer[w].at = "sent"
                                            THEN [at |-> "orphan", on |-> None] ELSE writer[w]]
       ELSE UNCHANGED <<owner, writer, toClient, feedVars>>
    /\ UNCHANGED <<version, toServer, inFlight, presses, failures, overtaken>>

\* applySchedulePatches or setExecutionEnabled: _trackMutation up to its first wait.
Sends(w) ==
    /\ Becomes([owner EXCEPT !.flags = @ \union {w}, !.error = FALSE, !.mutation = w],
               inFlight, {}, {WriteCommand(w)})
    /\ writer' = [writer EXCEPT ![w] = [at |-> "sent", on |-> None]]

Waits(w, at, on) ==
    /\ writer' = [writer EXCEPT ![w] = [at |-> at, on |-> on]]
    /\ UNCHANGED <<owner, inFlight, toServer>>

TrackMutation(w) ==
    /\ NoContinuation
    /\ viewers # {}
    /\ writer[w].at = "idle"
    /\ presses < MaxWrites
    /\ presses' = presses + 1
    /\ IF owner.mutation # None THEN Waits(w, "awaitMutation", owner.mutation)
       ELSE IF owner.read # None THEN Waits(w, "awaitRead", owner.read)
       ELSE Sends(w)
    /\ UNCHANGED <<version, toClient, feedVars, viewers, failures, overtaken>>

\* ... and its continuations: neither wait is repeated once it is over.
Resumes(w) ==
    /\ \/ /\ writer[w].at = "afterMutation"
          /\ IF owner.read # None THEN Waits(w, "awaitRead", owner.read) ELSE Sends(w)
       \/ /\ writer[w].at = "afterRead"
          /\ Sends(w)
    /\ UNCHANGED <<version, toClient, feedVars, viewers, presses, failures, overtaken>>

\* The next slot boundary is a cue to read.
BoundaryPasses ==
    /\ NoContinuation
    /\ viewers # {} /\ owner.shown # None
    /\ Becomes(Refresh(owner, inFlight), inFlight, {}, {})
    /\ UNCHANGED <<version, toClient, feedVars, viewers, writer, presses, failures, overtaken>>

\* The feed tells the owner, which asks again.
FeedTells ==
    /\ NoContinuation
    /\ FeedFlushes
    /\ Becomes(IF "owner" \in listeners /\ pending # {} THEN Refresh(owner, inFlight) ELSE owner,
               inFlight, {}, {})
    /\ UNCHANGED <<version, toClient, viewers, writer, presses, failures, overtaken>>

FeedHears ==
    /\ NoContinuation
    /\ OnEvent
    /\ UNCHANGED ownerVars

----------------------------------------------------------------------------
(* The server (custom_components/helman/websockets.py) *)

\* A read is answered with the document as it is.
AnswersRead(c) ==
    /\ c.does = "read"
    /\ toServer' = toServer \ {c}
    /\ \/ /\ toClient' = Append(toClient, [id |-> c.id, ok |-> TRUE, at |-> version["schedule"]])
          /\ UNCHANGED failures
       \/ /\ failures < MaxFailures
          /\ failures' = failures + 1
          /\ toClient' = Append(toClient, [id |-> c.id, ok |-> FALSE, at |-> 0])
    /\ UNCHANGED <<version, feedVars, owner, viewers, writer, inFlight, presses, overtaken>>

\* A write changes the document and announces it under the lock; its answer,
\* made there, follows when the rest of the handler is through.
AppliesWrite(c) ==
    /\ c.does = "write"
    /\ version["schedule"] < MaxChanges
    /\ version' = [version EXCEPT !["schedule"] = @ + 1]
    /\ toServer' = (toServer \ {c}) \union
                     {[id |-> c.id, does |-> "answer", at |-> version["schedule"] + 1]}
    /\ toClient' = Announced("schedule", toClient)
    /\ UNCHANGED <<feedVars, ownerVars>>

AnswersWrite(c) ==
    /\ \/ /\ c.does = "answer"
          /\ toClient' = Append(toClient, [id |-> c.id, ok |-> TRUE, at |-> c.at])
          /\ UNCHANGED failures
       \/ /\ c.does = "write"
          /\ failures < MaxFailures \/ version["schedule"] = MaxChanges
          /\ failures' = IF failures < MaxFailures THEN failures + 1 ELSE failures
          /\ toClient' = Append(toClient, [id |-> c.id, ok |-> FALSE, at |-> 0])
    /\ toServer' = toServer \ {c}
    /\ UNCHANGED <<version, feedVars, owner, viewers, writer, inFlight, presses, overtaken>>

----------------------------------------------------------------------------
(* Answers *)

Answer(i) == /\ NoContinuation
             /\ toClient # <<>>
             /\ ~IsEvent(Head(toClient))
             /\ Head(toClient).id = i
             /\ toClient' = Tail(toClient)

\* A read's promise settles: the store drops its own entry, the owner commits
\* or keeps what it has and says so.
ReadSettles(i) ==
    LET m == Head(toClient)
        entry == IF inFlight = i THEN None ELSE inFlight
        settled == [owner EXCEPT !.busy = "no", !.read = None]
    IN /\ Answer(i)
       /\ Becomes(IF owner.read # i THEN owner
                  ELSE IF m.ok THEN Commit(settled, m.at)
                  ELSE [settled EXCEPT !.error = TRUE, !.stale = (owner.shown # None)],
                  entry, {}, {})
       /\ writer' = Freed("awaitRead", i, "afterRead")
       /\ overtaken' = (overtaken \/ (owner.read = i /\ ~m.ok /\ \E w \in Writers : writer[w].at = "sent"))
       /\ UNCHANGED <<version, feedVars, viewers, presses, failures>>

\* A write's promise settles: the store drops the schedule entry, the owner
\* commits the schedule it answered with, and makes the read it owes.
MutationSettles(w) ==
    LET m == Head(toClient)
        committed == IF m.ok THEN Commit(owner, m.at) ELSE [owner EXCEPT !.error = TRUE]
        done == [committed EXCEPT !.flags = @ \ {w},
                                  !.mutation = IF @ = w THEN None ELSE @,
                                  !.owed = FALSE]
    IN /\ Answer(w)
       /\ Becomes(IF writer[w].at = "orphan" THEN owner
                  ELSE IF owner.owed THEN RefreshSchedule(done, None) ELSE done,
                  None, {}, {})
       /\ writer' = [Freed("awaitMutation", w, "afterMutation") EXCEPT ![w] = Idle]
       /\ overtaken' = (overtaken \/ (writer[w].at = "sent" /\ m.ok /\ owner.shown # None
                                        /\ m.at < owner.shown))
       /\ UNCHANGED <<version, feedVars, viewers, presses, failures>>

----------------------------------------------------------------------------
TabSteps == (TabHides \/ TabShows) /\ UNCHANGED <<wireVars, ownerVars>>

DocumentChanges ==
    /\ ServerChanges("schedule")
    /\ UNCHANGED <<feedVars, ownerVars>>

Serves == \E c \in toServer : AnswersRead(c) \/ AppliesWrite(c) \/ AnswersWrite(c)
Receives == (\E i \in Ids : ReadSettles(i)) \/ (\E w \in Writers : MutationSettles(w)) \/ FeedHears

OwnerNext ==
    \/ \E view \in Viewers : Subscribe(view) \/ Unsubscribe(view)
    \/ \E w \in Writers : TrackMutation(w) \/ Resumes(w)
    \/ BoundaryPasses \/ FeedTells
    \/ TabSteps \/ DocumentChanges
    \/ Serves \/ Receives

ownVars == <<wireVars, feedVars, ownerVars>>

\* The server answers, the browser runs its tasks; nobody has to press, to
\* leave, or to look.
OwnerFair ==
    /\ WF_ownVars(Serves)
    /\ WF_ownVars(Receives)
    /\ WF_ownVars(\E w \in Writers : Resumes(w))
    /\ WF_ownVars(FeedTells)
    /\ WF_ownVars(BoundaryPasses)

OwnerSpec == OwnerInit /\ [][OwnerNext]_ownVars /\ OwnerFair

----------------------------------------------------------------------------
NothingUnderWay ==
    /\ toServer = {} /\ toClient = <<>>
    /\ pending = {}
    /\ NoContinuation

\* Once every announcement and answer has been dealt with, the views show the
\* schedule the server has, or say that the last attempt failed: no cue is
\* absorbed by a read or a write that had left before the change it announces.
CurrentWhenQuiet ==
    NothingUnderWay /\ viewers # {} /\ ~owner.error /\ ~overtaken
        => owner.shown = version["schedule"]

\* The same of any history: the owner runs what lands during a write once the
\* write commits (schedule-owner.ts:185-187).
AlwaysCurrentWhenQuiet ==
    NothingUnderWay /\ viewers # {} /\ ~owner.error => owner.shown = version["schedule"]

\* A view that stays open comes to show the last schedule, whatever was refused
\* or overtaken on the way; one whose very first read failed waits for an
\* announcement, and says that it failed.
ShownCatchesUp ==
    \A v \in 0..MaxChanges :
        <>[](version["schedule"] = v /\ viewers # {})
            => <>[](owner.shown = v \/ (owner.shown = None /\ owner.error))
=============================================================================
