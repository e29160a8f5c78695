----------------------------- MODULE ConfigWire -----------------------------
(***************************************************************************)
(* The stored configuration and one admin connection to it: reads answer   *)
(* with the document and its revision, a save names the revision it was    *)
(* made from, and the reload that follows a save announces the revision    *)
(* then stored (config-session.ts, data-changed.ts; the handlers of        *)
(* websockets.py).  A document is what the properties tell apart: how many *)
(* saves of other clients it contains, and the marks this client's edits   *)
(* set.  A revision is a digest of the document, so it is the document.    *)
(***************************************************************************)
EXTENDS Naturals, Sequences

CONSTANTS None,
          MaxOthers,    \* bound on the saves of other clients
          MaxEdits,     \* bound on this client's edits
          MaxAsked      \* bound on the reads, checks and saves it asks for

ASSUME ConfigBounds == {MaxOthers, MaxEdits, MaxAsked} \subseteq Nat

VARIABLES store,        \* HelmanStorage.config
          serving,      \* this client's save in hand: what of it is done
          reloading,    \* another client's save is reloading the integration
          overlapped,   \* two saves before the first was on disk, or two loads of a dialog
          asks, answers,\* the two directions of the connection
          heard,        \* _pendingConfigRevision
          asked, edits  \* counters of the bounds

wireVars == <<store, serving, reloading, overlapped, asks, answers, heard, asked>>

\* "phase" is wiring that no device can carry, "legacy" an optimizer target in
\* the old form, "field" any other setting.
Marks == {"field", "phase", "legacy"}
Docs == [others : 0..MaxOthers, marks : SUBSET Marks]
ASSUME NoneAssumption == None \notin Docs

\* pruneUnassignablePhases, normalizeApplianceOptimizerTargets.
Pruned(doc) == [doc EXCEPT !.marks = @ \ {"phase"}]
Normalized(doc) == [doc EXCEPT !.marks = @ \ {"legacy"}]

WireTypeOK ==
    /\ store \in Docs
    /\ serving = None \/ serving.stage \in {"writing", "reloading"}
    /\ {reloading, overlapped} \subseteq BOOLEAN
    /\ heard \in Docs \union {None}
    /\ asked \in 0..MaxAsked /\ edits \in 0..MaxEdits

WireInit ==
    /\ store \in [others : {0}, marks : SUBSET {"legacy"}]
    /\ serving = None
    /\ reloading = FALSE
    /\ overlapped = FALSE
    /\ asks = <<>> /\ answers = <<>>
    /\ heard = None
    /\ asked = 0 /\ edits = 0

\* A read is asked for by a load or a press of a switch, by its number.
Get(by) == [ask |-> "get", by |-> by]

Ask(message) ==
    /\ asked < MaxAsked
    /\ asked' = asked + 1
    /\ asks' = Append(asks, message)

SilentWire == UNCHANGED <<asked, asks>>

Answer(message) == answers' = Append(answers, message)
Taken == answers' = Tail(answers)

(* The server.  Reads and checks are answered on the spot; a save checks    *)
(* the revision, replaces the document, and is answered after the file is   *)
(* written and the integration reloaded.                                    *)

AnswersGet ==
    /\ asks # <<>> /\ Head(asks).ask = "get"
    /\ \/ Answer([answer |-> "doc", doc |-> store, by |-> Head(asks).by])
       \/ (reloading \/ serving # None) /\ Answer([answer |-> "noDoc", by |-> Head(asks).by])
    /\ asks' = Tail(asks)
    /\ UNCHANGED <<store, serving, reloading, overlapped, heard, asked>>

AnswersCheck ==
    /\ asks # <<>> /\ Head(asks).ask = "check"
    /\ Answer([answer |-> "report", doc |-> Head(asks).doc, by |-> Head(asks).by])
    /\ asks' = Tail(asks)
    /\ UNCHANGED <<store, serving, reloading, overlapped, heard, asked>>

TakesSave ==
    /\ asks # <<>> /\ Head(asks).ask = "save"
    /\ asks' = Tail(asks)
    /\ LET save == Head(asks)
       IN  \/ /\ save.expected # store
              /\ Answer([answer |-> "conflict", doc |-> store])
              /\ UNCHANGED <<store, serving>>
           \/ /\ save.expected = store
              /\ Answer([answer |-> "invalid", doc |-> save.doc])
              /\ UNCHANGED <<store, serving>>
           \/ /\ reloading
              /\ Answer([answer |-> "refused"])
              /\ UNCHANGED <<store, serving>>
           \/ /\ save.expected = store
              /\ store' = save.doc
              /\ serving' = [stage |-> "writing"]
              /\ UNCHANGED answers
    /\ UNCHANGED <<reloading, overlapped, heard, asked>>

\* The answer's document is the one in memory once the file is written.
SaveWritten ==
    /\ serving # None /\ serving.stage = "writing"
    /\ serving' = [stage |-> "reloading", doc |-> store]
    /\ UNCHANGED <<store, reloading, overlapped, asks, answers, heard, asked>>

\* The reload that succeeds announces what is stored; one that fails does not.
SaveReloaded ==
    /\ serving # None /\ serving.stage = "reloading"
    /\ serving' = None
    /\ \/ answers' = answers \o <<[answer |-> "event", doc |-> store],
                                  [answer |-> "saved", doc |-> serving.doc, reloaded |-> TRUE]>>
       \/ Answer([answer |-> "saved", doc |-> serving.doc, reloaded |-> FALSE])
    /\ UNCHANGED <<store, reloading, overlapped, asks, heard, asked>>

\* Another client's save, made from the document as it is stored now.
AnotherSaves ==
    /\ store.others < MaxOthers
    /\ store' = [store EXCEPT !.others = @ + 1]
    /\ reloading' = TRUE
    /\ overlapped' = (overlapped \/ (serving # None /\ serving.stage = "writing"))
    /\ UNCHANGED <<serving, asks, answers, heard, asked>>

AnothersReloaded ==
    /\ reloading
    /\ reloading' = FALSE
    /\ Answer([answer |-> "event", doc |-> store])
    /\ UNCHANGED <<store, serving, overlapped, asks, heard, asked>>

\* An announcement reaches the tab, which collects for a while, or until it is
\* looked at again; the newest revision is the one passed on.
Hears ==
    /\ answers # <<>> /\ Head(answers).answer = "event"
    /\ heard' = Head(answers).doc
    /\ Taken
    /\ UNCHANGED <<store, serving, reloading, overlapped, asks, asked>>

Flushed == heard # None /\ heard' = None

Server == AnswersGet \/ AnswersCheck \/ TakesSave \/ SaveWritten \/ SaveReloaded
          \/ AnotherSaves \/ AnothersReloaded \/ Hears

\* The head of what the server sent, if it is an answer of the given sort.
Arrives(sort) == answers # <<>> /\ Head(answers).answer = sort

\* ConfigSession: the revision agreed with, None before the first read.
IsStale(session, revision) == revision # None /\ session # None /\ revision # session

\* What other clients saved is not lost to a save of this one's: the revision
\* sent along with a save is that of the document its draft was made from.
\* Spared are the two ways it fails: another save before this client's is on
\* disk, and a dialog's reload while it loads.
OthersWorkIsKept == [][~overlapped => store'.others >= store.others]_store

\* The same without sparing them (helman-optimizer-edit-dialog.ts 432: "The
\* server compares the revision before replacing the whole document.")
OthersWorkIsAlwaysKept == [][store'.others >= store.others]_store
=============================================================================
