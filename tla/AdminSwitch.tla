---------------------------- MODULE AdminSwitch ----------------------------
(***************************************************************************)
(* The automation switches of a Control view                               *)
(* (node-detail/admin-config-controller.ts): the document is read when the *)
(* view opens and again on news of a newer one; a press reads it once more *)
(* and saves its one change with the revision just read.                   *)
(***************************************************************************)
EXTENDS ConfigWire

VARIABLE admin

\* load numbers the reads; the press's own read has number Press.
Press == 0

AdminTypeOK ==
    /\ WireTypeOK
    /\ {admin.config, admin.revision, admin.read} \subseteq Docs \union {None}
    /\ admin.error \in BOOLEAN
    /\ admin.saving \in {"no", "reading", "sent"}
    /\ admin.load \in 0..2 * MaxAsked

\* hostConnected, for an admin: the first read is asked for.
AdminInit ==
    /\ WireInit
    /\ admin = [config |-> None, revision |-> None, read |-> None, error |-> FALSE,
                saving |-> "no", load |-> 0]

Reads(a) ==
    /\ admin' = [a EXCEPT !.load = @ + 1]
    /\ Ask(Get(a.load + 1))

Starts ==
    /\ asked = 0
    /\ Reads(admin)
    /\ UNCHANGED <<store, serving, reloading, overlapped, answers, heard, edits>>

\* An answer a newer read or a press has superseded is dropped, but for the
\* session's revision.
Answered ==
    /\ Arrives("doc") \/ Arrives("noDoc")
    /\ Head(answers).by # Press
    /\ LET answer == Head(answers)
           mine == answer.by = admin.load
       IN  admin' = IF Arrives("doc")
                    THEN [admin EXCEPT !.revision = answer.doc,
                                       !.config = IF mine THEN answer.doc ELSE @,
                                       !.error = @ /\ ~mine]
                    ELSE [admin EXCEPT !.error = @ \/ mine]
    /\ Taken
    /\ UNCHANGED <<store, serving, reloading, overlapped, asks, heard, asked, edits>>

Presses ==
    /\ admin.saving = "no" /\ admin.config # None
    /\ admin' = [admin EXCEPT !.saving = "reading", !.load = @ + 1]
    /\ Ask(Get(Press))
    /\ UNCHANGED <<store, serving, reloading, overlapped, answers, heard, edits>>

\* What the switch changes may be gone from the document by now.
PressReads ==
    /\ Arrives("doc") \/ Arrives("noDoc")
    /\ Head(answers).by = Press
    /\ LET doc == Head(answers).doc
           marks == IF "field" \in doc.marks THEN doc.marks \ {"field"}
                    ELSE doc.marks \union {"field"}
           gone == [admin EXCEPT !.config = doc, !.revision = doc, !.saving = "no"]
       IN  \/ /\ Arrives("noDoc")
              /\ admin' = [admin EXCEPT !.saving = "no"]
              /\ SilentWire
           \/ /\ Arrives("doc") /\ doc.others > 0
              /\ admin' = gone
              /\ SilentWire
           \/ /\ Arrives("doc")
              /\ admin' = [admin EXCEPT !.revision = doc, !.read = doc, !.saving = "sent"]
              /\ Ask([ask |-> "save", doc |-> [doc EXCEPT !.marks = marks], expected |-> doc])
    /\ Taken
    /\ UNCHANGED <<store, serving, reloading, overlapped, heard, edits>>

\* A conflict shows the newer document; a refused save the one that was read.
PressAnswered ==
    /\ admin.saving = "sent"
    /\ LET over == [admin EXCEPT !.saving = "no", !.read = None]
           doc == Head(answers).doc
       IN  \/ /\ Arrives("saved")
              /\ admin' = [over EXCEPT !.config = doc, !.revision = doc]
           \/ /\ Arrives("conflict")
              /\ admin' = [over EXCEPT !.config = doc]
           \/ /\ Arrives("invalid") \/ Arrives("refused")
              /\ admin' = [over EXCEPT !.config = admin.read]
    /\ Taken
    /\ UNCHANGED <<store, serving, reloading, overlapped, asks, heard, asked, edits>>

\* News is not acted on while a press is being saved.
AdminTold ==
    /\ Flushed
    /\ IF admin.saving = "no" /\ (admin.error \/ IsStale(admin.revision, heard))
       THEN Reads(admin)
       ELSE UNCHANGED admin /\ SilentWire
    /\ UNCHANGED <<store, serving, reloading, overlapped, answers, edits>>

AdminNext ==
    \/ Server /\ UNCHANGED <<admin, edits>>
    \/ Starts \/ Answered \/ Presses \/ PressReads \/ PressAnswered \/ AdminTold

AdminSpec == AdminInit /\ [][AdminNext]_<<wireVars, edits, admin>>

-----------------------------------------------------------------------------
\* The switches never show an older document than they have shown: a read that
\* was under way when the switch was pressed is not shown over what the press
\* brought (admin-config-controller.ts 24-26, 75-77).
SwitchesNeverGoBack ==
    [][admin.config # None => admin'.config # None /\ admin'.config.others >= admin.config.others]_admin

\* Once nothing is under way the switches show what is stored.
SwitchesCatchUp ==
    /\ admin.saving = "no" /\ admin.config # None /\ ~admin.error
    /\ ~reloading /\ serving = None /\ asks = <<>> /\ answers = <<>> /\ heard = None
    /\ asked < MaxAsked
    => admin.config = store
=============================================================================
