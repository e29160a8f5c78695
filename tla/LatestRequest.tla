---------------------------- MODULE LatestRequest ----------------------------
(***************************************************************************)
(* What the trigger coordinator promises its callers, whatever its tasks   *)
(* and timers do: of the requests made it owes service to the newest only, *)
(* it serves one at a time, and closing it withdraws everything.           *)
(***************************************************************************)
EXTENDS Naturals

CONSTANT MaxRequests

VARIABLES
  newest,     \* the newest request accepted
  owed,       \* the request waiting for service, 0 when there is none
  current,    \* the request in service, 0 when there is none
  open

lvars == <<newest, owed, current, open>>

Init == newest = 0 /\ owed = 0 /\ current = 0 /\ open = TRUE

(* A request is accepted and waits, replacing the one that waited. *)
Accept ==
  /\ open
  /\ \E r \in 1..MaxRequests : r > newest /\ newest' = r /\ owed' = r
  /\ UNCHANGED <<current, open>>

(* An idle coordinator serves a request at once; one that waited is moot. *)
AcceptAndServe ==
  /\ open /\ current = 0
  /\ \E r \in 1..MaxRequests : r > newest /\ newest' = r /\ current' = r
  /\ owed' = 0
  /\ UNCHANGED open

Serve ==
  /\ open /\ current = 0 /\ owed # 0
  /\ current' = owed /\ owed' = 0
  /\ UNCHANGED <<newest, open>>

(* Service ends; the request that waited meanwhile is next. *)
Finish ==
  /\ open /\ current # 0
  /\ current' = owed /\ owed' = 0
  /\ UNCHANGED <<newest, open>>

Close ==
  /\ open
  /\ open' = FALSE /\ owed' = 0 /\ current' = 0
  /\ UNCHANGED newest

Next == Accept \/ AcceptAndServe \/ Serve \/ Finish \/ Close

Spec     == Init /\ [][Next]_lvars
FairSpec == Spec /\ WF_lvars(Serve) /\ WF_lvars(Finish)
=============================================================================
