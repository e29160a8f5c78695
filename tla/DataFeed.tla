------------------------------ MODULE DataFeed ------------------------------
(***************************************************************************)
(* One browser tab's connection to the integration, and the feed every     *)
(* view of that tab shares (cards/shared/data/data-changed.ts).            *)
(*                                                                         *)
(* A websocket keeps the order of what the server sends: an answer and an  *)
(* announcement reach the tab in the order in which they were made.  What  *)
(* the tab asks waits in toServer until the server takes it up, in any     *)
(* order.  Data is its version: version[k] counts the changes of kind k.   *)
(***************************************************************************)
EXTENDS Naturals, Sequences

CONSTANTS Kinds,        \* the kinds of data the server announces
          MaxChanges    \* bound on the changes of one kind

ASSUME MaxChangesAssumption == MaxChanges \in Nat

VARIABLES version,      \* [Kinds -> Nat]
          toServer,     \* commands the server has not answered
          toClient,     \* answers and announcements on their way to the tab
          hidden,       \* document.hidden
          pending,      \* _pendingKinds
          timer,        \* _flushTimer is set
          listeners     \* _listeners: who has subscribed to the feed

feedVars == <<hidden, pending, timer, listeners>>
wireVars == <<version, toServer, toClient>>

FeedTypeOK ==
    /\ version \in [Kinds -> 0..MaxChanges]
    /\ hidden \in BOOLEAN
    /\ pending \subseteq Kinds
    /\ timer \in BOOLEAN

FeedInit ==
    /\ version = [k \in Kinds |-> 0]
    /\ toServer = {}
    /\ toClient = <<>>
    /\ hidden = FALSE
    /\ pending = {}
    /\ timer = FALSE
    /\ listeners = {}

Event(k) == [event |-> k]
IsEvent(m) == "event" \in DOMAIN m

\* EVENT_DATA_CHANGED reaches the tab only through an open subscription.
Announced(k, messages) ==
    IF listeners = {} THEN messages ELSE Append(messages, Event(k))

\* The data of kind k changes behind the tab's back.
ServerChanges(k) ==
    /\ version[k] < MaxChanges
    /\ version' = [version EXCEPT ![k] = @ + 1]
    /\ toClient' = Announced(k, toClient)
    /\ UNCHANGED toServer

\* The first subscriber opens the subscription.
Subscribed(who) ==
    /\ listeners' = listeners \union who
    /\ UNCHANGED <<hidden, pending, timer>>

\* The last one to leave disposes of the feed: what is pending is dropped, and
\* what is still on its way belongs to a feed nobody holds.
Left(who) ==
    /\ listeners' = listeners \ who
    /\ UNCHANGED hidden
    /\ IF listeners \subseteq who
       THEN /\ pending' = {}
            /\ timer' = FALSE
            /\ toClient' = SelectSeq(toClient, LAMBDA m : ~IsEvent(m))
       ELSE UNCHANGED <<pending, timer, toClient>>

\* A hidden tab keeps the kind; a visible one sends the batch out 400 ms after
\* its first event.
OnEvent ==
    /\ toClient # <<>>
    /\ IsEvent(Head(toClient))
    /\ pending' = pending \union {Head(toClient).event}
    /\ timer' = (timer \/ ~hidden)
    /\ toClient' = Tail(toClient)
    /\ UNCHANGED <<hidden, listeners, version, toServer>>

\* The timer fires; the caller says what the listeners do with the kinds.
TimerFires ==
    /\ timer
    /\ timer' = FALSE
    /\ pending' = {}
    /\ UNCHANGED <<hidden, listeners>>

\* The tab comes back with something pending: out with it, ahead of the timer.
ComesBackWithNews ==
    /\ hidden /\ pending # {}
    /\ hidden' = FALSE
    /\ pending' = {}
    /\ timer' = FALSE
    /\ UNCHANGED listeners

FeedFlushes == TimerFires \/ ComesBackWithNews

TabHides ==
    /\ ~hidden
    /\ hidden' = TRUE
    /\ UNCHANGED <<pending, timer, listeners>>

TabShows ==
    /\ hidden /\ pending = {}
    /\ hidden' = FALSE
    /\ UNCHANGED <<pending, timer, listeners>>
=============================================================================
