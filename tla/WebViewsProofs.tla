---------------------------- MODULE WebViewsProofs ----------------------------
(***************************************************************************)
(* The surfaces of a tab, for any number of edits, requests and saves of   *)
(* other clients.  First the connection that the configuration's surfaces  *)
(* share: what is out, what comes back, and what a save that is out can    *)
(* still do to the stored document.  Then, each over it, the panel, the    *)
(* dialogs and the switches of a Control view; then the answers about a    *)
(* draft.  Then the detail of a node and the solar inspector, which read   *)
(* on their own.  Last the surfaces side by side, and the theorems; what   *)
(* the dialogs' history needs is in DialogHistoryProofs.                   *)
(***************************************************************************)
EXTENDS MCWebViews, FiniteSetTheorems, TLAPS
----------------------------------------------------------------------------
(* The wire of the configuration.                                                 *)

AskRec == [ask : {"get"}, by : Nat] \union [ask : {"check"}, doc : Docs, by : Nat]
          \union [ask : {"save"}, doc : Docs, expected : Docs]
ReplyRec == [answer : {"doc", "report"}, doc : Docs, by : Nat] \union [answer : {"noDoc"}, by : Nat]
            \union [answer : {"conflict", "invalid", "event"}, doc : Docs] \union [answer : {"refused"}]
            \union [answer : {"saved"}, doc : Docs, reloaded : BOOLEAN]
Serving == [stage : {"writing"}] \union [stage : {"reloading"}, doc : Docs]

WireTyped ==
  /\ store \in Docs /\ serving \in Serving \union {None}
  /\ reloading \in BOOLEAN /\ overlapped \in BOOLEAN
  /\ asks \in Seq(AskRec) /\ answers \in Seq(ReplyRec)
  /\ heard \in Docs \union {None}
  /\ asked \in 0..MaxAsked /\ edits \in 0..MaxEdits

(* What is asked for, and what is answered: a read or a check by its number, or a *)
(* save.                                                                          *)
ReplySort(m) == IF m.answer \in {"doc", "noDoc"} THEN "get"
                ELSE IF m.answer = "report" THEN "check"
                ELSE IF m.answer = "event" THEN "event" ELSE "save"
IsAsk(m, sort, by)   == m.ask = sort /\ (sort # "save" => m.by = by)
IsReply(m, sort, by) == ReplySort(m) = sort /\ (sort # "save" => m.by = by)
AskAt(qs, n, sort, by)   == n \in 1..Len(qs) /\ IsAsk(qs[n], sort, by)
ReplyAt(qa, n, sort, by) == n \in 1..Len(qa) /\ IsReply(qa[n], sort, by)

(* None of a sort is out, or at most one is.                                      *)
NoneOut(sort, by, qs, s, qa) ==
  /\ \A n \in Nat : ~AskAt(qs, n, sort, by)
  /\ \A n \in Nat : ~ReplyAt(qa, n, sort, by)
  /\ sort = "save" => s = None
OneOut(sort, by, qs, s, qa) ==
  /\ \A m, n \in Nat : AskAt(qs, m, sort, by) /\ AskAt(qs, n, sort, by) => m = n
  /\ \A m, n \in Nat : ReplyAt(qa, m, sort, by) /\ ReplyAt(qa, n, sort, by) => m = n
  /\ \A m, n \in Nat : ~(AskAt(qs, m, sort, by) /\ ReplyAt(qa, n, sort, by))
  /\ sort = "save" /\ s # None => \A n \in Nat : ~AskAt(qs, n, sort, by) /\ ~ReplyAt(qa, n, sort, by)

(* What a check or a save was made with comes back with its report or refusal.    *)
Carries(doc, sort, by, qs, qa) ==
  /\ \A n \in Nat : AskAt(qs, n, sort, by) => qs[n].doc = doc
  /\ \A n \in Nat : ReplyAt(qa, n, sort, by) /\ qa[n].answer \in {"report", "invalid"} => qa[n].doc = doc

LEMMA AskFields ==
  ASSUME NEW m \in AskRec
  PROVE  /\ m.ask \in {"get", "check", "save"}
         /\ m.ask # "save" => m.by \in Nat
         /\ m.ask # "get" => m.doc \in Docs
         /\ m.ask = "save" => m.expected \in Docs
BY DEF AskRec

LEMMA ReplyFields ==
  ASSUME NEW m \in ReplyRec
  PROVE  /\ m.answer \in {"doc", "noDoc", "report", "conflict", "invalid", "event", "refused", "saved"}
         /\ m.answer \in {"doc", "noDoc", "report"} => m.by \in Nat
         /\ m.answer \notin {"noDoc", "refused"} => m.doc \in Docs
         /\ m.answer = "saved" => m.reloaded \in BOOLEAN
BY DEF ReplyRec

LEMMA QueueTail ==
  ASSUME NEW S, NEW q \in Seq(S), q # <<>>
  PROVE  /\ Tail(q) \in Seq(S) /\ Len(Tail(q)) = Len(q) - 1 /\ Len(q) \in Nat \ {0}
         /\ \A n \in 1..Len(Tail(q)) : n + 1 \in 1..Len(q) /\ Tail(q)[n] = q[n + 1]
         /\ Head(q) = q[1] /\ Head(q) \in S
OBVIOUS

LEMMA QueueAppend ==
  ASSUME NEW S, NEW q \in Seq(S), NEW m \in S
  PROVE  /\ Append(q, m) \in Seq(S) /\ Len(Append(q, m)) = Len(q) + 1 /\ Len(q) \in Nat
         /\ \A n \in 1..Len(q) : Append(q, m)[n] = q[n]
         /\ Append(q, m)[Len(q) + 1] = m
OBVIOUS

LEMMA AskTail ==
  ASSUME NEW q \in Seq(AskRec), q # <<>>, NEW sort, NEW by
  PROVE  /\ \A n \in Nat : AskAt(Tail(q), n, sort, by)
                             => n + 1 \in Nat /\ AskAt(q, n + 1, sort, by) /\ Tail(q)[n] = q[n + 1]
         /\ IsAsk(Head(q), sort, by) => AskAt(q, 1, sort, by)
         /\ Tail(q) \in Seq(AskRec) /\ Head(q) = q[1] /\ Head(q) \in AskRec
BY QueueTail DEF AskAt

LEMMA ReplyTail ==
  ASSUME NEW q \in Seq(ReplyRec), q # <<>>, NEW sort, NEW by
  PROVE  /\ \A n \in Nat : ReplyAt(Tail(q), n, sort, by)
                             => n + 1 \in Nat /\ ReplyAt(q, n + 1, sort, by) /\ Tail(q)[n] = q[n + 1]
         /\ IsReply(Head(q), sort, by) => ReplyAt(q, 1, sort, by)
         /\ Tail(q) \in Seq(ReplyRec) /\ Head(q) = q[1] /\ Head(q) \in ReplyRec
BY QueueTail DEF ReplyAt

LEMMA AskAppend ==
  ASSUME NEW q \in Seq(AskRec), NEW m \in AskRec, NEW sort, NEW by
  PROVE  /\ \A n \in Nat : AskAt(Append(q, m), n, sort, by)
                             => \/ AskAt(q, n, sort, by) /\ Append(q, m)[n] = q[n]
                                \/ n = Len(q) + 1 /\ IsAsk(m, sort, by) /\ Append(q, m)[n] = m
         /\ Append(q, m) \in Seq(AskRec) /\ Len(q) \in Nat
         /\ \A n \in Nat : AskAt(q, n, sort, by) => n <= Len(q)
BY QueueAppend DEF AskAt

LEMMA ReplyAppend ==
  ASSUME NEW q \in Seq(ReplyRec), NEW m \in ReplyRec, NEW sort, NEW by
  PROVE  /\ \A n \in Nat : ReplyAt(Append(q, m), n, sort, by)
                             => \/ ReplyAt(q, n, sort, by) /\ Append(q, m)[n] = q[n]
                                \/ n = Len(q) + 1 /\ IsReply(m, sort, by) /\ Append(q, m)[n] = m
         /\ Append(q, m) \in Seq(ReplyRec) /\ Len(q) \in Nat
         /\ \A n \in Nat : ReplyAt(q, n, sort, by) => n <= Len(q)
BY QueueAppend DEF ReplyAt

Sorts == {"get", "check", "save"}

(* A message more, or one less, at one end of the wire.                           *)
LEMMA OutAsked ==
  ASSUME NEW qs \in Seq(AskRec), NEW s, NEW qa \in Seq(ReplyRec), NEW m \in AskRec,
         NEW sort \in Sorts, NEW by, NEW doc
  PROVE  /\ ~IsAsk(m, sort, by) /\ NoneOut(sort, by, qs, s, qa) => NoneOut(sort, by, Append(qs, m), s, qa)
         /\ ~IsAsk(m, sort, by) /\ OneOut(sort, by, qs, s, qa) => OneOut(sort, by, Append(qs, m), s, qa)
         /\ NoneOut(sort, by, qs, s, qa) => OneOut(sort, by, Append(qs, m), s, qa)
         /\ (IsAsk(m, sort, by) => m.doc = doc) /\ Carries(doc, sort, by, qs, qa)
              => Carries(doc, sort, by, Append(qs, m), qa)
<1>1. /\ \A n \in Nat : AskAt(Append(qs, m), n, sort, by)
                             => \/ AskAt(qs, n, sort, by) /\ Append(qs, m)[n] = qs[n]
                                \/ n = Len(qs) + 1 /\ IsAsk(m, sort, by) /\ Append(qs, m)[n] = m
  BY QueueAppend DEF AskAt
<1> QED
  BY <1>1 DEF NoneOut, OneOut, Carries

LEMMA OutTaken ==
  ASSUME NEW qs \in Seq(AskRec), NEW s, NEW qa \in Seq(ReplyRec), qa # <<>>,
         NEW sort \in Sorts, NEW by, NEW doc
  PROVE  /\ NoneOut(sort, by, qs, s, qa) => NoneOut(sort, by, qs, s, Tail(qa))
         /\ OneOut(sort, by, qs, s, qa) => OneOut(sort, by, qs, s, Tail(qa))
         /\ OneOut(sort, by, qs, s, qa) /\ IsReply(Head(qa), sort, by) => NoneOut(sort, by, qs, s, Tail(qa))
         /\ Carries(doc, sort, by, qs, qa) => Carries(doc, sort, by, qs, Tail(qa))
<1>1. /\ \A n \in Nat : ReplyAt(Tail(qa), n, sort, by)
                             => n + 1 \in Nat /\ ReplyAt(qa, n + 1, sort, by) /\ Tail(qa)[n] = qa[n + 1]
      /\ IsReply(Head(qa), sort, by) => ReplyAt(qa, 1, sort, by)
  BY ReplyTail
<1>2. \A m, n \in Nat : m + 1 = n + 1 => m = n
  OBVIOUS
<1>3. \A n \in Nat : n + 1 = 1 => n = 0
  OBVIOUS
<1>4. \A n \in Nat : ReplyAt(Tail(qa), n, sort, by) => n # 0
  BY DEF ReplyAt
<1>5. 1 \in Nat
  OBVIOUS
<1>6. NoneOut(sort, by, qs, s, qa) => NoneOut(sort, by, qs, s, Tail(qa))
  BY <1>1 DEF NoneOut
<1>7. OneOut(sort, by, qs, s, qa) => OneOut(sort, by, qs, s, Tail(qa))
  BY <1>1, <1>2 DEF OneOut
<1>8. OneOut(sort, by, qs, s, qa) /\ IsReply(Head(qa), sort, by) => NoneOut(sort, by, qs, s, Tail(qa))
  BY <1>1, <1>3, <1>4, <1>5 DEF OneOut, NoneOut
<1>9. Carries(doc, sort, by, qs, qa) => Carries(doc, sort, by, qs, Tail(qa))
  BY <1>1 DEF Carries
<1> QED
  BY <1>6, <1>7, <1>8, <1>9

LEMMA OutReplied ==
  ASSUME NEW qs \in Seq(AskRec), NEW s, NEW qa \in Seq(ReplyRec), NEW m \in ReplyRec,
         NEW sort \in Sorts, NEW by, NEW doc, ~IsReply(m, sort, by)
  PROVE  /\ NoneOut(sort, by, qs, s, qa) => NoneOut(sort, by, qs, s, Append(qa, m))
         /\ OneOut(sort, by, qs, s, qa) => OneOut(sort, by, qs, s, Append(qa, m))
         /\ Carries(doc, sort, by, qs, qa) => Carries(doc, sort, by, qs, Append(qa, m))
<1>1. /\ \A n \in Nat : ReplyAt(Append(qa, m), n, sort, by)
                             => \/ ReplyAt(qa, n, sort, by) /\ Append(qa, m)[n] = qa[n]
                                \/ n = Len(qa) + 1 /\ IsReply(m, sort, by) /\ Append(qa, m)[n] = m
  BY ReplyAppend
<1> QED
  BY <1>1 DEF NoneOut, OneOut, Carries

(* An ask becomes its answer.                                                     *)
LEMMA OutAnswered ==
  ASSUME NEW qs \in Seq(AskRec), qs # <<>>, NEW s, NEW qa \in Seq(ReplyRec), NEW m \in ReplyRec,
         NEW sort \in Sorts, NEW by, NEW doc, IsReply(m, sort, by) => IsAsk(Head(qs), sort, by),
         m.answer \in {"report", "invalid"} => m.doc = Head(qs).doc
  PROVE  /\ NoneOut(sort, by, qs, s, qa) => NoneOut(sort, by, Tail(qs), s, Append(qa, m))
         /\ OneOut(sort, by, qs, s, qa) => OneOut(sort, by, Tail(qs), s, Append(qa, m))
         /\ Carries(doc, sort, by, qs, qa) => Carries(doc, sort, by, Tail(qs), Append(qa, m))
<1>1. /\ \A n \in Nat : ReplyAt(Append(qa, m), n, sort, by)
                             => \/ ReplyAt(qa, n, sort, by) /\ Append(qa, m)[n] = qa[n]
                                \/ n = Len(qa) + 1 /\ IsReply(m, sort, by) /\ Append(qa, m)[n] = m
  BY QueueAppend DEF ReplyAt
<1>2. /\ \A n \in Nat : AskAt(Tail(qs), n, sort, by)
                             => n + 1 \in Nat /\ AskAt(qs, n + 1, sort, by) /\ Tail(qs)[n] = qs[n + 1]
      /\ IsAsk(Head(qs), sort, by) => AskAt(qs, 1, sort, by)
      /\ Head(qs) = qs[1]
  BY AskTail
<1>3. \A m1, n1 \in Nat : m1 + 1 = n1 + 1 => m1 = n1
  OBVIOUS
<1>4. \A n \in Nat : n + 1 = 1 => n = 0
  OBVIOUS
<1>5. \A n \in Nat : AskAt(Tail(qs), n, sort, by) => n # 0
  BY DEF AskAt
<1>6. NoneOut(sort, by, qs, s, qa) => NoneOut(sort, by, Tail(qs), s, Append(qa, m))
  BY <1>1, <1>2 DEF NoneOut
<1>7. OneOut(sort, by, qs, s, qa) => OneOut(sort, by, Tail(qs), s, Append(qa, m))
  BY <1>1, <1>2, <1>3, <1>4, <1>5 DEF OneOut
<1>8. Carries(doc, sort, by, qs, qa) => Carries(doc, sort, by, Tail(qs), Append(qa, m))
  BY <1>1, <1>2 DEF Carries
<1> QED
  BY <1>6, <1>7, <1>8

(* A save is taken out of the queue, and in hand until it is answered.            *)
LEMMA OutInHand ==
  ASSUME NEW qs \in Seq(AskRec), qs # <<>>, NEW s, NEW t, NEW qa \in Seq(ReplyRec),
         NEW sort \in Sorts, NEW by, NEW doc, IsAsk(Head(qs), "save", 0)
  PROVE  /\ NoneOut(sort, by, qs, s, qa) => NoneOut(sort, by, Tail(qs), t, qa)
         /\ OneOut(sort, by, qs, s, qa) => OneOut(sort, by, Tail(qs), t, qa)
         /\ Carries(doc, sort, by, qs, qa) => Carries(doc, sort, by, Tail(qs), qa)
<1>1. /\ \A n \in Nat : AskAt(Tail(qs), n, sort, by)
                             => n + 1 \in Nat /\ AskAt(qs, n + 1, sort, by) /\ Tail(qs)[n] = qs[n + 1]
      /\ IsAsk(Head(qs), sort, by) => AskAt(qs, 1, sort, by)
      /\ Head(qs) = qs[1]
  BY AskTail
<1>2. sort = "save" => AskAt(qs, 1, sort, by)
  BY <1>1 DEF IsAsk
<1>3. \A m, n \in Nat : m + 1 = n + 1 => m = n
  OBVIOUS
<1>4. \A n \in Nat : n + 1 = 1 => n = 0
  OBVIOUS
<1>5. \A n \in Nat : AskAt(Tail(qs), n, sort, by) => n # 0
  BY DEF AskAt
<1>6. NoneOut(sort, by, qs, s, qa) => NoneOut(sort, by, Tail(qs), t, qa)
  BY <1>1, <1>2 DEF NoneOut
<1>7. OneOut(sort, by, qs, s, qa) => OneOut(sort, by, Tail(qs), t, qa)
  BY <1>1, <1>2, <1>3, <1>4, <1>5 DEF OneOut
<1>8. Carries(doc, sort, by, qs, qa) => Carries(doc, sort, by, Tail(qs), qa)
  BY <1>1 DEF Carries
<1> QED
  BY <1>6, <1>7, <1>8

LEMMA OutSaved ==
  ASSUME NEW qs \in Seq(AskRec), NEW s, s # None, NEW qa \in Seq(ReplyRec), NEW m \in ReplyRec,
         NEW sort \in Sorts, NEW by, NEW doc, m.answer = "saved"
  PROVE  /\ NoneOut(sort, by, qs, s, qa) => NoneOut(sort, by, qs, None, Append(qa, m))
         /\ OneOut(sort, by, qs, s, qa) => OneOut(sort, by, qs, None, Append(qa, m))
         /\ Carries(doc, sort, by, qs, qa) => Carries(doc, sort, by, qs, Append(qa, m))
<1>1. /\ \A n \in Nat : ReplyAt(Append(qa, m), n, sort, by)
                             => \/ ReplyAt(qa, n, sort, by) /\ Append(qa, m)[n] = qa[n]
                                \/ n = Len(qa) + 1 /\ IsReply(m, sort, by) /\ Append(qa, m)[n] = m
  BY QueueAppend DEF ReplyAt
<1>2. sort # "save" => ~IsReply(m, sort, by)
  BY DEF IsReply, ReplySort, Sorts
<1>3. NoneOut(sort, by, qs, s, qa) => NoneOut(sort, by, qs, None, Append(qa, m))
  BY <1>1, <1>2 DEF NoneOut
<1>4. OneOut(sort, by, qs, s, qa) => OneOut(sort, by, qs, None, Append(qa, m))
  BY <1>1, <1>2 DEF OneOut
<1>5. Carries(doc, sort, by, qs, qa) => Carries(doc, sort, by, qs, Append(qa, m))
  BY <1>1 DEF Carries
<1> QED
  BY <1>3, <1>4, <1>5

LEMMA Replies ==
  ASSUME NEW doc \in Docs, NEW by \in Nat
  PROVE  /\ [answer |-> "doc", doc |-> doc, by |-> by] \in ReplyRec
         /\ [answer |-> "noDoc", by |-> by] \in ReplyRec
         /\ [answer |-> "report", doc |-> doc, by |-> by] \in ReplyRec
         /\ [answer |-> "conflict", doc |-> doc] \in ReplyRec
         /\ [answer |-> "invalid", doc |-> doc] \in ReplyRec
         /\ [answer |-> "refused"] \in ReplyRec
         /\ [answer |-> "event", doc |-> doc] \in ReplyRec
         /\ \A ok \in BOOLEAN : [answer |-> "saved", doc |-> doc, reloaded |-> ok] \in ReplyRec
BY DEF ReplyRec

LEMMA TwoMore ==
  ASSUME NEW S, NEW q \in Seq(S), NEW a \in S, NEW b \in S
  PROVE  q \o <<a, b>> = Append(Append(q, a), b) /\ Append(q, a) \in Seq(S)
OBVIOUS

(* What one step of the server, or an announcement, does to the wire: a read or a *)
(* check is answered, a save is refused, taken in hand, written or answered,      *)
(* another client saves, or an announcement is sent or heard.                     *)
Refusal(m) == m.answer \in {"conflict", "invalid", "refused"}
GetServed ==
  \E m \in ReplyRec : /\ asks # <<>> /\ Head(asks).ask = "get"
                      /\ m.answer \in {"doc", "noDoc"} /\ m.by = Head(asks).by
                      /\ m.answer = "doc" => m.doc = store
                      /\ asks' = Tail(asks) /\ answers' = Append(answers, m)
                      /\ UNCHANGED <<store, serving, reloading, overlapped, heard, asked>>
CheckServed ==
  \E m \in ReplyRec : /\ asks # <<>> /\ Head(asks).ask = "check"
                      /\ m.answer = "report" /\ m.by = Head(asks).by /\ m.doc = Head(asks).doc
                      /\ asks' = Tail(asks) /\ answers' = Append(answers, m)
                      /\ UNCHANGED <<store, serving, reloading, overlapped, heard, asked>>
SaveRefused ==
  \E m \in ReplyRec : /\ asks # <<>> /\ Head(asks).ask = "save"
                      /\ Refusal(m)
                      /\ m.answer = "invalid" => m.doc = Head(asks).doc
                      /\ m.answer = "conflict" => m.doc = store
                      /\ asks' = Tail(asks) /\ answers' = Append(answers, m)
                      /\ UNCHANGED <<store, serving, reloading, overlapped, heard, asked>>
SaveTaken ==
  /\ asks # <<>> /\ Head(asks).ask = "save" /\ Head(asks).expected = store
  /\ asks' = Tail(asks) /\ store' = Head(asks).doc /\ serving' = [stage |-> "writing"]
  /\ UNCHANGED <<reloading, overlapped, answers, heard, asked>>
SaveAnnounced ==
  \E m \in ReplyRec : /\ serving # None /\ serving.stage = "reloading"
                      /\ m.answer = "saved" /\ m.doc = serving.doc
                      /\ serving' = None
                      /\ \/ answers' = Append(answers, m)
                         \/ answers' = Append(Append(answers, [answer |-> "event", doc |-> store]), m)
                      /\ UNCHANGED <<store, reloading, overlapped, asks, heard, asked>>

ServerStep ==
  GetServed \/ CheckServed \/ SaveRefused \/ SaveTaken \/ SaveWritten \/ SaveAnnounced
  \/ AnotherSaves \/ AnothersReloaded \/ Hears

LEMMA ServerSteps ==
  ASSUME WireTyped, Server
  PROVE  ServerStep
<1>1. /\ store \in Docs /\ serving \in Serving \union {None}
      /\ asks \in Seq(AskRec) /\ answers \in Seq(ReplyRec)
  BY DEF WireTyped
<1>2. asks # <<>> => Head(asks) \in AskRec
  BY <1>1, QueueTail
<1>3. CASE AnswersGet
  <2>1. Head(asks).by \in Nat /\ asks # <<>> /\ Head(asks).ask = "get"
    BY <1>2, <1>3, AskFields DEF AnswersGet
  <2>2. PICK m \in { [answer |-> "doc", doc |-> store, by |-> Head(asks).by],
                     [answer |-> "noDoc", by |-> Head(asks).by] } : answers' = Append(answers, m)
    BY <1>3 DEF AnswersGet, Answer
  <2>3. m \in ReplyRec
    BY <1>1, <2>1, <2>2, Replies
  <2>4. m.answer \in {"doc", "noDoc"} /\ m.by = Head(asks).by /\ (m.answer = "doc" => m.doc = store)
    BY <2>2
  <2>5. GetServed
    BY <1>3, <2>1, <2>2, <2>3, <2>4 DEF AnswersGet, GetServed
  <2> QED
    BY <2>5 DEF ServerStep
<1>4. CASE AnswersCheck
  <2>1. Head(asks).by \in Nat /\ Head(asks).doc \in Docs /\ asks # <<>> /\ Head(asks).ask = "check"
    BY <1>2, <1>4, AskFields DEF AnswersCheck
  <2> DEFINE m == [answer |-> "report", doc |-> Head(asks).doc, by |-> Head(asks).by]
  <2>2. m \in ReplyRec
    BY <2>1, Replies
  <2>3. m.answer = "report" /\ m.by = Head(asks).by /\ m.doc = Head(asks).doc
    OBVIOUS
  <2>4. answers' = Append(answers, m)
    BY <1>4 DEF AnswersCheck, Answer
  <2> HIDE DEF m
  <2>5. CheckServed
    BY <1>4, <2>1, <2>2, <2>3, <2>4 DEF AnswersCheck, CheckServed
  <2> QED
    BY <2>5 DEF ServerStep
<1>5. CASE TakesSave
  <2>1. /\ Head(asks).doc \in Docs /\ Head(asks).expected \in Docs
        /\ asks # <<>> /\ Head(asks).ask = "save" /\ asks' = Tail(asks)
        /\ UNCHANGED <<reloading, overlapped, heard, asked>>
    BY <1>2, <1>5, AskFields DEF TakesSave
  <2>2. ASSUME NEW m \in ReplyRec, answers' = Append(answers, m), UNCHANGED <<store, serving>>, Refusal(m),
               m.answer = "invalid" => m.doc = Head(asks).doc,
               m.answer = "conflict" => m.doc = store
        PROVE  ServerStep
    BY <2>1, <2>2 DEF SaveRefused, ServerStep
  <2>3. CASE Answer([answer |-> "conflict", doc |-> store]) /\ UNCHANGED <<store, serving>>
    <3>1. [answer |-> "conflict", doc |-> store] \in ReplyRec
      BY <1>1, Replies
    <3> QED
      BY <2>2, <2>3, <3>1 DEF Answer, Refusal
  <2>4. CASE Answer([answer |-> "invalid", doc |-> Head(asks).doc]) /\ UNCHANGED <<store, serving>>
    <3>1. [answer |-> "invalid", doc |-> Head(asks).doc] \in ReplyRec
      BY <2>1, Replies
    <3> QED
      BY <2>2, <2>4, <3>1 DEF Answer, Refusal
  <2>5. CASE Answer([answer |-> "refused"]) /\ UNCHANGED <<store, serving>>
    <3>1. [answer |-> "refused"] \in ReplyRec
      BY <1>1, Replies
    <3> QED
      BY <2>2, <2>5, <3>1 DEF Answer, Refusal
  <2>6. CASE /\ Head(asks).expected = store /\ store' = Head(asks).doc
             /\ serving' = [stage |-> "writing"] /\ UNCHANGED answers
    BY <2>1, <2>6 DEF SaveTaken, ServerStep
  <2> QED
    BY <1>5, <2>3, <2>4, <2>5, <2>6 DEF TakesSave
<1>6. CASE SaveReloaded
  <2>1. serving # None /\ serving.stage = "reloading" /\ serving.doc \in Docs
    BY <1>1, <1>6 DEF SaveReloaded, Serving
  <2>2. /\ [answer |-> "event", doc |-> store] \in ReplyRec
        /\ [answer |-> "saved", doc |-> serving.doc, reloaded |-> TRUE] \in ReplyRec
        /\ [answer |-> "saved", doc |-> serving.doc, reloaded |-> FALSE] \in ReplyRec
    BY <1>1, <2>1, Replies
  <2>3. answers \o <<[answer |-> "event", doc |-> store],
                     [answer |-> "saved", doc |-> serving.doc, reloaded |-> TRUE]>>
        = Append(Append(answers, [answer |-> "event", doc |-> store]),
                 [answer |-> "saved", doc |-> serving.doc, reloaded |-> TRUE])
    BY <1>1, <2>2, TwoMore
  <2>4. PICK m \in { [answer |-> "saved", doc |-> serving.doc, reloaded |-> TRUE],
                     [answer |-> "saved", doc |-> serving.doc, reloaded |-> FALSE] } :
          \/ answers' = Append(answers, m)
          \/ answers' = Append(Append(answers, [answer |-> "event", doc |-> store]), m)
    BY <1>6, <2>3 DEF SaveReloaded, Answer
  <2>5. m.answer = "saved" /\ m.doc = serving.doc /\ m \in ReplyRec
    <3>1. m \in ReplyRec
      BY <2>2, <2>4
    <3>2. m.answer = "saved" /\ m.doc = serving.doc
      BY <2>4
    <3> QED
      BY <3>1, <3>2
  <2>6. SaveAnnounced
    BY <1>6, <2>1, <2>4, <2>5 DEF SaveReloaded, SaveAnnounced
  <2> QED
    BY <2>6 DEF ServerStep
<1> QED
  BY <1>3, <1>4, <1>5, <1>6 DEF Server, ServerStep

LEMMA ServerKeepsType ==
  ASSUME WireTyped, Server, edits' = edits
  PROVE  WireTyped'
<1>1. /\ store \in Docs /\ serving \in Serving \union {None} /\ reloading \in BOOLEAN
      /\ asks \in Seq(AskRec) /\ answers \in Seq(ReplyRec) /\ heard \in Docs \union {None}
      /\ overlapped \in BOOLEAN
  BY DEF WireTyped
<1>2. asks # <<>> => Head(asks) \in AskRec /\ Tail(asks) \in Seq(AskRec)
  BY <1>1, QueueTail
<1>3. \A m \in ReplyRec : Append(answers, m) \in Seq(ReplyRec)
  BY <1>1, QueueAppend
<1>4. CASE GetServed \/ CheckServed \/ SaveRefused
  BY <1>2, <1>3, <1>4 DEF WireTyped, GetServed, CheckServed, SaveRefused
<1>5. CASE SaveTaken
  <2>1. Head(asks).doc \in Docs
    BY <1>2, <1>5, AskFields DEF SaveTaken
  <2>2. [stage |-> "writing"] \in Serving
    BY DEF Serving
  <2> QED
    BY <1>2, <1>5, <2>1, <2>2 DEF WireTyped, SaveTaken
<1>6. CASE SaveWritten
  <2>1. [stage |-> "reloading", doc |-> store] \in Serving
    BY <1>1 DEF Serving
  <2> QED
    BY <1>6, <2>1 DEF WireTyped, SaveWritten
<1>7. CASE SaveAnnounced
  <2>1. PICK m \in ReplyRec : /\ \/ answers' = Append(answers, m)
                                 \/ answers' = Append(Append(answers, [answer |-> "event", doc |-> store]), m)
    BY <1>7 DEF SaveAnnounced
  <2>2. [answer |-> "event", doc |-> store] \in ReplyRec
    BY <1>1, Replies
  <2>3. answers' \in Seq(ReplyRec)
    BY <1>1, <1>3, <2>1, <2>2, QueueAppend
  <2> QED
    BY <1>7, <2>3 DEF WireTyped, SaveAnnounced
<1>8. CASE AnotherSaves
  <2>1. store.others + 1 \in 0..MaxOthers
    BY <1>1, <1>8, ConfigBounds DEF AnotherSaves, Docs
  <2>2. [store EXCEPT !.others = store.others + 1] \in Docs
    BY <1>1, <2>1 DEF Docs
  <2>3. store' \in Docs
    BY <1>8, <2>2 DEF AnotherSaves
  <2>4. overlapped' \in BOOLEAN
    BY <1>8 DEF AnotherSaves
  <2> QED
    BY <1>8, <2>3, <2>4 DEF WireTyped, AnotherSaves
<1>9. CASE AnothersReloaded
  <2>1. [answer |-> "event", doc |-> store] \in ReplyRec
    BY <1>1, Replies
  <2> QED
    BY <1>3, <1>9, <2>1 DEF WireTyped, AnothersReloaded, Answer
<1>10. CASE Hears
  <2>1. Head(answers) \in ReplyRec /\ Tail(answers) \in Seq(ReplyRec) /\ Head(answers).doc \in Docs
    BY <1>1, <1>10, QueueTail, ReplyFields DEF Hears
  <2> QED
    BY <1>10, <2>1 DEF WireTyped, Hears, Taken
<1> QED
  BY <1>4, <1>5, <1>6, <1>7, <1>8, <1>9, <1>10, ServerSteps DEF ServerStep

(* No step of the server brings out what is not out, or twice what is out once;   *)
(* and what comes back is what went.                                              *)
LEMMA ServerKeepsOut ==
  ASSUME WireTyped, Server, NEW sort \in Sorts, NEW by, NEW doc
  PROVE  /\ NoneOut(sort, by, asks, serving, answers) => NoneOut(sort, by, asks', serving', answers')
         /\ OneOut(sort, by, asks, serving, answers) => OneOut(sort, by, asks', serving', answers')
         /\ Carries(doc, sort, by, asks, answers) => Carries(doc, sort, by, asks', answers')
<1>1. /\ store \in Docs /\ asks \in Seq(AskRec) /\ answers \in Seq(ReplyRec)
  BY DEF WireTyped
<1>2. [answer |-> "event", doc |-> store] \in ReplyRec
      /\ ~IsReply([answer |-> "event", doc |-> store], sort, by)
  BY <1>1, Replies DEF IsReply, ReplySort, Sorts
<1>3. CASE GetServed
  <2>1. PICK m \in ReplyRec : /\ asks # <<>> /\ Head(asks).ask = "get"
                              /\ m.answer \in {"doc", "noDoc"} /\ m.by = Head(asks).by
                              /\ asks' = Tail(asks) /\ answers' = Append(answers, m) /\ serving' = serving
    BY <1>3 DEF GetServed
  <2>2. IsReply(m, sort, by) => IsAsk(Head(asks), sort, by)
    BY <2>1 DEF IsReply, IsAsk, ReplySort, Sorts
  <2>3. m.answer \notin {"report", "invalid"}
    BY <2>1
  <2> QED
    BY <1>1, <2>1, <2>2, <2>3, OutAnswered
<1>4. CASE CheckServed
  <2>1. PICK m \in ReplyRec : /\ asks # <<>> /\ Head(asks).ask = "check"
                              /\ m.answer = "report" /\ m.by = Head(asks).by /\ m.doc = Head(asks).doc
                              /\ asks' = Tail(asks) /\ answers' = Append(answers, m) /\ serving' = serving
    BY <1>4 DEF CheckServed
  <2>2. IsReply(m, sort, by) => IsAsk(Head(asks), sort, by)
    BY <2>1 DEF IsReply, IsAsk, ReplySort, Sorts
  <2> QED
    BY <1>1, <2>1, <2>2, OutAnswered
<1>5. CASE SaveRefused
  <2>1. PICK m \in ReplyRec : /\ asks # <<>> /\ Head(asks).ask = "save"
                              /\ Refusal(m)
                              /\ m.answer = "invalid" => m.doc = Head(asks).doc
                              /\ asks' = Tail(asks) /\ answers' = Append(answers, m) /\ serving' = serving
    BY <1>5 DEF SaveRefused
  <2>2. IsReply(m, sort, by) => IsAsk(Head(asks), sort, by)
    BY <2>1 DEF IsReply, IsAsk, ReplySort, Sorts, Refusal
  <2>3. m.answer \in {"report", "invalid"} => m.doc = Head(asks).doc
    BY <2>1 DEF Refusal
  <2> QED
    BY <1>1, <2>1, <2>2, <2>3, OutAnswered
<1>6. CASE SaveTaken
  <2>1. asks # <<>> /\ IsAsk(Head(asks), "save", 0) /\ asks' = Tail(asks) /\ answers' = answers
    BY <1>6 DEF SaveTaken, IsAsk
  <2> QED
    BY <1>1, <2>1, OutInHand
<1>7. CASE SaveWritten
  <2>1. asks' = asks /\ answers' = answers /\ serving # None
    BY <1>7 DEF SaveWritten
  <2> QED
    BY <2>1 DEF NoneOut, OneOut, Carries
<1>8. CASE SaveAnnounced
  <2>1. PICK m \in ReplyRec :
           /\ serving # None /\ serving' = None /\ asks' = asks /\ m.answer = "saved"
           /\ \/ answers' = Append(answers, m)
              \/ answers' = Append(Append(answers, [answer |-> "event", doc |-> store]), m)
    BY <1>8 DEF SaveAnnounced
  <2>2. CASE answers' = Append(answers, m)
    BY <1>1, <2>1, <2>2, OutSaved
  <2>3. CASE answers' = Append(Append(answers, [answer |-> "event", doc |-> store]), m)
    <3> DEFINE qa == Append(answers, [answer |-> "event", doc |-> store])
    <3>1. qa \in Seq(ReplyRec)
      BY <1>1, <1>2, QueueAppend
    <3>2. /\ NoneOut(sort, by, asks, serving, answers) => NoneOut(sort, by, asks, serving, qa)
          /\ OneOut(sort, by, asks, serving, answers) => OneOut(sort, by, asks, serving, qa)
          /\ Carries(doc, sort, by, asks, answers) => Carries(doc, sort, by, asks, qa)
      BY <1>1, <1>2, OutReplied
    <3>3. answers' = Append(qa, m)
      BY <2>3
    <3> HIDE DEF qa
    <3> QED
      BY <1>1, <2>1, <3>1, <3>2, <3>3, OutSaved
  <2> QED
    BY <2>1, <2>2, <2>3
<1>9. CASE AnotherSaves
  BY <1>9 DEF AnotherSaves
<1>10. CASE AnothersReloaded
  <2>1. answers' = Append(answers, [answer |-> "event", doc |-> store]) /\ asks' = asks /\ serving' = serving
    BY <1>10 DEF AnothersReloaded, Answer
  <2> QED
    BY <1>1, <1>2, <2>1, OutReplied
<1>11. CASE Hears
  <2>1. answers # <<>> /\ answers' = Tail(answers) /\ asks' = asks /\ serving' = serving
    BY <1>11 DEF Hears, Taken
  <2> QED
    BY <1>1, <2>1, OutTaken
<1> QED
  BY <1>3, <1>4, <1>5, <1>6, <1>7, <1>8, <1>9, <1>10, <1>11, ServerSteps DEF ServerStep

(* No save under way is made from fewer of the other clients' saves than the      *)
(* revision it names; none brings more of them than n; and what is read, saved or *)
(* in conflict, with the number by, has at least n of them.                       *)
SavesSafe(qs) == \A m \in Nat : AskAt(qs, m, "save", 0) => qs[m].doc.others >= qs[m].expected.others
SavesWithin(n, qs, s, st, qa) ==
  /\ \A m \in Nat : AskAt(qs, m, "save", 0) => qs[m].doc.others <= n
  /\ s # None /\ s.stage = "writing" => st.others <= n
  /\ s # None /\ s.stage = "reloading" => s.doc.others <= n
  /\ \A m \in Nat : ReplyAt(qa, m, "save", 0) /\ qa[m].answer = "saved" => qa[m].doc.others <= n
AnswersFrom(n, by, s, st, qa) ==
  /\ st.others >= n
  /\ s # None /\ s.stage = "reloading" => s.doc.others >= n
  /\ \A m \in Nat : ReplyAt(qa, m, "save", 0) /\ qa[m].answer \in {"saved", "conflict"} => qa[m].doc.others >= n
  /\ \A m \in Nat : ReplyAt(qa, m, "get", by) /\ qa[m].answer = "doc" => qa[m].doc.others >= n

LEMMA ServerSavesSafe ==
  ASSUME WireTyped, Server, SavesSafe(asks)
  PROVE  SavesSafe(asks') /\ store'.others >= store.others /\ (overlapped => overlapped')
<1>1. /\ store \in Docs /\ asks \in Seq(AskRec) /\ store.others \in Nat
  BY ConfigBounds DEF WireTyped, Docs
<1>2. CASE GetServed \/ CheckServed \/ SaveRefused \/ SaveTaken
  <2>0. asks # <<>> /\ asks' = Tail(asks)
    BY <1>2 DEF GetServed, CheckServed, SaveRefused, SaveTaken
  <2>1. \A n \in Nat : AskAt(Tail(asks), n, "save", 0)
                         => n + 1 \in Nat /\ AskAt(asks, n + 1, "save", 0) /\ Tail(asks)[n] = asks[n + 1]
    BY <1>1, <2>0, AskTail
  <2>2. SavesSafe(asks')
    BY <2>0, <2>1 DEF SavesSafe
  <2>3. CASE store' = store /\ overlapped' = overlapped
    BY <1>1, <2>2, <2>3
  <2>4. CASE SaveTaken
    <3>1. IsAsk(Head(asks), "save", 0) /\ Head(asks) = asks[1] /\ AskAt(asks, 1, "save", 0)
      BY <1>1, <2>0, <2>4, AskTail DEF SaveTaken, IsAsk
    <3>2. asks[1].doc.others >= asks[1].expected.others
      BY <3>1 DEF SavesSafe
    <3> QED
      BY <2>2, <2>4, <3>1, <3>2 DEF SaveTaken
  <2> QED
    BY <1>2, <2>3, <2>4 DEF GetServed, CheckServed, SaveRefused
<1>3. CASE asks' = asks /\ store' = store /\ overlapped' = overlapped
  BY <1>1, <1>3
<1>4. CASE AnotherSaves
  <2>1. store'.others = store.others + 1
    BY <1>1, <1>4 DEF AnotherSaves, Docs
  <2>2. asks' = asks /\ (overlapped => overlapped')
    BY <1>4 DEF AnotherSaves
  <2> QED
    BY <1>1, <2>1, <2>2
<1> QED
  BY <1>2, <1>3, <1>4, ServerSteps
     DEF ServerStep, SaveWritten, SaveAnnounced, AnothersReloaded, Hears

(* Two replies more are one after the other.                                      *)
LEMMA SavedReplies ==
  ASSUME WireTyped, SaveAnnounced
  PROVE  \A m \in Nat : ReplyAt(answers', m, "save", 0) =>
           \/ ReplyAt(answers, m, "save", 0) /\ answers'[m] = answers[m]
           \/ answers'[m].answer = "saved" /\ answers'[m].doc = serving.doc
<1>1. /\ store \in Docs /\ answers \in Seq(ReplyRec)
  BY DEF WireTyped
<1>2. PICK r \in ReplyRec :
           /\ r.answer = "saved" /\ r.doc = serving.doc
           /\ \/ answers' = Append(answers, r)
              \/ answers' = Append(Append(answers, [answer |-> "event", doc |-> store]), r)
  BY DEF SaveAnnounced
<1> DEFINE e == [answer |-> "event", doc |-> store]
           qa == Append(answers, e)
<1>3. e \in ReplyRec /\ ~IsReply(e, "save", 0)
  BY <1>1, Replies DEF IsReply, ReplySort
<1> HIDE DEF e
<1>4. qa \in Seq(ReplyRec)
  BY <1>1, <1>3, QueueAppend
<1>5. \A m \in Nat : ReplyAt(qa, m, "save", 0) => ReplyAt(answers, m, "save", 0) /\ qa[m] = answers[m]
  BY <1>1, <1>3, ReplyAppend
<1> HIDE DEF qa
<1>6. CASE answers' = Append(answers, r)
  BY <1>1, <1>2, <1>6, QueueAppend DEF ReplyAt
<1>7. CASE answers' = Append(qa, r)
  <2>1. \A m \in Nat : ReplyAt(answers', m, "save", 0) =>
           \/ ReplyAt(qa, m, "save", 0) /\ answers'[m] = qa[m]
           \/ answers'[m] = r
    BY <1>2, <1>4, <1>7, QueueAppend DEF ReplyAt
  <2> QED
    BY <1>2, <1>5, <2>1
<1> QED
  BY <1>2, <1>6, <1>7 DEF qa, e

LEMMA ServerSavesWithin ==
  ASSUME WireTyped, Server, ~overlapped',
         NEW n \in Nat, SavesWithin(n, asks, serving, store, answers)
  PROVE  SavesWithin(n, asks', serving', store', answers')
<1>1. /\ store \in Docs /\ asks \in Seq(AskRec) /\ answers \in Seq(ReplyRec)
      /\ serving \in Serving \union {None}
  BY DEF WireTyped
<1>2. ASSUME asks # <<>>, asks' = Tail(asks)
      PROVE  /\ \A m \in Nat : AskAt(asks', m, "save", 0) => asks'[m].doc.others <= n
             /\ Head(asks).ask = "save" => Head(asks).doc.others <= n
  <2>1. /\ \A m \in Nat : AskAt(Tail(asks), m, "save", 0)
                         => m + 1 \in Nat /\ AskAt(asks, m + 1, "save", 0) /\ Tail(asks)[m] = asks[m + 1]
        /\ IsAsk(Head(asks), "save", 0) => AskAt(asks, 1, "save", 0)
        /\ Head(asks) = asks[1]
    BY <1>1, <1>2, AskTail
  <2>2. Head(asks).ask = "save" => IsAsk(Head(asks), "save", 0)
    BY DEF IsAsk
  <2> QED
    BY <1>2, <2>1, <2>2 DEF SavesWithin
<1>3. ASSUME NEW m \in ReplyRec, answers' = Append(answers, m), m.answer # "saved"
      PROVE  \A i \in Nat : ReplyAt(answers', i, "save", 0) /\ answers'[i].answer = "saved"
                              => answers'[i].doc.others <= n
  <2>1. \A i \in Nat : ReplyAt(answers', i, "save", 0) =>
                         (ReplyAt(answers, i, "save", 0) /\ answers'[i] = answers[i]) \/ answers'[i] = m
    BY <1>1, <1>3, QueueAppend DEF ReplyAt
  <2> QED
    BY <1>3, <2>1 DEF SavesWithin
<1>4. CASE GetServed \/ CheckServed \/ SaveRefused
  <2>1. PICK m \in ReplyRec : answers' = Append(answers, m) /\ m.answer # "saved"
    BY <1>4 DEF GetServed, CheckServed, SaveRefused, Refusal
  <2>2. asks # <<>> /\ asks' = Tail(asks) /\ serving' = serving /\ store' = store
    BY <1>4 DEF GetServed, CheckServed, SaveRefused
  <2>3. \A i \in Nat : ReplyAt(answers', i, "save", 0) /\ answers'[i].answer = "saved"
                              => answers'[i].doc.others <= n
    BY <1>3, <2>1
  <2> QED
    BY <1>2, <2>2, <2>3 DEF SavesWithin
<1>5. CASE SaveTaken
  <2>1. /\ asks # <<>> /\ asks' = Tail(asks) /\ answers' = answers /\ store' = Head(asks).doc
        /\ Head(asks).ask = "save" /\ serving'.stage = "writing"
    BY <1>5 DEF SaveTaken
  <2> QED
    BY <1>2, <2>1 DEF SavesWithin
<1>6. CASE SaveWritten
  <2>1. serving'.stage = "reloading" /\ serving'.doc = store
    BY <1>6 DEF SaveWritten
  <2> QED
    BY <1>6, <2>1 DEF SavesWithin, SaveWritten
<1>7. CASE SaveAnnounced
  <2>1. \A m \in Nat : ReplyAt(answers', m, "save", 0) /\ answers'[m].answer = "saved"
                         => answers'[m].doc.others <= n
    BY <1>7, SavedReplies DEF SavesWithin, SaveAnnounced
  <2> QED
    BY <1>7, <2>1 DEF SavesWithin, SaveAnnounced
<1>8. CASE AnotherSaves
  BY <1>8 DEF SavesWithin, AnotherSaves
<1>9. CASE AnothersReloaded
  <2>1. [answer |-> "event", doc |-> store] \in ReplyRec
    BY <1>1, Replies
  <2>2. answers' = Append(answers, [answer |-> "event", doc |-> store])
    BY <1>9 DEF AnothersReloaded, Answer
  <2>3. \A i \in Nat : ReplyAt(answers', i, "save", 0) /\ answers'[i].answer = "saved"
                              => answers'[i].doc.others <= n
    BY <1>3, <2>1, <2>2
  <2> QED
    BY <1>9, <2>3 DEF SavesWithin, AnothersReloaded
<1>10. CASE Hears
  <2>1. \A m \in Nat : ReplyAt(Tail(answers), m, "save", 0)
             => m + 1 \in Nat /\ ReplyAt(answers, m + 1, "save", 0) /\ Tail(answers)[m] = answers[m + 1]
    BY <1>1, <1>10, ReplyTail DEF Hears
  <2> QED
    BY <1>10, <2>1 DEF SavesWithin, Hears, Taken
<1> QED
  BY <1>4, <1>5, <1>6, <1>7, <1>8, <1>9, <1>10, ServerSteps DEF ServerStep

LEMMA ServerAnswersFrom ==
  ASSUME WireTyped, Server, SavesSafe(asks),
         NEW n \in Nat, NEW by, AnswersFrom(n, by, serving, store, answers)
  PROVE  AnswersFrom(n, by, serving', store', answers')
<1>1. /\ store \in Docs /\ asks \in Seq(AskRec) /\ answers \in Seq(ReplyRec)
      /\ serving \in Serving \union {None} /\ store.others \in Nat
  BY ConfigBounds DEF WireTyped, Docs
<1>2. store'.others >= n
  <2>1. store'.others >= store.others
    BY ServerSavesSafe
  <2>2. store' \in Docs
    <3>1. asks # <<>> => Head(asks) \in AskRec
      BY <1>1, QueueTail
    <3>2. CASE SaveTaken
      BY <3>1, <3>2, AskFields DEF SaveTaken
    <3>3. CASE AnotherSaves
      <4>1. store.others + 1 \in 0..MaxOthers
        BY <1>1, <3>3, ConfigBounds DEF AnotherSaves, Docs
      <4>2. [store EXCEPT !.others = store.others + 1] \in Docs
        BY <1>1, <4>1 DEF Docs
      <4> QED
        BY <3>3, <4>2 DEF AnotherSaves
    <3> QED
      BY <1>1, <3>2, <3>3, ServerSteps
         DEF ServerStep, GetServed, CheckServed, SaveRefused, SaveWritten, SaveAnnounced, AnothersReloaded, Hears
  <2>3. store'.others \in Nat
    BY <2>2, ConfigBounds DEF Docs
  <2> QED
    BY <1>1, <2>1, <2>3 DEF AnswersFrom
<1>3. ASSUME NEW m \in ReplyRec, answers' = Append(answers, m),
             m.answer \in {"saved", "conflict", "doc"} => m.doc.others >= n
      PROVE  /\ \A i \in Nat : ReplyAt(answers', i, "save", 0) /\ answers'[i].answer \in {"saved", "conflict"}
                                 => answers'[i].doc.others >= n
             /\ \A i \in Nat : ReplyAt(answers', i, "get", by) /\ answers'[i].answer = "doc"
                                 => answers'[i].doc.others >= n
  <2>1. \A sort \in {"save", "get"}, num \in {0, by} : \A i \in Nat : ReplyAt(answers', i, sort, num) =>
                         (ReplyAt(answers, i, sort, num) /\ answers'[i] = answers[i]) \/ answers'[i] = m
    BY <1>1, <1>3, QueueAppend DEF ReplyAt
  <2> QED
    BY <1>3, <2>1 DEF AnswersFrom
<1>4. CASE GetServed \/ CheckServed \/ SaveRefused
  <2>1. PICK m \in ReplyRec : /\ answers' = Append(answers, m) /\ m.answer # "saved"
                              /\ m.answer \in {"conflict", "doc"} => m.doc = store
    BY <1>4 DEF GetServed, CheckServed, SaveRefused, Refusal
  <2>2. serving' = serving
    BY <1>4 DEF GetServed, CheckServed, SaveRefused
  <2>3. m.answer \in {"saved", "conflict", "doc"} => m.doc.others >= n
    BY <2>1 DEF AnswersFrom
  <2> QED
    BY <1>2, <1>3, <2>1, <2>2, <2>3 DEF AnswersFrom
<1>5. CASE SaveTaken
  <2>1. answers' = answers /\ serving'.stage = "writing"
    BY <1>5 DEF SaveTaken
  <2> QED
    BY <1>2, <2>1 DEF AnswersFrom
<1>6. CASE SaveWritten
  <2>1. serving'.stage = "reloading" /\ serving'.doc = store /\ answers' = answers /\ store' = store
    BY <1>6 DEF SaveWritten
  <2> QED
    BY <1>2, <2>1 DEF AnswersFrom
<1>7. CASE SaveAnnounced
  <2>1. \A m \in Nat : ReplyAt(answers', m, "save", 0) /\ answers'[m].answer \in {"saved", "conflict"}
                         => answers'[m].doc.others >= n
    BY <1>7, SavedReplies DEF AnswersFrom, SaveAnnounced
  <2>2. \A m \in Nat : ReplyAt(answers', m, "get", by) => ReplyAt(answers, m, "get", by) /\ answers'[m] = answers[m]
    <3>1. PICK r \in ReplyRec :
           /\ r.answer = "saved"
           /\ \/ answers' = Append(answers, r)
              \/ answers' = Append(Append(answers, [answer |-> "event", doc |-> store]), r)
      BY <1>7 DEF SaveAnnounced
    <3> DEFINE e == [answer |-> "event", doc |-> store]
               qa == Append(answers, e)
    <3>2. e \in ReplyRec /\ ~IsReply(e, "get", by) /\ ~IsReply(r, "get", by)
      BY <1>1, <3>1, Replies DEF IsReply, ReplySort
    <3> HIDE DEF e
    <3>3. qa \in Seq(ReplyRec)
      BY <1>1, <3>2, QueueAppend
    <3>4. \A m \in Nat : ReplyAt(qa, m, "get", by) => ReplyAt(answers, m, "get", by) /\ qa[m] = answers[m]
      BY <1>1, <3>2, QueueAppend DEF ReplyAt
    <3> HIDE DEF qa
    <3>5. CASE answers' = Append(answers, r)
      BY <1>1, <3>1, <3>2, <3>5, QueueAppend DEF ReplyAt
    <3>6. CASE answers' = Append(qa, r)
      <4>1. \A m \in Nat : ReplyAt(answers', m, "get", by) => ReplyAt(qa, m, "get", by) /\ answers'[m] = qa[m]
        BY <3>1, <3>2, <3>3, <3>6, QueueAppend DEF ReplyAt
      <4> QED
        BY <3>4, <4>1
    <3> QED
      BY <3>1, <3>5, <3>6 DEF qa, e
  <2>3. serving' = None
    BY <1>7 DEF SaveAnnounced
  <2> QED
    BY <1>2, <2>1, <2>2, <2>3 DEF AnswersFrom
<1>8. CASE AnotherSaves
  BY <1>2, <1>8 DEF AnswersFrom, AnotherSaves
<1>9. CASE AnothersReloaded
  <2>1. [answer |-> "event", doc |-> store] \in ReplyRec
    BY <1>1, Replies
  <2>2. answers' = Append(answers, [answer |-> "event", doc |-> store]) /\ serving' = serving
    BY <1>9 DEF AnothersReloaded, Answer
  <2> QED
    BY <1>2, <1>3, <2>1, <2>2 DEF AnswersFrom
<1>10. CASE Hears
  <2>1. \A sort \in {"save", "get"}, num \in {0, by} : \A i \in Nat : ReplyAt(Tail(answers), i, sort, num) =>
           i + 1 \in Nat /\ ReplyAt(answers, i + 1, sort, num) /\ Tail(answers)[i] = answers[i + 1]
    BY <1>1, <1>10, QueueTail DEF ReplyAt, Hears
  <2>2. answers' = Tail(answers) /\ serving' = serving
    BY <1>10 DEF Hears, Taken
  <2> QED
    BY <1>2, <2>1, <2>2 DEF AnswersFrom
<1> QED
  BY <1>4, <1>5, <1>6, <1>7, <1>8, <1>9, <1>10, ServerSteps DEF ServerStep

----------------------------------------------------------------------------
(* The configuration panel.                                                       *)

(* A read is asked for behind the button's check, and answered behind it.         *)
ChecksFirst(qs, qa) ==
  /\ \A m, n \in Nat : AskAt(qs, m, "get", 0) /\ AskAt(qs, n, "check", 0) => n < m
  /\ \A m, n \in Nat : ReplyAt(qa, m, "get", 0) /\ ReplyAt(qa, n, "check", 0) => n < m
  /\ \A m, n \in Nat : ~(ReplyAt(qa, m, "get", 0) /\ AskAt(qs, n, "check", 0))

LEMMA ChecksAsked ==
  ASSUME NEW qs \in Seq(AskRec), NEW s, NEW qa \in Seq(ReplyRec), NEW m \in AskRec, ChecksFirst(qs, qa),
         IsAsk(m, "check", 0) => NoneOut("get", 0, qs, s, qa)
  PROVE  ChecksFirst(Append(qs, m), qa)
<1>1. \A sort \in {"get", "check"} : \A n \in Nat : AskAt(Append(qs, m), n, sort, 0)
                             => \/ AskAt(qs, n, sort, 0) /\ n <= Len(qs)
                                \/ n = Len(qs) + 1 /\ IsAsk(m, sort, 0)
  BY QueueAppend DEF AskAt
<1>2. ~(IsAsk(m, "check", 0) /\ IsAsk(m, "get", 0)) /\ Len(qs) \in Nat
  BY DEF IsAsk
<1>3. ASSUME NEW i \in Nat, NEW n \in Nat, AskAt(Append(qs, m), i, "get", 0), AskAt(Append(qs, m), n, "check", 0)
      PROVE  n < i
  BY <1>1, <1>2, <1>3 DEF ChecksFirst, NoneOut
<1>4. ASSUME NEW i \in Nat, NEW n \in Nat, ReplyAt(qa, i, "get", 0), AskAt(Append(qs, m), n, "check", 0)
      PROVE  FALSE
  BY <1>1, <1>4 DEF ChecksFirst, NoneOut
<1> QED
  BY <1>3, <1>4 DEF ChecksFirst

LEMMA ChecksTaken ==
  ASSUME NEW qs \in Seq(AskRec), NEW s, NEW qa \in Seq(ReplyRec), qa # <<>>, ChecksFirst(qs, qa)
  PROVE  /\ ChecksFirst(qs, Tail(qa))
         /\ IsReply(Head(qa), "get", 0) => NoneOut("check", 0, qs, s, Tail(qa))
<1>1. /\ \A sort \in {"get", "check"} : \A n \in Nat : ReplyAt(Tail(qa), n, sort, 0)
                             => n + 1 \in Nat /\ ReplyAt(qa, n + 1, sort, 0) /\ n # 0
      /\ IsReply(Head(qa), "get", 0) => ReplyAt(qa, 1, "get", 0)
  BY QueueTail DEF ReplyAt
<1>2. \A m, n \in Nat : n + 1 < m + 1 => n < m
  OBVIOUS
<1>3. \A n \in Nat : n + 1 < 1 => FALSE
  OBVIOUS
<1> QED
  BY <1>1, <1>2, <1>3 DEF ChecksFirst, NoneOut

LEMMA ChecksReplied ==
  ASSUME NEW qs \in Seq(AskRec), NEW qa \in Seq(ReplyRec), NEW m \in ReplyRec, ChecksFirst(qs, qa),
         ~IsReply(m, "get", 0), ~IsReply(m, "check", 0)
  PROVE  ChecksFirst(qs, Append(qa, m))
<1>1. \A sort \in {"get", "check"} : \A n \in Nat : ReplyAt(Append(qa, m), n, sort, 0) => ReplyAt(qa, n, sort, 0)
  BY QueueAppend DEF ReplyAt
<1> QED
  BY <1>1 DEF ChecksFirst

LEMMA ChecksAnswered ==
  ASSUME NEW qs \in Seq(AskRec), qs # <<>>, NEW qa \in Seq(ReplyRec), NEW m \in ReplyRec, ChecksFirst(qs, qa),
         \A sort \in {"get", "check"} : IsReply(m, sort, 0) => IsAsk(Head(qs), sort, 0)
  PROVE  ChecksFirst(Tail(qs), Append(qa, m))
<1>1. \A sort \in {"get", "check"} : \A n \in Nat : ReplyAt(Append(qa, m), n, sort, 0)
                             => \/ ReplyAt(qa, n, sort, 0) /\ n <= Len(qa)
                                \/ n = Len(qa) + 1 /\ IsReply(m, sort, 0)
  BY QueueAppend DEF ReplyAt
<1>2. /\ \A sort \in {"get", "check"} : \A n \in Nat : AskAt(Tail(qs), n, sort, 0)
                             => n + 1 \in Nat /\ AskAt(qs, n + 1, sort, 0) /\ n # 0
      /\ \A sort \in {"get", "check"} : IsAsk(Head(qs), sort, 0) => AskAt(qs, 1, sort, 0)
  BY QueueTail DEF AskAt
<1>3. \A m1, n1 \in Nat : n1 + 1 < m1 + 1 => n1 < m1
  OBVIOUS
<1>4. \A n1 \in Nat : n1 + 1 < 1 => FALSE
  OBVIOUS
<1>5. ~(IsReply(m, "check", 0) /\ IsReply(m, "get", 0)) /\ Len(qa) \in Nat
  BY DEF IsReply
<1>6. ASSUME NEW i \in Nat, NEW n \in Nat, AskAt(Tail(qs), i, "get", 0), AskAt(Tail(qs), n, "check", 0)
      PROVE  n < i
  BY <1>2, <1>3, <1>6 DEF ChecksFirst
<1>7. ASSUME NEW i \in Nat, NEW n \in Nat, ReplyAt(Append(qa, m), i, "get", 0), ReplyAt(Append(qa, m), n, "check", 0)
      PROVE  n < i
  <2>1. CASE ReplyAt(qa, i, "get", 0) /\ ReplyAt(qa, n, "check", 0)
    BY <2>1 DEF ChecksFirst
  <2>2. CASE ReplyAt(qa, n, "check", 0) /\ i = Len(qa) + 1 /\ n <= Len(qa)
    BY <1>5, <2>2
  <2>3. CASE ReplyAt(qa, i, "get", 0) /\ IsReply(m, "check", 0)
    <3>1. AskAt(qs, 1, "check", 0)
      BY <1>2, <2>3
    <3> QED
      BY <2>3, <3>1 DEF ChecksFirst
  <2> QED
    BY <1>1, <1>5, <1>7, <2>1, <2>2, <2>3
<1>8. ASSUME NEW i \in Nat, NEW n \in Nat, ReplyAt(Append(qa, m), i, "get", 0), AskAt(Tail(qs), n, "check", 0)
      PROVE  FALSE
  <2>1. n + 1 \in Nat /\ AskAt(qs, n + 1, "check", 0)
    BY <1>2, <1>8
  <2>2. CASE ReplyAt(qa, i, "get", 0)
    BY <2>1, <2>2 DEF ChecksFirst
  <2>3. CASE IsReply(m, "get", 0)
    <3>1. AskAt(qs, 1, "get", 0)
      BY <1>2, <2>3
    <3>2. n + 1 < 1
      BY <2>1, <3>1 DEF ChecksFirst
    <3> QED
      BY <1>4, <3>2
  <2> QED
    BY <1>1, <1>8, <2>2, <2>3
<1> QED
  BY <1>6, <1>7, <1>8 DEF ChecksFirst

LEMMA ServerKeepsChecksFirst ==
  ASSUME WireTyped, Server, ChecksFirst(asks, answers)
  PROVE  ChecksFirst(asks', answers')
<1>1. /\ store \in Docs /\ asks \in Seq(AskRec) /\ answers \in Seq(ReplyRec)
  BY DEF WireTyped
<1>2. [answer |-> "event", doc |-> store] \in ReplyRec
      /\ ~IsReply([answer |-> "event", doc |-> store], "get", 0)
      /\ ~IsReply([answer |-> "event", doc |-> store], "check", 0)
  BY <1>1, Replies DEF IsReply, ReplySort
<1>3. CASE GetServed \/ CheckServed \/ SaveRefused
  <2>1. /\ asks # <<>> /\ asks' = Tail(asks)
        /\ \E m \in ReplyRec : /\ answers' = Append(answers, m)
                               /\ \/ Head(asks).ask = "get" /\ m.answer \in {"doc", "noDoc"} /\ m.by = Head(asks).by
                                  \/ Head(asks).ask = "check" /\ m.answer = "report" /\ m.by = Head(asks).by
                                  \/ Refusal(m)
    BY <1>3 DEF GetServed, CheckServed, SaveRefused
  <2>2. PICK m \in ReplyRec : /\ answers' = Append(answers, m)
                              /\ \/ Head(asks).ask = "get" /\ m.answer \in {"doc", "noDoc"} /\ m.by = Head(asks).by
                                 \/ Head(asks).ask = "check" /\ m.answer = "report" /\ m.by = Head(asks).by
                                 \/ Refusal(m)
    BY <2>1
  <2>3. \A sort \in {"get", "check"} : IsReply(m, sort, 0) => IsAsk(Head(asks), sort, 0)
    BY <2>2 DEF IsReply, IsAsk, ReplySort, Refusal
  <2> QED
    BY <1>1, <2>1, <2>2, <2>3, ChecksAnswered
<1>4. CASE SaveTaken
  <2>1. /\ \A sort \in {"get", "check"} : \A n \in Nat : AskAt(Tail(asks), n, sort, 0)
                             => n + 1 \in Nat /\ AskAt(asks, n + 1, sort, 0)
    BY <1>1, <1>4, QueueTail DEF AskAt, SaveTaken
  <2>2. \A m, n \in Nat : n + 1 < m + 1 => n < m
    OBVIOUS
  <2>3. asks' = Tail(asks) /\ answers' = answers
    BY <1>4 DEF SaveTaken
  <2> QED
    BY <2>1, <2>2, <2>3 DEF ChecksFirst
<1>5. CASE SaveWritten \/ AnotherSaves
  BY <1>5 DEF SaveWritten, AnotherSaves
<1>6. CASE SaveAnnounced
  <2>1. PICK r \in ReplyRec :
           /\ r.answer = "saved"
           /\ \/ answers' = Append(answers, r)
              \/ answers' = Append(Append(answers, [answer |-> "event", doc |-> store]), r)
    BY <1>6 DEF SaveAnnounced
  <2>2. ~IsReply(r, "get", 0) /\ ~IsReply(r, "check", 0) /\ asks' = asks
    BY <1>6, <2>1 DEF IsReply, ReplySort, SaveAnnounced
  <2> DEFINE qa == Append(answers, [answer |-> "event", doc |-> store])
  <2>3. qa \in Seq(ReplyRec) /\ ChecksFirst(asks, qa)
    BY <1>1, <1>2, QueueAppend, ChecksReplied
  <2>4. answers' = Append(answers, r) \/ answers' = Append(qa, r)
    BY <2>1
  <2> HIDE DEF qa
  <2> QED
    BY <1>1, <2>2, <2>3, <2>4, ChecksReplied
<1>7. CASE AnothersReloaded
  BY <1>1, <1>2, <1>7, ChecksReplied DEF AnothersReloaded, Answer
<1>8. CASE Hears
  BY <1>1, <1>8, ChecksTaken DEF Hears, Taken
<1> QED
  BY <1>3, <1>4, <1>5, <1>6, <1>7, <1>8, ServerSteps DEF ServerStep

PanelRec == [config : Docs \union {None}, saved : Docs \union {None}, read : Docs \union {None},
             revision : Docs \union {None}, dirty : BOOLEAN, stale : BOOLEAN,
             loading : {"no", "reading", "waiting", "failed"}, saving : {"no", "sent", "after"},
             atSave : Docs \union {None}, during : Docs \union {None}, validating : BOOLEAN,
             validation : Docs \union {None}, generation : Nat, same : BOOLEAN,
             yaml : {"visual", "yaml", "error"}, agreed : BOOLEAN]

Clean(p)    == p.dirty = FALSE
Same(p)     == p.same = TRUE
Checking(p) == p.validating = TRUE

(* The panel by itself: its draft and what it knows of it.                        *)
PanelLinks(p) ==
  /\ p.loading = "waiting" => p.read \in Docs /\ p.read = p.revision
  /\ p.saving # "no" => p.loading = "no" /\ ~Checking(p) /\ p.config \in Docs
  /\ p.saving = "after" => ~Same(p)
  /\ p.config \in Docs => p.revision \in Docs
  /\ p.config \in Docs /\ Clean(p) => p.config = p.saved
  /\ p.config \in Docs /\ Clean(p) /\ p.validation \in Docs => Pruned(p.validation) = Pruned(p.config)

(* What it has asked for is what it waits for, a check's report before a read's   *)
(* answer.                                                                        *)
PanelOut(p, qs, s, qa) ==
  /\ OneOut("save", 0, qs, s, qa) /\ OneOut("check", 0, qs, s, qa) /\ OneOut("get", 0, qs, s, qa)
  /\ p.saving # "sent" => NoneOut("save", 0, qs, s, qa)
  /\ ~Checking(p) => NoneOut("check", 0, qs, s, qa)
  /\ p.loading # "reading" => NoneOut("get", 0, qs, s, qa)
  /\ p.loading = "waiting" => NoneOut("check", 0, qs, s, qa)
  /\ \A by \in Nat \ {0} : NoneOut("get", by, qs, s, qa)
  /\ \A by \in Nat : by > p.generation => NoneOut("check", by, qs, s, qa)
  /\ ChecksFirst(qs, qa)

(* A check or a save that is out is of the draft, while that is clean; a check a  *)
(* load sent, while nothing was changed since.                                    *)
PanelCarries(p, qs, qa) ==
  /\ p.config \in Docs /\ Clean(p) => /\ Carries(Pruned(p.config), "check", 0, qs, qa)
                                      /\ Carries(Pruned(p.config), "save", 0, qs, qa)
  /\ p.config \in Docs /\ Same(p) => Carries(p.config, "check", p.generation, qs, qa)

(* The draft has what other clients had saved in the revision agreed with.        *)
PanelSafe(p, qs, s, st, qa, o) ==
  o = FALSE =>
    /\ SavesSafe(qs)
    /\ p.config \in Docs /\ p.loading # "waiting" => p.config.others >= p.revision.others
    /\ p.saving = "sent" => SavesWithin(p.config.others, qs, s, st, qa)

PanelInv(p, qs, s, st, qa, o) ==
  /\ p \in PanelRec
  /\ PanelLinks(p) /\ PanelOut(p, qs, s, qa) /\ PanelCarries(p, qs, qa) /\ PanelSafe(p, qs, s, st, qa, o)

(* Nothing the server does takes the panel's invariant away.                      *)
LEMMA PanelServes ==
  ASSUME WireTyped, Server, edits' = edits, NEW p, PanelInv(p, asks, serving, store, answers, overlapped)
  PROVE  PanelInv(p, asks', serving', store', answers', overlapped')
<1>1. \A sort \in Sorts : \A by, doc :
         /\ NoneOut(sort, by, asks, serving, answers) => NoneOut(sort, by, asks', serving', answers')
         /\ OneOut(sort, by, asks, serving, answers) => OneOut(sort, by, asks', serving', answers')
         /\ Carries(doc, sort, by, asks, answers) => Carries(doc, sort, by, asks', answers')
  BY ServerKeepsOut
<1>2. /\ "save" \in Sorts /\ "check" \in Sorts /\ "get" \in Sorts
  BY DEF Sorts
<1>3. PanelOut(p, asks', serving', answers')
  <2>1. ChecksFirst(asks', answers')
    BY ServerKeepsChecksFirst DEF PanelInv, PanelOut
  <2> QED
    BY <1>1, <1>2, <2>1 DEF PanelInv, PanelOut
<1>4. PanelCarries(p, asks', answers')
  BY <1>1, <1>2 DEF PanelInv, PanelCarries
<1>5. PanelSafe(p, asks', serving', store', answers', overlapped')
  <2>1. SUFFICES ASSUME overlapped' = FALSE
                 PROVE  /\ SavesSafe(asks')
                        /\ p.config \in Docs /\ p.loading # "waiting" => p.config.others >= p.revision.others
                        /\ p.saving = "sent" => SavesWithin(p.config.others, asks', serving', store', answers')
    BY DEF PanelSafe
  <2>2. overlapped \in BOOLEAN /\ overlapped' \in BOOLEAN
    BY ServerKeepsType DEF WireTyped
  <2>3. overlapped = FALSE
    <3>1. CASE AnotherSaves
      BY <2>1, <2>2, <3>1 DEF AnotherSaves
    <3>2. CASE ~AnotherSaves
      <4>1. overlapped' = overlapped
        BY <3>2 DEF Server, AnswersGet, AnswersCheck, TakesSave, SaveWritten, SaveReloaded, AnothersReloaded, Hears
      <4> QED
        BY <2>1, <4>1
    <3> QED
      BY <3>1, <3>2
  <2>4. /\ SavesSafe(asks)
        /\ p.config \in Docs /\ p.loading # "waiting" => p.config.others >= p.revision.others
        /\ p.saving = "sent" => SavesWithin(p.config.others, asks, serving, store, answers)
    BY <2>3 DEF PanelInv, PanelSafe
  <2>5. SavesSafe(asks')
    BY <2>4, ServerSavesSafe
  <2>6. p.saving = "sent" => p.config \in Docs /\ p.config.others \in Nat
    BY ConfigBounds DEF PanelInv, PanelLinks, Docs
  <2>7. p.saving = "sent" => SavesWithin(p.config.others, asks', serving', store', answers')
    BY <2>1, <2>4, <2>6, ServerSavesWithin
  <2> QED
    BY <2>4, <2>5, <2>7
<1> QED
  BY <1>3, <1>4, <1>5 DEF PanelInv

(* The wire with one reply taken; what the reply was is out no more.              *)
LEMMA PanelTaken ==
  ASSUME NEW qs \in Seq(AskRec), NEW s, NEW st, NEW qa \in Seq(ReplyRec), NEW o, NEW p,
         qa # <<>>, PanelInv(p, qs, s, st, qa, o)
  PROVE  /\ PanelInv(p, qs, s, st, Tail(qa), o)
         /\ IsReply(Head(qa), "save", 0) => NoneOut("save", 0, qs, s, Tail(qa))
         /\ IsReply(Head(qa), "check", 0) => NoneOut("check", 0, qs, s, Tail(qa))
         /\ IsReply(Head(qa), "get", 0) => NoneOut("get", 0, qs, s, Tail(qa)) /\ NoneOut("check", 0, qs, s, Tail(qa))
<1>1. \A sort \in Sorts : \A by, doc :
         /\ NoneOut(sort, by, qs, s, qa) => NoneOut(sort, by, qs, s, Tail(qa))
         /\ OneOut(sort, by, qs, s, qa) => OneOut(sort, by, qs, s, Tail(qa))
         /\ OneOut(sort, by, qs, s, qa) /\ IsReply(Head(qa), sort, by) => NoneOut(sort, by, qs, s, Tail(qa))
         /\ Carries(doc, sort, by, qs, qa) => Carries(doc, sort, by, qs, Tail(qa))
  BY OutTaken
<1>2. /\ "save" \in Sorts /\ "check" \in Sorts /\ "get" \in Sorts
  BY DEF Sorts
<1>3. /\ ChecksFirst(qs, Tail(qa))
      /\ IsReply(Head(qa), "get", 0) => NoneOut("check", 0, qs, s, Tail(qa))
  BY ChecksTaken DEF PanelInv, PanelOut
<1>4. PanelOut(p, qs, s, Tail(qa))
  BY <1>1, <1>2, <1>3 DEF PanelInv, PanelOut
<1>5. PanelCarries(p, qs, Tail(qa))
  BY <1>1, <1>2 DEF PanelInv, PanelCarries
<1>6. PanelSafe(p, qs, s, st, Tail(qa), o)
  <2>1. \A n : SavesWithin(n, qs, s, st, qa) => SavesWithin(n, qs, s, st, Tail(qa))
    <3>1. \A m \in Nat : ReplyAt(Tail(qa), m, "save", 0)
             => m + 1 \in Nat /\ ReplyAt(qa, m + 1, "save", 0) /\ Tail(qa)[m] = qa[m + 1]
      BY ReplyTail
    <3> QED
      BY <3>1 DEF SavesWithin
  <2> QED
    BY <2>1 DEF PanelInv, PanelSafe
<1> QED
  BY <1>1, <1>2, <1>3, <1>4, <1>5, <1>6 DEF PanelInv, PanelOut

Alike(p, q) ==
  /\ q.config = p.config /\ q.saved = p.saved /\ q.revision = p.revision /\ q.dirty = p.dirty
  /\ q.validating = p.validating /\ q.validation = p.validation
  /\ q.generation = p.generation /\ q.same = p.same

LEMMA PanelAlike ==
  ASSUME NEW qs, NEW s, NEW st, NEW qa, NEW o, NEW p, NEW q \in PanelRec, PanelInv(p, qs, s, st, qa, o),
         Alike(p, q), q.read = p.read,
         q.loading = p.loading \/ (p.loading = "failed" /\ q.loading = "no")
         \/ (p.loading = "reading" /\ q.loading = "failed" /\ NoneOut("get", 0, qs, s, qa)),
         q.saving = p.saving \/ (q.saving = "no" /\ NoneOut("save", 0, qs, s, qa))
  PROVE  PanelInv(q, qs, s, st, qa, o)
<1>1. PanelLinks(q)
  BY DEF Alike, PanelInv, PanelLinks, Clean, Same, Checking
<1>2. PanelOut(q, qs, s, qa)
  BY DEF Alike, PanelInv, PanelOut, PanelLinks, Clean, Same, Checking
<1>3. PanelCarries(q, qs, qa)
  BY DEF Alike, PanelInv, PanelCarries, Clean, Same
<1>4. PanelSafe(q, qs, s, st, qa, o)
  BY DEF Alike, PanelInv, PanelSafe
<1> QED
  BY <1>1, <1>2, <1>3, <1>4 DEF PanelInv

(* A read is asked for.                                                           *)
LEMMA PanelRereads ==
  ASSUME NEW qs \in Seq(AskRec), NEW s, NEW st, NEW qa \in Seq(ReplyRec), NEW o,
         NEW p, NEW q \in PanelRec, PanelInv(p, qs, s, st, qa, o),
         Alike(p, q), p.loading = "no", p.saving = "no", q.loading = "reading", q.saving = "no"
  PROVE  Append(qs, Get(0)) \in Seq(AskRec) /\ PanelInv(q, Append(qs, Get(0)), s, st, qa, o)
<1> DEFINE m == Get(0)
<1>1. /\ m \in AskRec /\ ~IsAsk(m, "save", 0) /\ ~IsAsk(m, "check", 0) /\ IsAsk(m, "get", 0)
      /\ \A by \in Nat \ {0} : ~IsAsk(m, "get", by)
      /\ \A by : ~IsAsk(m, "check", by)
  BY DEF Get, AskRec, IsAsk
<1> HIDE DEF m
<1>2. \A sort \in Sorts : \A by, doc :
         /\ ~IsAsk(m, sort, by) /\ NoneOut(sort, by, qs, s, qa) => NoneOut(sort, by, Append(qs, m), s, qa)
         /\ ~IsAsk(m, sort, by) /\ OneOut(sort, by, qs, s, qa) => OneOut(sort, by, Append(qs, m), s, qa)
         /\ NoneOut(sort, by, qs, s, qa) => OneOut(sort, by, Append(qs, m), s, qa)
         /\ (IsAsk(m, sort, by) => m.doc = doc) /\ Carries(doc, sort, by, qs, qa)
              => Carries(doc, sort, by, Append(qs, m), qa)
  BY <1>1, OutAsked
<1>3. /\ "save" \in Sorts /\ "check" \in Sorts /\ "get" \in Sorts
  BY DEF Sorts
<1>4. ChecksFirst(Append(qs, m), qa)
  BY <1>1, ChecksAsked DEF PanelInv, PanelOut
<1>5. PanelLinks(q)
  BY DEF Alike, PanelInv, PanelLinks, Clean, Same, Checking
<1>6. PanelOut(q, Append(qs, m), s, qa)
  BY <1>1, <1>2, <1>3, <1>4 DEF Alike, PanelInv, PanelOut, Checking
<1>7. PanelCarries(q, Append(qs, m), qa)
  BY <1>1, <1>2, <1>3 DEF Alike, PanelInv, PanelCarries, Clean, Same
<1>8. PanelSafe(q, Append(qs, m), s, st, qa, o)
  <2>1. SavesSafe(qs) => SavesSafe(Append(qs, m))
    <3>1. \A n \in Nat : AskAt(Append(qs, m), n, "save", 0) => AskAt(qs, n, "save", 0) /\ Append(qs, m)[n] = qs[n]
      BY <1>1, QueueAppend DEF AskAt
    <3> QED
      BY <3>1 DEF SavesSafe
  <2> QED
    BY <2>1 DEF Alike, PanelInv, PanelSafe
<1>9. Append(qs, m) \in Seq(AskRec)
  BY <1>1, QueueAppend
<1> QED
  BY <1>5, <1>6, <1>7, <1>8, <1>9 DEF PanelInv, m

(* The document is here.                                                          *)
LEMMA PanelHasRead ==
  ASSUME NEW qs, NEW s, NEW st, NEW qa, NEW o, NEW p, NEW q \in PanelRec, PanelInv(p, qs, s, st, qa, o),
         NEW doc \in Docs, NoneOut("get", 0, qs, s, qa), NoneOut("check", 0, qs, s, qa),
         q.config = p.config, q.saved = p.saved, q.dirty = p.dirty, q.validating = p.validating,
         q.validation = p.validation, q.generation = p.generation, q.same = p.same,
         p.loading = "reading", q.loading = "waiting", q.saving = p.saving, q.read = doc, q.revision = doc
  PROVE  PanelInv(q, qs, s, st, qa, o)
<1>1. PanelLinks(q)
  BY DEF PanelInv, PanelLinks, Clean, Same, Checking
<1>2. PanelOut(q, qs, s, qa)
  BY DEF PanelInv, PanelOut, Checking
<1>3. PanelCarries(q, qs, qa)
  BY DEF PanelInv, PanelCarries, Clean, Same
<1>4. PanelSafe(q, qs, s, st, qa, o)
  BY DEF PanelInv, PanelSafe
<1> QED
  BY <1>1, <1>2, <1>3, <1>4 DEF PanelInv

(* The draft is changed by hand.                                                  *)
LEMMA PanelChanged ==
  ASSUME NEW qs, NEW s, NEW st, NEW qa, NEW o, NEW p, NEW q \in PanelRec, PanelInv(p, qs, s, st, qa, o),
         p.config \in Docs, q.config \in Docs, q.config.others = p.config.others, q.dirty = TRUE, q.same = FALSE,
         q.revision = p.revision, q.read = p.read, q.validating = p.validating, q.generation = p.generation,
         q.loading = p.loading, q.saving = p.saving
  PROVE  PanelInv(q, qs, s, st, qa, o)
<1>1. PanelLinks(q)
  BY DEF PanelInv, PanelLinks, Clean, Same, Checking
<1>2. PanelOut(q, qs, s, qa)
  BY DEF PanelInv, PanelOut, Checking
<1>3. PanelCarries(q, qs, qa)
  BY DEF PanelCarries, Clean, Same
<1>4. PanelSafe(q, qs, s, st, qa, o)
  BY DEF PanelInv, PanelSafe
<1> QED
  BY <1>1, <1>2, <1>3, <1>4 DEF PanelInv

LEMMA PrunedTwice ==
  ASSUME NEW doc \in Docs
  PROVE  Pruned(doc) \in Docs /\ Pruned(Pruned(doc)) = Pruned(doc) /\ Pruned(doc).others = doc.others
BY DEF Pruned, Docs

LEMMA NormalizedKeeps ==
  ASSUME NEW doc \in Docs
  PROVE  Normalized(doc) \in Docs /\ Normalized(doc).others = doc.others
BY DEF Normalized, Docs

(* A report is shown, the button's or a load's, or that of a save refused for it. *)
LEMMA PanelReported ==
  ASSUME NEW qs, NEW s, NEW st, NEW qa, NEW o, NEW p, NEW q \in PanelRec, PanelInv(p, qs, s, st, qa, o),
         NEW doc \in Docs, p.config \in Docs /\ Clean(p) => Pruned(doc) = Pruned(p.config),
         q.config = p.config, q.saved = p.saved, q.revision = p.revision, q.dirty = p.dirty, q.read = p.read,
         q.generation = p.generation, q.same = p.same, q.loading = p.loading, q.saving = p.saving,
         q.validation = doc,
         q.validating = p.validating \/ (q.validating = FALSE /\ NoneOut("check", 0, qs, s, qa))
  PROVE  PanelInv(q, qs, s, st, qa, o)
<1>1. PanelLinks(q)
  BY DEF PanelInv, PanelLinks, Clean, Same, Checking
<1>2. PanelOut(q, qs, s, qa)
  BY DEF PanelInv, PanelOut, Checking
<1>3. PanelCarries(q, qs, qa)
  BY DEF PanelInv, PanelCarries, Clean, Same
<1>4. PanelSafe(q, qs, s, st, qa, o)
  BY DEF PanelInv, PanelSafe
<1> QED
  BY <1>1, <1>2, <1>3, <1>4 DEF PanelInv

(* A save was taken: the draft goes on from the stored document.                  *)
LEMMA PanelStored ==
  ASSUME NEW qs, NEW s, NEW st, NEW qa, NEW o, NEW p, NEW q \in PanelRec, PanelInv(p, qs, s, st, qa, o),
         NEW doc \in Docs, NoneOut("save", 0, qs, s, qa), p.saving = "sent",
         NEW kept \in Docs, kept.others \in {doc.others, p.config.others},
         o = FALSE => doc.others <= p.config.others,
         q.config = kept, q.saved = doc, q.revision = doc, q.validation = doc, q.same = FALSE,
         q.dirty = FALSE => kept = doc, q.read = p.read, q.validating = p.validating,
         q.generation = p.generation, q.loading = p.loading, q.saving \in {"sent", "after"}
  PROVE  PanelInv(q, qs, s, st, qa, o)
<1>1. PanelLinks(q)
  BY DEF PanelInv, PanelLinks, Clean, Same, Checking
<1>2. PanelOut(q, qs, s, qa)
  BY DEF PanelInv, PanelOut, Checking, PanelLinks
<1>3. PanelCarries(q, qs, qa)
  BY <1>2 DEF PanelInv, PanelLinks, PanelOut, PanelCarries, Clean, Same, Carries, NoneOut, Checking
<1>4. PanelSafe(q, qs, s, st, qa, o)
  <2>1. doc.others \in Nat /\ p.config.others \in Nat
    BY ConfigBounds DEF Docs, PanelInv, PanelLinks
  <2>2. o = FALSE => kept.others >= doc.others
    BY <2>1
  <2>3. \A n \in Nat : SavesWithin(n, qs, s, st, qa)
    BY DEF NoneOut, SavesWithin
  <2>4. q.config.others \in Nat
    BY <2>1
  <2> QED
    BY <2>2, <2>3, <2>4 DEF PanelInv, PanelSafe
<1> QED
  BY <1>1, <1>2, <1>3, <1>4 DEF PanelInv

(* The draft is normalized once more.                                             *)
LEMMA PanelNormalized ==
  ASSUME NEW qs, NEW s, NEW st, NEW qa, NEW o, NEW p, NEW q \in PanelRec, PanelInv(p, qs, s, st, qa, o),
         p.saving = "after", q.config = Normalized(p.config), q.dirty = FALSE => Clean(p) /\ q.config = p.config,
         q.saved = p.saved, q.revision = p.revision, q.read = p.read, q.validating = p.validating,
         q.validation = p.validation, q.generation = p.generation, q.same = p.same, q.loading = p.loading,
         q.saving = "no"
  PROVE  PanelInv(q, qs, s, st, qa, o)
<1>0. /\ p.config \in Docs /\ q.config \in Docs /\ q.config.others = p.config.others
      /\ q.loading = "no" /\ ~Same(q)
  BY NormalizedKeeps DEF PanelInv, PanelLinks, Same
<1>1. PanelLinks(q)
  BY <1>0 DEF PanelInv, PanelLinks, Clean, Same, Checking
<1>2. PanelOut(q, qs, s, qa)
  BY DEF PanelInv, PanelOut, Checking, PanelLinks
<1>3. PanelCarries(q, qs, qa)
  BY <1>0 DEF PanelInv, PanelLinks, PanelOut, PanelCarries, Clean, Same
<1>4. PanelSafe(q, qs, s, st, qa, o)
  BY <1>0 DEF PanelInv, PanelSafe
<1> QED
  BY <1>1, <1>2, <1>3, <1>4 DEF PanelInv

(* A check or a save is asked for: what else is out stays out.                    *)
LEMMA PanelAsks ==
  ASSUME NEW qs \in Seq(AskRec), NEW s, NEW qa \in Seq(ReplyRec), NEW m \in AskRec
  PROVE  \A sort \in Sorts : \A by, doc :
         /\ ~IsAsk(m, sort, by) /\ NoneOut(sort, by, qs, s, qa) => NoneOut(sort, by, Append(qs, m), s, qa)
         /\ ~IsAsk(m, sort, by) /\ OneOut(sort, by, qs, s, qa) => OneOut(sort, by, Append(qs, m), s, qa)
         /\ NoneOut(sort, by, qs, s, qa) => OneOut(sort, by, Append(qs, m), s, qa)
         /\ (IsAsk(m, sort, by) => m.doc = doc) /\ Carries(doc, sort, by, qs, qa)
              => Carries(doc, sort, by, Append(qs, m), qa)
         /\ (IsAsk(m, sort, by) => m.doc = doc) /\ NoneOut(sort, by, qs, s, qa)
              => Carries(doc, sort, by, Append(qs, m), qa)
<1>1. \A sort \in Sorts : \A by, doc : NoneOut(sort, by, qs, s, qa) => Carries(doc, sort, by, qs, qa)
  BY DEF NoneOut, Carries
<1> QED
  BY <1>1, OutAsked

LEMMA SafeAsked ==
  ASSUME NEW qs \in Seq(AskRec), NEW m \in AskRec, SavesSafe(qs),
         m.ask = "save" => m.doc.others >= m.expected.others
  PROVE  SavesSafe(Append(qs, m))
<1>1. \A n \in Nat : AskAt(Append(qs, m), n, "save", 0) =>
         \/ AskAt(qs, n, "save", 0) /\ Append(qs, m)[n] = qs[n]
         \/ n = Len(qs) + 1 /\ IsAsk(m, "save", 0) /\ Append(qs, m)[n] = m
  BY QueueAppend DEF AskAt
<1>2. IsAsk(m, "save", 0) => m.ask = "save"
  BY DEF IsAsk
<1> QED
  BY <1>1, <1>2 DEF SavesSafe

(* A load ends: the draft is replaced and sent off for a check.                   *)
LEMMA PanelLoads ==
  ASSUME NEW qs \in Seq(AskRec), NEW s, NEW st, NEW qa \in Seq(ReplyRec), NEW o,
         NEW p, NEW q \in PanelRec, PanelInv(p, qs, s, st, qa, o), p.loading = "waiting",
         NEW m, m = [ask |-> "check", doc |-> Normalized(p.read), by |-> p.generation + 1],
         q.config = Normalized(p.read), q.saved = p.read, q.revision = p.revision,
         q.dirty = FALSE => q.config = q.saved, q.loading = "no", q.saving = p.saving, q.validating = p.validating,
         q.validation = None, q.generation = p.generation + 1, q.same = TRUE
  PROVE  Append(qs, m) \in Seq(AskRec) /\ PanelInv(q, Append(qs, m), s, st, qa, o)
<1>1. /\ p.read \in Docs /\ p.read = p.revision /\ p.generation \in Nat /\ p.saving = "no"
      /\ q.config \in Docs /\ q.config.others = p.read.others
  BY NormalizedKeeps DEF PanelInv, PanelLinks, PanelRec
<1>2. /\ m \in AskRec /\ m.ask = "check" /\ m.doc = q.config /\ m.by = q.generation
  BY <1>1 DEF AskRec
<1>3. /\ ~IsAsk(m, "save", 0) /\ ~IsAsk(m, "check", 0)
      /\ \A by \in Nat : ~IsAsk(m, "get", by)
      /\ \A by \in Nat : by > q.generation => ~IsAsk(m, "check", by)
  BY <1>1, <1>2 DEF IsAsk
<1>4. \A sort \in Sorts : \A by, doc :
         /\ ~IsAsk(m, sort, by) /\ NoneOut(sort, by, qs, s, qa) => NoneOut(sort, by, Append(qs, m), s, qa)
         /\ ~IsAsk(m, sort, by) /\ OneOut(sort, by, qs, s, qa) => OneOut(sort, by, Append(qs, m), s, qa)
         /\ NoneOut(sort, by, qs, s, qa) => OneOut(sort, by, Append(qs, m), s, qa)
         /\ (IsAsk(m, sort, by) => m.doc = doc) /\ NoneOut(sort, by, qs, s, qa)
              => Carries(doc, sort, by, Append(qs, m), qa)
  BY <1>2, PanelAsks
<1>5. /\ "save" \in Sorts /\ "check" \in Sorts /\ "get" \in Sorts
  BY DEF Sorts
<1>6. PanelLinks(q)
  BY <1>1, NoneAssumption DEF PanelInv, PanelLinks, Clean, Same, Checking
<1>7. PanelOut(q, Append(qs, m), s, qa)
  <2>1. ChecksFirst(Append(qs, m), qa)
    BY <1>2, <1>3, ChecksAsked DEF PanelInv, PanelOut
  <2>2. /\ OneOut("save", 0, qs, s, qa) /\ NoneOut("check", 0, qs, s, qa) /\ NoneOut("get", 0, qs, s, qa)
        /\ NoneOut("save", 0, qs, s, qa)
        /\ \A by \in Nat \ {0} : NoneOut("get", by, qs, s, qa)
        /\ \A by \in Nat : by > p.generation => NoneOut("check", by, qs, s, qa)
    BY <1>1 DEF PanelInv, PanelOut
  <2>3. \A by \in Nat : by > q.generation => by > p.generation
    BY <1>1
  <2>4. \A by \in Nat : by > q.generation => NoneOut("check", by, Append(qs, m), s, qa)
    BY <1>3, <1>4, <1>5, <2>2, <2>3
  <2>5. \A by \in Nat : NoneOut("get", by, Append(qs, m), s, qa)
    BY <1>3, <1>4, <1>5, <2>2
  <2>6. NoneOut("check", 0, Append(qs, m), s, qa) /\ NoneOut("save", 0, Append(qs, m), s, qa)
    BY <1>3, <1>4, <1>5, <2>2
  <2>7. OneOut("check", 0, Append(qs, m), s, qa) /\ OneOut("save", 0, Append(qs, m), s, qa)
        /\ OneOut("get", 0, Append(qs, m), s, qa)
    BY <1>4, <1>5, <2>2
  <2> QED
    BY <2>1, <2>4, <2>5, <2>6, <2>7 DEF PanelOut
<1>8. PanelCarries(q, Append(qs, m), qa)
  <2>1. /\ NoneOut("check", 0, qs, s, qa) /\ NoneOut("save", 0, qs, s, qa)
        /\ NoneOut("check", q.generation, qs, s, qa)
    BY <1>1 DEF PanelInv, PanelOut
  <2> QED
    BY <1>2, <1>3, <1>4, <1>5, <2>1 DEF PanelCarries, IsAsk
<1>9. PanelSafe(q, Append(qs, m), s, st, qa, o)
  <2>1. o = FALSE => SavesSafe(Append(qs, m))
    BY <1>2, SafeAsked DEF PanelInv, PanelSafe
  <2>2. q.config.others >= q.revision.others
    BY <1>1, ConfigBounds DEF Docs
  <2> QED
    BY <1>1, <2>1, <2>2 DEF PanelSafe
<1> QED
  BY <1>2, <1>6, <1>7, <1>8, <1>9, QueueAppend DEF PanelInv

LEMMA PanelValidates ==
  ASSUME NEW qs \in Seq(AskRec), NEW s, NEW st, NEW qa \in Seq(ReplyRec), NEW o,
         NEW p, NEW q \in PanelRec, PanelInv(p, qs, s, st, qa, o), p.loading = "no", p.saving = "no", ~Checking(p),
         p.config \in Docs, NEW m, m = [ask |-> "check", doc |-> Pruned(p.config), by |-> Button],
         q.config = p.config, q.saved = p.saved, q.revision = p.revision, q.dirty = p.dirty,
         q.loading = "no", q.saving = "no", q.validating = TRUE,
         q.validation = p.validation, q.generation = p.generation + 1, q.same = p.same
  PROVE  Append(qs, m) \in Seq(AskRec) /\ PanelInv(q, Append(qs, m), s, st, qa, o)
<1>1. /\ p.generation \in Nat
  BY DEF PanelInv, PanelRec
<1>2. /\ m \in AskRec /\ m.ask = "check" /\ m.doc = Pruned(p.config) /\ m.by = 0
  BY PrunedTwice DEF AskRec, Button
<1>3. /\ ~IsAsk(m, "save", 0) /\ ~IsAsk(m, "check", q.generation)
      /\ \A by \in Nat : ~IsAsk(m, "get", by)
      /\ \A by \in Nat : by > p.generation => ~IsAsk(m, "check", by)
  BY <1>1, <1>2 DEF IsAsk
<1>4. \A sort \in Sorts : \A by, doc :
         /\ ~IsAsk(m, sort, by) /\ NoneOut(sort, by, qs, s, qa) => NoneOut(sort, by, Append(qs, m), s, qa)
         /\ ~IsAsk(m, sort, by) /\ OneOut(sort, by, qs, s, qa) => OneOut(sort, by, Append(qs, m), s, qa)
         /\ NoneOut(sort, by, qs, s, qa) => OneOut(sort, by, Append(qs, m), s, qa)
         /\ (IsAsk(m, sort, by) => m.doc = doc) /\ NoneOut(sort, by, qs, s, qa)
              => Carries(doc, sort, by, Append(qs, m), qa)
  BY <1>2, PanelAsks
<1>5. /\ "save" \in Sorts /\ "check" \in Sorts /\ "get" \in Sorts
  BY DEF Sorts
<1>6. PanelLinks(q)
  BY DEF PanelInv, PanelLinks, Clean, Same, Checking
<1>7. PanelOut(q, Append(qs, m), s, qa)
  <2>2. /\ NoneOut("check", 0, qs, s, qa) /\ NoneOut("get", 0, qs, s, qa)
        /\ NoneOut("save", 0, qs, s, qa)
        /\ \A by \in Nat \ {0} : NoneOut("get", by, qs, s, qa)
        /\ \A by \in Nat : by > p.generation => NoneOut("check", by, qs, s, qa)
    BY DEF PanelInv, PanelOut
  <2>1. ChecksFirst(Append(qs, m), qa)
    BY <1>2, <2>2, ChecksAsked DEF PanelInv, PanelOut
  <2>3. \A by \in Nat : by > q.generation => by > p.generation
    BY <1>1
  <2>4. \A by \in Nat : by > q.generation => NoneOut("check", by, Append(qs, m), s, qa)
    BY <1>3, <1>4, <1>5, <2>2, <2>3
  <2>5. \A by \in Nat : NoneOut("get", by, Append(qs, m), s, qa)
    BY <1>3, <1>4, <1>5, <2>2
  <2>6. NoneOut("save", 0, Append(qs, m), s, qa)
    BY <1>3, <1>4, <1>5, <2>2
  <2>7. OneOut("check", 0, Append(qs, m), s, qa) /\ OneOut("save", 0, Append(qs, m), s, qa)
        /\ OneOut("get", 0, Append(qs, m), s, qa)
    BY <1>4, <1>5, <2>2
  <2> QED
    BY <2>1, <2>4, <2>5, <2>6, <2>7 DEF PanelOut, Checking
<1>8. PanelCarries(q, Append(qs, m), qa)
  <2>1. /\ NoneOut("check", 0, qs, s, qa) /\ NoneOut("save", 0, qs, s, qa)
        /\ NoneOut("check", q.generation, qs, s, qa)
    BY <1>1 DEF PanelInv, PanelOut
  <2> QED
    BY <1>2, <1>3, <1>4, <1>5, <2>1 DEF PanelCarries, IsAsk
<1>9. PanelSafe(q, Append(qs, m), s, st, qa, o)
  <2>1. o = FALSE => SavesSafe(Append(qs, m))
    BY <1>2, SafeAsked DEF PanelInv, PanelSafe
  <2> QED
    BY <1>1, <2>1 DEF PanelSafe, PanelInv
<1> QED
  BY <1>2, <1>6, <1>7, <1>8, <1>9, QueueAppend DEF PanelInv

LEMMA PanelSends ==
  ASSUME NEW qs \in Seq(AskRec), NEW s, NEW st, NEW qa \in Seq(ReplyRec), NEW o,
         NEW p, NEW q \in PanelRec, PanelInv(p, qs, s, st, qa, o), p.loading = "no", p.saving = "no", ~Checking(p),
         p.config \in Docs, NEW m, m = [ask |-> "save", doc |-> Pruned(p.config), expected |-> p.revision],
         q.config = p.config, q.saved = p.saved, q.revision = p.revision, q.dirty = p.dirty,
         q.loading = "no", q.saving = "sent", q.validating = p.validating,
         q.validation = p.validation, q.generation = p.generation + 1, q.same = p.same
  PROVE  Append(qs, m) \in Seq(AskRec) /\ PanelInv(q, Append(qs, m), s, st, qa, o)
<1>1. /\ p.generation \in Nat /\ p.revision \in Docs /\ p.config.others \in Nat
  BY ConfigBounds DEF PanelInv, PanelRec, PanelLinks, Docs
<1>2. /\ m \in AskRec /\ m.ask = "save" /\ m.doc = Pruned(p.config) /\ m.expected = p.revision
      /\ m.doc.others = p.config.others
  BY <1>1, PrunedTwice DEF AskRec
<1>3. /\ IsAsk(m, "save", 0)
      /\ \A by \in Nat : ~IsAsk(m, "get", by) /\ ~IsAsk(m, "check", by)
  BY <1>1, <1>2 DEF IsAsk
<1>4. \A sort \in Sorts : \A by, doc :
         /\ ~IsAsk(m, sort, by) /\ NoneOut(sort, by, qs, s, qa) => NoneOut(sort, by, Append(qs, m), s, qa)
         /\ ~IsAsk(m, sort, by) /\ OneOut(sort, by, qs, s, qa) => OneOut(sort, by, Append(qs, m), s, qa)
         /\ NoneOut(sort, by, qs, s, qa) => OneOut(sort, by, Append(qs, m), s, qa)
         /\ (IsAsk(m, sort, by) => m.doc = doc) /\ NoneOut(sort, by, qs, s, qa)
              => Carries(doc, sort, by, Append(qs, m), qa)
  BY <1>2, PanelAsks
<1>5. /\ "save" \in Sorts /\ "check" \in Sorts /\ "get" \in Sorts
  BY DEF Sorts
<1>6. PanelLinks(q)
  BY DEF PanelInv, PanelLinks, Clean, Same, Checking
<1>0. /\ NoneOut("check", 0, qs, s, qa) /\ NoneOut("get", 0, qs, s, qa)
      /\ NoneOut("save", 0, qs, s, qa)
      /\ \A by \in Nat \ {0} : NoneOut("get", by, qs, s, qa)
      /\ \A by \in Nat : by > p.generation => NoneOut("check", by, qs, s, qa)
  BY DEF PanelInv, PanelOut
<1>7. PanelOut(q, Append(qs, m), s, qa)
  <2>1. ChecksFirst(Append(qs, m), qa)
    BY <1>2, <1>0, ChecksAsked DEF PanelInv, PanelOut
  <2>3. \A by \in Nat : by > q.generation => by > p.generation
    BY <1>1
  <2>4. \A by \in Nat : by > q.generation => NoneOut("check", by, Append(qs, m), s, qa)
    BY <1>3, <1>4, <1>5, <1>0, <2>3
  <2>5. \A by \in Nat : NoneOut("get", by, Append(qs, m), s, qa)
    BY <1>3, <1>4, <1>5, <1>0
  <2>6. NoneOut("check", 0, Append(qs, m), s, qa)
    BY <1>3, <1>4, <1>5, <1>0
  <2>7. OneOut("check", 0, Append(qs, m), s, qa) /\ OneOut("save", 0, Append(qs, m), s, qa)
        /\ OneOut("get", 0, Append(qs, m), s, qa)
    BY <1>4, <1>5, <1>0
  <2> QED
    BY <2>1, <2>4, <2>5, <2>6, <2>7 DEF PanelOut, Checking
<1>8. PanelCarries(q, Append(qs, m), qa)
  <2>1. NoneOut("check", q.generation, qs, s, qa) /\ q.generation \in Nat
    BY <1>0, <1>1
  <2> QED
    BY <1>0, <1>2, <1>3, <1>4, <1>5, <2>1 DEF PanelCarries
<1>9. PanelSafe(q, Append(qs, m), s, st, qa, o)
  <2>1. o = FALSE => p.config.others >= p.revision.others /\ SavesSafe(qs)
    BY DEF PanelInv, PanelSafe
  <2>2. o = FALSE => SavesSafe(Append(qs, m))
    BY <1>2, <2>1, SafeAsked
  <2>3. SavesWithin(q.config.others, Append(qs, m), s, st, qa)
    <3>1. \A n \in Nat : AskAt(Append(qs, m), n, "save", 0) => AskAt(qs, n, "save", 0) \/ Append(qs, m)[n] = m
      BY <1>2, QueueAppend DEF AskAt
    <3>2. m.doc.others <= q.config.others
      BY <1>1, <1>2
    <3> QED
      BY <1>0, <3>1, <3>2 DEF SavesWithin, NoneOut
  <2> QED
    BY <2>1, <2>2, <2>3 DEF PanelSafe
<1> QED
  BY <1>2, <1>6, <1>7, <1>8, <1>9, QueueAppend DEF PanelInv

(* News is acted on, or kept for later.                                           *)
LEMMA PanelReacts ==
  ASSUME asks \in Seq(AskRec), asked \in 0..MaxAsked, NEW qa \in Seq(ReplyRec), NEW p, NEW revision,
         PanelInv(p, asks, serving, store, qa, overlapped), p.saving = "no", Reacts(p, revision)
  PROVE  /\ asks' \in Seq(AskRec) /\ asked' \in 0..MaxAsked
         /\ PanelInv(panel', asks', serving, store, qa, overlapped)
<1>1. p \in PanelRec
  BY DEF PanelInv
<1>2. CASE ReloadsOn(p, revision)
  <2> DEFINE q == [Reading(p) EXCEPT !.agreed = FALSE]
  <2>1. panel' = q /\ asked < MaxAsked /\ asked' = asked + 1 /\ asks' = Append(asks, Get(0))
    BY <1>2 DEF Reacts, Ask
  <2>2. q \in PanelRec
    BY <1>1 DEF PanelRec, Reading
  <2>3. Alike(p, q) /\ q.loading = "reading" /\ q.saving = "no"
    BY <1>1 DEF PanelRec, Reading, Alike
  <2>4. p.loading = "no"
    BY <1>2 DEF ReloadsOn
  <2> HIDE DEF q
  <2>5. Append(asks, Get(0)) \in Seq(AskRec) /\ PanelInv(q, Append(asks, Get(0)), serving, store, qa, overlapped)
    BY <2>2, <2>3, <2>4, PanelRereads
  <2>6. asked' \in 0..MaxAsked
    BY <2>1, ConfigBounds
  <2> QED
    BY <2>1, <2>5, <2>6
<1>3. CASE ~ReloadsOn(p, revision)
  <2> DEFINE now == p.stale \/ (/\ p.saving = "no" /\ p.loading = "no"
                                /\ IsStale(p.revision, revision))
             q == [p EXCEPT !.stale = now]
  <2>1. panel' = q /\ asked' = asked /\ asks' = asks
    BY <1>3 DEF Reacts, SilentWire
  <2>0. now \in BOOLEAN
    BY <1>1 DEF PanelRec, IsStale
  <2> HIDE DEF now
  <2>2. q \in PanelRec
    BY <1>1, <2>0 DEF PanelRec
  <2>3. Alike(p, q) /\ q.loading = p.loading /\ q.saving = p.saving /\ q.read = p.read
    BY <1>1, <2>0 DEF PanelRec, Alike
  <2> HIDE DEF q
  <2>4. PanelInv(q, asks, serving, store, qa, overlapped)
    BY <2>2, <2>3, PanelAlike
  <2> QED
    BY <2>1, <2>4
<1> QED
  BY <1>2, <1>3

LEMMA PanelEnded ==
  ASSUME asks \in Seq(AskRec), asked \in 0..MaxAsked, NEW qa \in Seq(ReplyRec), NEW p,
         PanelInv(p, asks, serving, store, qa, overlapped), NoneOut("save", 0, asks, serving, qa), Ended(p)
  PROVE  /\ asks' \in Seq(AskRec) /\ asked' \in 0..MaxAsked
         /\ PanelInv(panel', asks', serving, store, qa, overlapped)
<1> DEFINE q == [p EXCEPT !.saving = "no", !.atSave = None, !.during = None]
<1>1. p \in PanelRec
  BY DEF PanelInv
<1>2. q \in PanelRec /\ q.saving = "no"
  BY <1>1 DEF PanelRec
<1>3. Alike(p, q) /\ q.loading = p.loading /\ q.read = p.read
  BY <1>1 DEF PanelRec, Alike
<1>4. Reacts(q, p.during)
  BY DEF Ended
<1> HIDE DEF q
<1>5. PanelInv(q, asks, serving, store, qa, overlapped)
  BY <1>2, <1>3, PanelAlike
<1> QED
  BY <1>2, <1>4, <1>5, PanelReacts

(* The panel's part of the wire's typing.                                         *)
PanelAll == WireTyped /\ PanelInv(panel, asks, serving, store, answers, overlapped)

(* One lemma for each of the panel's actions.                                     *)
LEMMA PanelOpens ==
  ASSUME PanelAll, Opens \/ ClicksReload
  PROVE  PanelAll'
<1>1. WireTyped /\ PanelInv(panel, asks, serving, store, answers, overlapped) /\ panel \in PanelRec
  BY DEF PanelAll, PanelInv
<1>2. /\ asks \in Seq(AskRec) /\ answers \in Seq(ReplyRec) /\ asked \in 0..MaxAsked
  BY <1>1 DEF WireTyped
<1>3. panel.loading = "no" /\ panel.saving = "no"
  <2>1. CASE Opens
    BY <1>1, <2>1, NoneAssumption DEF Opens, PanelInv, PanelLinks, PanelRec
  <2>2. CASE ClicksReload
    BY <2>2 DEF ClicksReload, Idle
  <2> QED
    BY <2>1, <2>2
<1>4. PICK q \in {Reading(panel), [Reading(panel) EXCEPT !.agreed = TRUE]} : panel' = q
  BY DEF Opens, ClicksReload
<1>5. q \in PanelRec
  BY <1>1, <1>4 DEF PanelRec, Reading
<1>6. Alike(panel, q) /\ q.loading = "reading" /\ q.saving = "no"
  BY <1>1, <1>3, <1>4 DEF PanelRec, Reading, Alike
<1>7. /\ asked < MaxAsked /\ asked' = asked + 1 /\ asks' = Append(asks, Get(0))
      /\ UNCHANGED <<store, serving, reloading, overlapped, answers, heard, edits>>
  BY DEF Opens, ClicksReload, Ask
<1>8. Append(asks, Get(0)) \in Seq(AskRec) /\ PanelInv(q, Append(asks, Get(0)), serving, store, answers, overlapped)
  BY <1>1, <1>2, <1>3, <1>5, <1>6, PanelRereads
<1>9. asked' \in 0..MaxAsked
  BY <1>2, <1>7, ConfigBounds
<1>10. PanelInv(panel, asks, serving, store, answers, overlapped)'
  BY <1>4, <1>7, <1>8
<1>11. WireTyped'
  BY <1>1, <1>7, <1>8, <1>9 DEF WireTyped
<1> QED
  BY <1>10, <1>11 DEF PanelAll

LEMMA PanelHead ==
  ASSUME PanelAll, answers # <<>>
  PROVE  /\ answers \in Seq(ReplyRec) /\ Head(answers) \in ReplyRec /\ Tail(answers) \in Seq(ReplyRec)
         /\ \A sort \in Sorts, by \in Nat : IsReply(Head(answers), sort, by) => ReplyAt(answers, 1, sort, by)
         /\ Head(answers).answer \in {"doc", "noDoc"} => IsReply(Head(answers), "get", 0)
         /\ \A sort \in Sorts, by \in Nat : \A doc :
               /\ IsReply(Head(answers), sort, by) /\ Carries(doc, sort, by, asks, answers)
               /\ Head(answers).answer \in {"report", "invalid"}
               => Head(answers).doc = doc
<1>1. answers \in Seq(ReplyRec)
  BY DEF PanelAll, WireTyped
<1>2. Head(answers) = answers[1] /\ Head(answers) \in ReplyRec /\ Tail(answers) \in Seq(ReplyRec)
  BY <1>1, ReplyTail
<1>3. \A sort \in Sorts, by \in Nat : IsReply(Head(answers), sort, by) => ReplyAt(answers, 1, sort, by)
  BY <1>1, ReplyTail
<1>4. Head(answers).answer \in {"doc", "noDoc"} => IsReply(Head(answers), "get", Head(answers).by) /\ Head(answers).by \in Nat
  BY <1>2, ReplyFields DEF IsReply, ReplySort
<1>5. \A by \in Nat \ {0} : ~ReplyAt(answers, 1, "get", by)
  BY DEF PanelAll, PanelInv, PanelOut, NoneOut
<1>6. Head(answers).answer \in {"doc", "noDoc"} => Head(answers).by = 0
  BY <1>3, <1>4, <1>5 DEF Sorts
<1> QED
  BY <1>1, <1>2, <1>3, <1>4, <1>6 DEF Carries

LEMMA PanelReadsKeeps ==
  ASSUME PanelAll, PanelReads
  PROVE  PanelAll'
<1>1. WireTyped /\ PanelInv(panel, asks, serving, store, answers, overlapped) /\ panel \in PanelRec
  BY DEF PanelAll, PanelInv
<1>2. /\ asks \in Seq(AskRec) /\ answers \in Seq(ReplyRec) /\ answers # <<>>
      /\ Head(answers).answer \in {"doc", "noDoc"} /\ panel.loading = "reading"
      /\ answers' = Tail(answers)
      /\ UNCHANGED <<store, serving, reloading, overlapped, asks, heard, asked, edits>>
  BY <1>1 DEF WireTyped, PanelReads, Arrives, Taken
<1>3. /\ Head(answers) \in ReplyRec /\ Tail(answers) \in Seq(ReplyRec) /\ IsReply(Head(answers), "get", 0)
  BY <1>2, PanelHead
<1>4. /\ PanelInv(panel, asks, serving, store, Tail(answers), overlapped)
      /\ NoneOut("get", 0, asks, serving, Tail(answers)) /\ NoneOut("check", 0, asks, serving, Tail(answers))
  BY <1>1, <1>2, <1>3, PanelTaken
<1>5. CASE Head(answers).answer = "doc"
  <2> DEFINE doc == Head(answers).doc
             q == [panel EXCEPT !.loading = "waiting", !.read = doc, !.revision = doc]
  <2>1. doc \in Docs
    BY <1>3, <1>5, ReplyFields
  <2>2. panel' = q
    BY <1>5, <1>2 DEF PanelReads, Arrives
  <2> HIDE DEF doc
  <2>3. q \in PanelRec
    BY <1>1, <2>1 DEF PanelRec
  <2>4. /\ q.config = panel.config /\ q.saved = panel.saved /\ q.dirty = panel.dirty /\ q.validating = panel.validating
        /\ q.validation = panel.validation /\ q.generation = panel.generation /\ q.same = panel.same
        /\ q.loading = "waiting" /\ q.saving = panel.saving /\ q.read = doc /\ q.revision = doc
    BY <1>1 DEF PanelRec
  <2> HIDE DEF q
  <2>5. PanelInv(q, asks, serving, store, Tail(answers), overlapped)
    BY <1>2, <1>4, <2>1, <2>3, <2>4, PanelHasRead
  <2> QED
    BY <1>1, <1>2, <1>3, <2>2, <2>5 DEF PanelAll, WireTyped
<1>6. CASE Head(answers).answer = "noDoc"
  <2> DEFINE q == [panel EXCEPT !.loading = "failed"]
  <2>2. panel' = q
    BY <1>6 DEF PanelReads, Arrives
  <2>3. q \in PanelRec
    BY <1>1 DEF PanelRec
  <2>4. Alike(panel, q) /\ q.loading = "failed" /\ q.saving = panel.saving /\ q.read = panel.read
    BY <1>1 DEF PanelRec, Alike
  <2> HIDE DEF q
  <2>5. PanelInv(q, asks, serving, store, Tail(answers), overlapped)
    BY <1>2, <1>4, <2>3, <2>4, PanelAlike
  <2> QED
    BY <1>1, <1>2, <1>3, <2>2, <2>5 DEF PanelAll, WireTyped
<1> QED
  BY <1>2, <1>5, <1>6

LEMMA PanelLoadsKeeps ==
  ASSUME PanelAll, Loads
  PROVE  PanelAll'
<1>1. WireTyped /\ PanelInv(panel, asks, serving, store, answers, overlapped) /\ panel \in PanelRec
  BY DEF PanelAll, PanelInv
<1>2. /\ asks \in Seq(AskRec) /\ answers \in Seq(ReplyRec) /\ asked \in 0..MaxAsked
      /\ panel.loading = "waiting" /\ panel.read \in Docs
  BY <1>1 DEF WireTyped, Loads, PanelInv, PanelLinks
<1> DEFINE loaded == Normalized(panel.read)
           m == [ask |-> "check", doc |-> loaded, by |-> panel.generation + 1]
           q == Loaded(panel, loaded)
<1>3. /\ panel' = q /\ asked < MaxAsked /\ asked' = asked + 1 /\ asks' = Append(asks, m)
      /\ UNCHANGED <<store, serving, reloading, overlapped, answers, heard, edits>>
  BY DEF Loads, Ask
<1>4. loaded \in Docs
  BY <1>2, NormalizedKeeps
<1>5. loaded = Normalized(panel.read)
  OBVIOUS
<1> HIDE DEF loaded
<1>6. (loaded # panel.read) \in BOOLEAN /\ panel.generation + 1 \in Nat
  BY <1>1 DEF PanelRec
<1>7. q \in PanelRec
  BY <1>1, <1>2, <1>4, <1>6 DEF PanelRec, Loaded
<1>8. /\ q.config = loaded /\ q.saved = panel.read /\ q.revision = panel.revision
      /\ q.dirty = (loaded # panel.read) /\ q.loading = "no" /\ q.saving = panel.saving
      /\ q.validating = panel.validating /\ q.validation = None
      /\ q.generation = panel.generation + 1 /\ q.same = TRUE
  BY <1>1 DEF PanelRec, Loaded
<1> HIDE DEF q, m
<1>9. Append(asks, m) \in Seq(AskRec) /\ PanelInv(q, Append(asks, m), serving, store, answers, overlapped)
  BY <1>1, <1>2, <1>5, <1>7, <1>8, PanelLoads DEF m
<1>10. asked' \in 0..MaxAsked
  BY <1>2, <1>3, ConfigBounds
<1> QED
  BY <1>1, <1>3, <1>9, <1>10 DEF PanelAll, WireTyped

LEMMA PanelByItself ==
  ASSUME PanelAll, LoadFails \/ TypesBadYaml \/ TogglesYaml \/ \E mark \in Marks : Edits(mark)
  PROVE  PanelAll'
<1>1. WireTyped /\ PanelInv(panel, asks, serving, store, answers, overlapped) /\ panel \in PanelRec
  BY DEF PanelAll, PanelInv
<1>2. /\ UNCHANGED <<store, serving, reloading, overlapped, asks, answers, heard, asked>>
      /\ edits' = edits \/ (edits < MaxEdits /\ edits' = edits + 1)
  BY DEF LoadFails, TypesBadYaml, TogglesYaml, Edits, SilentWire, wireVars
<1>3. edits' \in 0..MaxEdits
  BY <1>1, <1>2, ConfigBounds DEF WireTyped
<1>4. SUFFICES PanelInv(panel', asks, serving, store, answers, overlapped)
  BY <1>1, <1>2, <1>3 DEF PanelAll, WireTyped
<1>5. CASE LoadFails
  <2> DEFINE q == [panel EXCEPT !.loading = "no"]
  <2>1. panel' = q /\ panel.loading = "failed"
    BY <1>5 DEF LoadFails
  <2>2. q \in PanelRec /\ Alike(panel, q) /\ q.loading = "no" /\ q.saving = panel.saving /\ q.read = panel.read
    BY <1>1 DEF PanelRec, Alike
  <2> HIDE DEF q
  <2> QED
    BY <1>1, <2>1, <2>2, PanelAlike
<1>6. CASE TypesBadYaml \/ TogglesYaml
  <2>1. PICK mode \in {"visual", "yaml", "error"} : panel' = [panel EXCEPT !.yaml = mode]
    BY <1>6 DEF TypesBadYaml, TogglesYaml
  <2> DEFINE q == [panel EXCEPT !.yaml = mode]
  <2>2. q \in PanelRec /\ Alike(panel, q) /\ q.loading = panel.loading /\ q.saving = panel.saving /\ q.read = panel.read
    BY <1>1 DEF PanelRec, Alike
  <2> HIDE DEF q
  <2> QED
    BY <1>1, <2>1, <2>2, PanelAlike DEF q
<1>7. CASE \E mark \in Marks : Edits(mark)
  <2>1. PICK mark \in Marks : Edits(mark)
    BY <1>7
  <2> DEFINE marks == panel.config.marks
             toggled == IF mark \in marks THEN marks \ {mark} ELSE marks \union {mark}
             doc == [panel.config EXCEPT !.marks = toggled]
             mode == IF panel.yaml = "error" THEN "yaml" ELSE panel.yaml
             q == [Changed(panel, doc) EXCEPT !.yaml = mode]
  <2>2. panel.config \in Docs
    BY <1>1, <2>1 DEF Edits, PanelRec
  <2>3. doc \in Docs /\ doc.others = panel.config.others
    BY <2>1, <2>2 DEF Docs
  <2>4. mode \in {"visual", "yaml", "error"}
    BY <1>1 DEF PanelRec
  <2>5. panel' = q
    BY <1>1, <2>1 DEF Edits, Changed, PanelRec
  <2> HIDE DEF doc, mode
  <2>6. q \in PanelRec
    BY <1>1, <2>3, <2>4 DEF PanelRec, Changed
  <2>7. /\ q.config = doc /\ q.dirty = TRUE /\ q.same = FALSE
        /\ q.revision = panel.revision /\ q.read = panel.read /\ q.validating = panel.validating
        /\ q.generation = panel.generation /\ q.loading = panel.loading /\ q.saving = panel.saving
    BY <1>1 DEF PanelRec, Changed
  <2> HIDE DEF q
  <2> QED
    BY <1>1, <2>2, <2>3, <2>5, <2>6, <2>7, PanelChanged
<1> QED
  BY <1>5, <1>6, <1>7

LEMMA PanelClicks ==
  ASSUME PanelAll, ClicksValidate \/ ClicksSave
  PROVE  PanelAll'
<1>1. WireTyped /\ PanelInv(panel, asks, serving, store, answers, overlapped) /\ panel \in PanelRec
  BY DEF PanelAll, PanelInv
<1>2. /\ asks \in Seq(AskRec) /\ answers \in Seq(ReplyRec) /\ asked \in 0..MaxAsked
      /\ panel.generation + 1 \in Nat
  BY <1>1 DEF WireTyped, PanelRec
<1>3. /\ panel.loading = "no" /\ panel.saving = "no" /\ ~Checking(panel) /\ panel.config \in Docs
      /\ asked < MaxAsked /\ asked' = asked + 1
      /\ UNCHANGED <<store, serving, reloading, overlapped, answers, heard, edits>>
  BY <1>1 DEF ClicksValidate, ClicksSave, Idle, Ask, Checking, PanelRec
<1>4. asked' \in 0..MaxAsked
  BY <1>2, <1>3, ConfigBounds
<1>5. SUFFICES asks' \in Seq(AskRec) /\ PanelInv(panel', asks', serving, store, answers, overlapped)
  BY <1>1, <1>3, <1>4 DEF PanelAll, WireTyped
<1>6. CASE ClicksValidate
  <2> DEFINE m == [ask |-> "check", doc |-> Pruned(panel.config), by |-> Button]
             q == [panel EXCEPT !.validating = TRUE, !.generation = @ + 1]
  <2>1. panel' = q /\ asks' = Append(asks, m)
    BY <1>6 DEF ClicksValidate, Ask
  <2>2. q \in PanelRec
    BY <1>1, <1>2 DEF PanelRec
  <2>3. /\ q.config = panel.config /\ q.saved = panel.saved /\ q.revision = panel.revision /\ q.dirty = panel.dirty
        /\ q.loading = "no" /\ q.saving = "no" /\ q.validating = TRUE
        /\ q.validation = panel.validation /\ q.generation = panel.generation + 1 /\ q.same = panel.same
    BY <1>1, <1>3 DEF PanelRec
  <2> HIDE DEF q, m
  <2> QED
    BY <1>1, <1>2, <1>3, <2>1, <2>2, <2>3, PanelValidates DEF m
<1>7. CASE ClicksSave
  <2> DEFINE m == [ask |-> "save", doc |-> Pruned(panel.config), expected |-> panel.revision]
             q == [panel EXCEPT !.saving = "sent", !.generation = @ + 1, !.atSave = panel.config]
  <2>1. panel' = q /\ asks' = Append(asks, m)
    BY <1>7 DEF ClicksSave, Ask
  <2>2. q \in PanelRec
    BY <1>1, <1>2 DEF PanelRec
  <2>3. /\ q.config = panel.config /\ q.saved = panel.saved /\ q.revision = panel.revision /\ q.dirty = panel.dirty
        /\ q.loading = "no" /\ q.saving = "sent" /\ q.validating = panel.validating
        /\ q.validation = panel.validation /\ q.generation = panel.generation + 1 /\ q.same = panel.same
    BY <1>1, <1>3 DEF PanelRec
  <2> HIDE DEF q, m
  <2> QED
    BY <1>1, <1>2, <1>3, <2>1, <2>2, <2>3, PanelSends DEF m
<1> QED
  BY <1>6, <1>7

LEMMA PanelReportedKeeps ==
  ASSUME PanelAll, Reported
  PROVE  PanelAll'
<1>1. WireTyped /\ PanelInv(panel, asks, serving, store, answers, overlapped) /\ panel \in PanelRec
  BY DEF PanelAll, PanelInv
<1>2. /\ asks \in Seq(AskRec) /\ answers \in Seq(ReplyRec) /\ answers # <<>>
      /\ Head(answers).answer = "report" /\ answers' = Tail(answers)
      /\ UNCHANGED <<store, serving, reloading, overlapped, asks, heard, asked, edits>>
  BY <1>1 DEF WireTyped, Reported, Arrives, Taken
<1> DEFINE r == Head(answers)
           doc == r.doc
<1>3. /\ r \in ReplyRec /\ Tail(answers) \in Seq(ReplyRec) /\ doc \in Docs /\ r.by \in Nat
      /\ IsReply(r, "check", r.by)
  BY <1>2, PanelHead, ReplyFields DEF IsReply, ReplySort
<1>4. /\ PanelInv(panel, asks, serving, store, Tail(answers), overlapped)
      /\ r.by = 0 => NoneOut("check", 0, asks, serving, Tail(answers))
  BY <1>1, <1>2, <1>3, PanelTaken
<1>5. SUFFICES PanelInv(panel', asks, serving, store, Tail(answers), overlapped)
  BY <1>1, <1>2, <1>3 DEF PanelAll, WireTyped
<1>6. CASE r.by = Button
  <2> DEFINE q == [panel EXCEPT !.validating = FALSE, !.validation = doc]
  <2>1. panel' = q
    BY <1>6 DEF Reported
  <2>2. panel.config \in Docs /\ Clean(panel) => Pruned(doc) = Pruned(panel.config)
    <3>1. SUFFICES ASSUME panel.config \in Docs, Clean(panel) PROVE Pruned(doc) = Pruned(panel.config)
      OBVIOUS
    <3>2. Carries(Pruned(panel.config), "check", 0, asks, answers)
      BY <1>1, <3>1 DEF PanelInv, PanelCarries
    <3>3. doc = Pruned(panel.config)
      BY <1>2, <1>3, <1>6, <3>2, PanelHead DEF Sorts, Button
    <3> QED
      BY <3>1, <3>3, PrunedTwice
  <2> HIDE DEF r, doc
  <2>3. q \in PanelRec
    BY <1>1, <1>3 DEF PanelRec
  <2>4. /\ q.config = panel.config /\ q.saved = panel.saved /\ q.revision = panel.revision
        /\ q.dirty = panel.dirty /\ q.read = panel.read /\ q.generation = panel.generation /\ q.same = panel.same
        /\ q.loading = panel.loading /\ q.saving = panel.saving /\ q.validation = doc /\ q.validating = FALSE
    BY <1>1 DEF PanelRec
  <2> HIDE DEF q
  <2> QED
    BY <1>3, <1>4, <1>6, <2>1, <2>2, <2>3, <2>4, PanelReported DEF Button
<1>7. CASE r.by # Button /\ panel.same /\ panel.generation = r.by
  <2> DEFINE q == [panel EXCEPT !.validation = doc]
  <2>1. panel' = q
    BY <1>7 DEF Reported
  <2>2. panel.config \in Docs => doc = panel.config
    <3>1. SUFFICES ASSUME panel.config \in Docs PROVE doc = panel.config
      OBVIOUS
    <3>2. Same(panel)
      BY <1>1, <1>7 DEF Same, PanelRec
    <3>3. Carries(panel.config, "check", r.by, asks, answers)
      BY <1>1, <1>7, <3>1, <3>2 DEF PanelInv, PanelCarries
    <3> QED
      BY <1>2, <1>3, <3>3, PanelHead DEF Sorts
  <2> HIDE DEF r, doc
  <2>3. q \in PanelRec
    BY <1>1, <1>3 DEF PanelRec
  <2>4. /\ q.config = panel.config /\ q.saved = panel.saved /\ q.revision = panel.revision
        /\ q.dirty = panel.dirty /\ q.read = panel.read /\ q.generation = panel.generation /\ q.same = panel.same
        /\ q.loading = panel.loading /\ q.saving = panel.saving /\ q.validation = doc /\ q.validating = panel.validating
    BY <1>1 DEF PanelRec
  <2> HIDE DEF q
  <2> QED
    BY <1>3, <1>4, <2>1, <2>2, <2>3, <2>4, PanelReported
<1>8. CASE r.by # Button /\ ~(panel.same /\ panel.generation = r.by)
  BY <1>4, <1>8 DEF Reported
<1> QED
  BY <1>6, <1>7, <1>8

LEMMA PanelStoredRec ==
  ASSUME NEW p \in PanelRec, NEW doc \in Docs, p.config \in Docs
  PROVE  /\ WithStored(p, doc) \in PanelRec
         /\ WithStored(p, doc).config \in {Normalized(doc), Normalized(p.config)}
         /\ WithStored(p, doc).saved = doc /\ WithStored(p, doc).revision = doc
         /\ WithStored(p, doc).validation = doc /\ WithStored(p, doc).same = FALSE
         /\ WithStored(p, doc).dirty = FALSE => WithStored(p, doc).config = doc
         /\ WithStored(p, doc).read = p.read /\ WithStored(p, doc).validating = p.validating
         /\ WithStored(p, doc).generation = p.generation /\ WithStored(p, doc).loading = p.loading
         /\ WithStored(p, doc).saving = p.saving
<1> DEFINE kept == Normalized(IF p.config = p.atSave THEN doc ELSE p.config)
           moved == kept # doc
           q == [p EXCEPT !.saved = doc, !.revision = doc, !.stale = FALSE, !.validation = doc,
                          !.config = kept, !.same = FALSE, !.dirty = moved]
<1>1. kept \in {Normalized(doc), Normalized(p.config)} /\ kept \in Docs
  BY NormalizedKeeps
<1>2. WithStored(p, doc) = q
  BY DEF WithStored
<1>3. moved \in BOOLEAN /\ (moved = FALSE => kept = doc)
  OBVIOUS
<1> HIDE DEF kept, moved
<1>4. q \in PanelRec
  BY <1>1, <1>3 DEF PanelRec
<1>5. /\ q.config = kept /\ q.saved = doc /\ q.revision = doc /\ q.validation = doc /\ q.same = FALSE
      /\ q.dirty = moved /\ q.read = p.read /\ q.validating = p.validating
      /\ q.generation = p.generation /\ q.loading = p.loading /\ q.saving = p.saving
  BY DEF PanelRec
<1> HIDE DEF q
<1> QED
  BY <1>1, <1>2, <1>3, <1>4, <1>5

LEMMA PanelAnswered ==
  ASSUME PanelAll, SaveAnswered
  PROVE  PanelAll'
<1>1. WireTyped /\ PanelInv(panel, asks, serving, store, answers, overlapped) /\ panel \in PanelRec
  BY DEF PanelAll, PanelInv
<1>2. /\ asks \in Seq(AskRec) /\ answers \in Seq(ReplyRec) /\ answers # <<>> /\ asked \in 0..MaxAsked
      /\ Head(answers).answer \in {"conflict", "refused", "invalid", "saved"} /\ answers' = Tail(answers)
      /\ panel.saving = "sent" /\ panel.config \in Docs /\ panel.generation \in Nat
      /\ UNCHANGED <<store, serving, reloading, overlapped, heard, edits>>
  BY <1>1 DEF WireTyped, SaveAnswered, Arrives, Taken, PanelInv, PanelLinks, PanelRec
<1> DEFINE r == Head(answers)
<1>3. /\ r \in ReplyRec /\ Tail(answers) \in Seq(ReplyRec)
      /\ r.answer # "refused" => r.doc \in Docs
      /\ r.answer = "saved" => r.reloaded \in BOOLEAN
      /\ IsReply(r, "save", 0)
  BY <1>2, PanelHead, ReplyFields DEF IsReply, ReplySort
<1>4. /\ PanelInv(panel, asks, serving, store, Tail(answers), overlapped)
      /\ NoneOut("save", 0, asks, serving, Tail(answers))
  BY <1>1, <1>2, <1>3, PanelTaken
<1>5. SUFFICES /\ asks' \in Seq(AskRec) /\ asked' \in 0..MaxAsked
               /\ PanelInv(panel', asks', serving, store, Tail(answers), overlapped)
  BY <1>1, <1>2, <1>3 DEF PanelAll, WireTyped
<1>6. ASSUME NEW p, PanelInv(p, asks, serving, store, Tail(answers), overlapped), Ended(p)
      PROVE  /\ asks' \in Seq(AskRec) /\ asked' \in 0..MaxAsked
             /\ PanelInv(panel', asks', serving, store, Tail(answers), overlapped)
  BY <1>2, <1>3, <1>4, <1>6, PanelEnded
<1>7. CASE r.answer = "conflict" /\ Ended(Conflicted(panel, r.doc))
  <2> DEFINE q == Conflicted(panel, r.doc)
  <2>1. q \in PanelRec /\ Alike(panel, q) /\ q.loading = panel.loading /\ q.saving = panel.saving /\ q.read = panel.read
    BY <1>1 DEF PanelRec, Alike, Conflicted
  <2>2. Ended(q)
    BY <1>7
  <2> HIDE DEF q
  <2>3. PanelInv(q, asks, serving, store, Tail(answers), overlapped)
    BY <1>4, <2>1, PanelAlike
  <2> QED
    BY <1>6, <2>2, <2>3
<1>8. CASE r.answer = "refused" /\ Ended(panel)
  BY <1>4, <1>6, <1>8
<1>9. CASE r.answer = "invalid" /\ Ended([panel EXCEPT !.validation = r.doc])
  <2> DEFINE doc == r.doc
             q == [panel EXCEPT !.validation = doc]
  <2>0. doc \in Docs
    BY <1>3, <1>9
  <2>1. panel.config \in Docs /\ Clean(panel) => Pruned(doc) = Pruned(panel.config)
    <3>1. SUFFICES ASSUME panel.config \in Docs, Clean(panel) PROVE Pruned(doc) = Pruned(panel.config)
      OBVIOUS
    <3>2. Carries(Pruned(panel.config), "save", 0, asks, answers)
      BY <1>1, <3>1 DEF PanelInv, PanelCarries
    <3>3. doc = Pruned(panel.config)
      BY <1>2, <1>3, <1>9, <3>2, PanelHead DEF Sorts
    <3> QED
      BY <3>1, <3>3, PrunedTwice
  <2>2. Ended(q)
    BY <1>9
  <2> HIDE DEF r, doc
  <2>3. q \in PanelRec
    BY <1>1, <2>0 DEF PanelRec
  <2>4. /\ q.config = panel.config /\ q.saved = panel.saved /\ q.revision = panel.revision
        /\ q.dirty = panel.dirty /\ q.read = panel.read /\ q.generation = panel.generation /\ q.same = panel.same
        /\ q.loading = panel.loading /\ q.saving = panel.saving /\ q.validation = doc /\ q.validating = panel.validating
    BY <1>1 DEF PanelRec
  <2> HIDE DEF q
  <2>5. PanelInv(q, asks, serving, store, Tail(answers), overlapped)
    BY <1>4, <2>0, <2>1, <2>3, <2>4, PanelReported
  <2> QED
    BY <1>6, <2>2, <2>5
<1>10. ASSUME r.answer = "saved", NEW stage \in {"sent", "after"}
       PROVE  PanelInv([WithStored(panel, r.doc) EXCEPT !.saving = stage], asks, serving, store, Tail(answers), overlapped)
  <2> DEFINE doc == r.doc
             w == WithStored(panel, doc)
             q == [w EXCEPT !.saving = stage]
  <2>0. doc \in Docs
    BY <1>3, <1>10
  <2>1. overlapped = FALSE => doc.others <= panel.config.others
    <3>1. ReplyAt(answers, 1, "save", 0) /\ answers[1] = r /\ 1 \in Nat
      BY <1>2, <1>3, ReplyTail
    <3>2. overlapped = FALSE => SavesWithin(panel.config.others, asks, serving, store, answers)
      BY <1>1, <1>2 DEF PanelInv, PanelSafe
    <3> QED
      BY <1>10, <3>1, <3>2 DEF SavesWithin
  <2> HIDE DEF r, doc
  <2>2. /\ w \in PanelRec /\ w.config \in {Normalized(doc), Normalized(panel.config)}
        /\ w.saved = doc /\ w.revision = doc /\ w.validation = doc /\ w.same = FALSE
        /\ w.dirty = FALSE => w.config = doc
        /\ w.read = panel.read /\ w.validating = panel.validating
        /\ w.generation = panel.generation /\ w.loading = panel.loading /\ w.saving = panel.saving
    BY <1>1, <1>2, <2>0, PanelStoredRec
  <2> HIDE DEF w
  <2>3. q \in PanelRec
    BY <2>2 DEF PanelRec
  <2>4. /\ q.config = w.config /\ q.saved = doc /\ q.revision = doc /\ q.validation = doc /\ q.same = FALSE
        /\ q.dirty = w.dirty /\ q.read = panel.read /\ q.validating = panel.validating
        /\ q.generation = panel.generation /\ q.loading = panel.loading /\ q.saving = stage
    BY <2>2 DEF PanelRec
  <2> HIDE DEF q
  <2>5. w.config \in Docs /\ w.config.others \in {doc.others, panel.config.others}
    BY <1>2, <2>0, <2>2, NormalizedKeeps
  <2>6. PanelInv(q, asks, serving, store, Tail(answers), overlapped)
    BY <1>2, <1>4, <2>0, <2>1, <2>2, <2>3, <2>4, <2>5, PanelStored
  <2> QED
    BY <2>6 DEF q, w, doc
<1>11. CASE r.answer = "saved" /\ Ended(WithStored(panel, r.doc))
  <2>1. WithStored(panel, r.doc) \in PanelRec /\ WithStored(panel, r.doc).saving = "sent"
    BY <1>1, <1>2, <1>3, <1>11, PanelStoredRec
  <2>2. [WithStored(panel, r.doc) EXCEPT !.saving = "sent"] = WithStored(panel, r.doc)
    BY <2>1 DEF PanelRec
  <2>3. PanelInv(WithStored(panel, r.doc), asks, serving, store, Tail(answers), overlapped)
    BY <1>10, <1>11, <2>2
  <2> QED
    BY <1>6, <1>11, <2>3
<1>12. CASE /\ r.answer = "saved" /\ SilentWire
            /\ panel' = [WithStored(panel, r.doc) EXCEPT !.saving = "after"]
  <2>1. PanelInv(panel', asks, serving, store, Tail(answers), overlapped)
    BY <1>10, <1>12
  <2> QED
    BY <1>2, <1>12, <2>1 DEF SilentWire
<1> QED
  BY <1>7, <1>8, <1>9, <1>11, <1>12 DEF SaveAnswered, Arrives

LEMMA PanelSaveEnds ==
  ASSUME PanelAll, SaveEnds
  PROVE  PanelAll'
<1>1. WireTyped /\ PanelInv(panel, asks, serving, store, answers, overlapped) /\ panel \in PanelRec
  BY DEF PanelAll, PanelInv
<1>2. /\ asks \in Seq(AskRec) /\ answers \in Seq(ReplyRec) /\ asked \in 0..MaxAsked
      /\ panel.saving = "after" /\ panel.config \in Docs
      /\ UNCHANGED <<store, serving, reloading, overlapped, answers, heard, edits>>
  BY <1>1 DEF WireTyped, SaveEnds, PanelInv, PanelLinks
<1> DEFINE kept == Normalized(panel.config)
           differs == panel.dirty \/ kept # panel.config
           q == [panel EXCEPT !.config = kept, !.dirty = differs]
           z == [q EXCEPT !.saving = "no", !.atSave = None, !.during = None]
<1>3. kept \in Docs /\ kept = Normalized(panel.config)
  BY <1>2, NormalizedKeeps
<1>4. Reacts(z, panel.during)
  <2>1. Ended(q)
    BY DEF SaveEnds
  <2>2. q.during = panel.during
    BY <1>1 DEF PanelRec
  <2> QED
    BY <2>1, <2>2 DEF Ended
<1>5. differs \in BOOLEAN /\ (differs = FALSE => Clean(panel) /\ kept = panel.config)
  BY <1>1 DEF PanelRec, Clean
<1> HIDE DEF kept, differs
<1>6. z \in PanelRec
  BY <1>1, <1>3, <1>5 DEF PanelRec
<1>7. /\ z.config = kept /\ z.dirty = differs /\ z.saved = panel.saved /\ z.revision = panel.revision
      /\ z.read = panel.read /\ z.validating = panel.validating /\ z.validation = panel.validation
      /\ z.generation = panel.generation /\ z.same = panel.same /\ z.loading = panel.loading
      /\ z.saving = "no"
  BY <1>1 DEF PanelRec
<1> HIDE DEF z
<1>8. PanelInv(z, asks, serving, store, answers, overlapped)
  BY <1>1, <1>2, <1>3, <1>5, <1>6, <1>7, PanelNormalized
<1>9. /\ asks' \in Seq(AskRec) /\ asked' \in 0..MaxAsked
      /\ PanelInv(panel', asks', serving, store, answers, overlapped)
  BY <1>2, <1>4, <1>7, <1>8, PanelReacts
<1> QED
  BY <1>1, <1>2, <1>9 DEF PanelAll, WireTyped

LEMMA PanelHears ==
  ASSUME PanelAll, PanelTold
  PROVE  PanelAll'
<1>1. WireTyped /\ PanelInv(panel, asks, serving, store, answers, overlapped) /\ panel \in PanelRec
  BY DEF PanelAll, PanelInv
<1>2. /\ asks \in Seq(AskRec) /\ answers \in Seq(ReplyRec) /\ asked \in 0..MaxAsked
      /\ heard \in Docs /\ heard' = None
      /\ UNCHANGED <<store, serving, reloading, overlapped, answers, edits>>
  BY <1>1 DEF WireTyped, PanelTold, Flushed
<1>3. SUFFICES /\ asks' \in Seq(AskRec) /\ asked' \in 0..MaxAsked
               /\ PanelInv(panel', asks', serving, store, answers, overlapped)
  BY <1>1, <1>2 DEF PanelAll, WireTyped
<1>4. CASE panel.saving # "no"
  <2> DEFINE q == [panel EXCEPT !.during = heard]
  <2>1. panel' = q /\ asks' = asks /\ asked' = asked
    BY <1>4 DEF PanelTold, SilentWire
  <2>2. q \in PanelRec /\ Alike(panel, q) /\ q.loading = panel.loading /\ q.saving = panel.saving /\ q.read = panel.read
    BY <1>1, <1>2 DEF PanelRec, Alike
  <2> HIDE DEF q
  <2> QED
    BY <1>1, <1>2, <2>1, <2>2, PanelAlike
<1>5. CASE panel.saving = "no"
  <2>1. Reacts(panel, heard)
    BY <1>5 DEF PanelTold
  <2> QED
    BY <1>1, <1>2, <1>5, <2>1, PanelReacts
<1> QED
  BY <1>1, <1>4, <1>5 DEF PanelRec

LEMMA WireStarts ==
  ASSUME WireInit
  PROVE  WireTyped /\ asks = <<>> /\ answers = <<>> /\ serving = None
<1>1. store \in Docs
  <2>1. 0 \in 0..MaxOthers
    BY ConfigBounds
  <2>2. SUBSET {"legacy"} \subseteq SUBSET Marks
    BY DEF Marks
  <2> QED
    BY <2>1, <2>2 DEF WireInit, Docs
<1>2. asked \in 0..MaxAsked /\ edits \in 0..MaxEdits
  BY ConfigBounds DEF WireInit
<1>3. /\ asks = <<>> /\ answers = <<>> /\ serving = None /\ heard = None
      /\ reloading \in BOOLEAN /\ overlapped \in BOOLEAN
  BY DEF WireInit
<1>4. \A S : <<>> \in Seq(S)
  OBVIOUS
<1> QED
  BY <1>1, <1>2, <1>3, <1>4 DEF WireTyped

LEMMA PanelStarts ==
  ASSUME PanelInit
  PROVE  PanelAll
<1>1. WireTyped /\ asks = <<>> /\ answers = <<>> /\ serving = None
  BY WireStarts DEF PanelInit
<1>2. panel \in PanelRec
  BY DEF PanelInit, PanelRec
<1>3. panel.config = None /\ panel.loading = "no" /\ panel.saving = "no"
  BY DEF PanelInit
<1>4. PanelLinks(panel)
  BY <1>3, NoneAssumption DEF PanelLinks
<1>5. /\ \A sort \in Sorts, by \in Nat : NoneOut(sort, by, asks, serving, answers) /\ OneOut(sort, by, asks, serving, answers)
      /\ ChecksFirst(asks, answers) /\ SavesSafe(asks)
  BY <1>1 DEF NoneOut, OneOut, AskAt, ReplyAt, ChecksFirst, SavesSafe
<1>6. PanelOut(panel, asks, serving, answers)
  BY <1>3, <1>5 DEF PanelOut, Sorts
<1>7. PanelCarries(panel, asks, answers) /\ PanelSafe(panel, asks, serving, store, answers, overlapped)
  BY <1>3, <1>5, NoneAssumption DEF PanelCarries, PanelSafe
<1> QED
  BY <1>1, <1>2, <1>4, <1>6, <1>7 DEF PanelAll, PanelInv

LEMMA PanelGoesOn ==
  ASSUME PanelAll, PanelNext
  PROVE  PanelAll'
<1>1. CASE Server /\ UNCHANGED <<panel, edits>>
  <2>1. WireTyped'
    BY <1>1, ServerKeepsType DEF PanelAll
  <2>2. PanelInv(panel, asks', serving', store', answers', overlapped')
    BY <1>1, PanelServes DEF PanelAll
  <2> QED
    BY <1>1, <2>1, <2>2 DEF PanelAll
<1> QED
  BY <1>1, PanelOpens, PanelReadsKeeps, PanelLoadsKeeps, PanelByItself, PanelClicks, PanelReportedKeeps,
     PanelAnswered, PanelSaveEnds, PanelHears DEF PanelNext

(* What it gives.                                                                 *)
LEMMA PanelInvGives ==
  ASSUME PanelAll
  PROVE  PanelInvariant /\ BadgeIsAboutTheDraft /\ (overlapped = FALSE => SavesSafe(asks))
<1>1. WireTypeOK
  BY DEF PanelAll, WireTyped, WireTypeOK, Serving
<1>2. panel \in PanelRec /\ PanelLinks(panel)
  BY DEF PanelAll, PanelInv
<1>3. PanelTypeOK
  BY <1>1, <1>2 DEF PanelTypeOK, PanelRec
<1>4. CleanMeansStored /\ BadgeIsAboutTheDraft
  BY <1>2 DEF PanelLinks, Clean, PanelRec, CleanMeansStored, BadgeIsAboutTheDraft
<1> QED
  BY <1>3, <1>4 DEF PanelInvariant, PanelAll, PanelInv, PanelSafe

----------------------------------------------------------------------------
(* The dialogs on the configuration.                                              *)

DialogRec == [kind : {"device", "optimizer"}, view : {"loading", "failed", "not_found", "ready"},
              config : Docs \union {None}, revision : Docs \union {None}, dirty : BOOLEAN, stale : BOOLEAN,
              saving : BOOLEAN, sent : Docs \union {None}, during : Docs \union {None}, closed : BOOLEAN,
              agreed : BOOLEAN, loads : Seq(Docs), reading : Int]

Saving(d) == d.saving = TRUE

DialogLinks(d) ==
  /\ d.view = "ready" <=> d.config \in Docs
  /\ d.view = "ready" \/ d.loads # <<>> => d.revision \in Docs

DialogOut(d, qs, s, qa) ==
  /\ OneOut("save", 0, qs, s, qa)
  /\ ~Saving(d) => NoneOut("save", 0, qs, s, qa)
  /\ \A by \in Nat \ {0} : NoneOut("get", by, qs, s, qa)

(* As long as no load overlaps another: one read at most is out, and it is not    *)
(* out while the view is there; the draft has what other clients had saved in     *)
(* the revision agreed with; and a save that is out is of the draft shown.        *)
DialogSafe(d, qs, s, qa, o, k) ==
  o = FALSE =>
    /\ SavesSafe(qs)
    /\ OneOut("get", 0, qs, s, qa)
    /\ d.reading \in {0, 1}
    /\ d.reading = 0 => NoneOut("get", 0, qs, s, qa)
    /\ d.reading # 0 => d.loads = <<>> /\ d.view # "ready"
    /\ d.loads # <<>> => Len(d.loads) = 1 /\ d.loads[1] = d.revision /\ d.view # "ready"
    /\ d.view = "ready" => d.config.others >= d.revision.others
    /\ Saving(d) => d.view = "ready" /\ d.sent = SentDoc(d)
    /\ k = 0 => d.view = "loading" /\ d.reading = 0 /\ d.loads = <<>>

DialogInv(d, qs, s, qa, o, k) ==
  /\ d \in DialogRec
  /\ DialogLinks(d) /\ DialogOut(d, qs, s, qa) /\ DialogSafe(d, qs, s, qa, o, k)

DialogAll == WireTyped /\ DialogInv(dialog, asks, serving, answers, overlapped, asked)

LEMMA DialogServes ==
  ASSUME WireTyped, Server, edits' = edits, NEW d, DialogInv(d, asks, serving, answers, overlapped, asked)
  PROVE  DialogInv(d, asks', serving', answers', overlapped', asked')
<1>1. \A sort \in Sorts : \A by :
         /\ NoneOut(sort, by, asks, serving, answers) => NoneOut(sort, by, asks', serving', answers')
         /\ OneOut(sort, by, asks, serving, answers) => OneOut(sort, by, asks', serving', answers')
  BY ServerKeepsOut
<1>2. /\ "save" \in Sorts /\ "check" \in Sorts /\ "get" \in Sorts
  BY DEF Sorts
<1>3. DialogOut(d, asks', serving', answers')
  BY <1>1, <1>2 DEF DialogInv, DialogOut
<1>4. DialogSafe(d, asks', serving', answers', overlapped', asked)
  <2>1. SUFFICES ASSUME overlapped' = FALSE PROVE DialogSafe(d, asks', serving', answers', FALSE, asked)
    BY DEF DialogSafe
  <2>2. overlapped \in BOOLEAN /\ overlapped' \in BOOLEAN /\ (SavesSafe(asks) => (overlapped => overlapped'))
    BY ServerKeepsType, ServerSavesSafe DEF WireTyped
  <2>3. overlapped = FALSE
    <3>1. CASE AnotherSaves
      BY <2>1, <2>2, <3>1 DEF AnotherSaves
    <3>2. CASE ~AnotherSaves
      <4>1. overlapped' = overlapped
        BY <3>2 DEF Server, AnswersGet, AnswersCheck, TakesSave, SaveWritten, SaveReloaded, AnothersReloaded, Hears
      <4> QED
        BY <2>1, <4>1
    <3> QED
      BY <3>1, <3>2
  <2>4. DialogSafe(d, asks, serving, answers, FALSE, asked)
    BY <2>3 DEF DialogInv
  <2>5. SavesSafe(asks')
    BY <2>4, ServerSavesSafe DEF DialogSafe
  <2> QED
    BY <1>1, <1>2, <2>4, <2>5 DEF DialogSafe
<1>5. asked' = asked
  BY DEF Server, AnswersGet, AnswersCheck, TakesSave, SaveWritten, SaveReloaded, AnotherSaves, AnothersReloaded, Hears
<1> QED
  BY <1>3, <1>4, <1>5 DEF DialogInv

(* A read is asked for.                                                           *)
LEMMA DialogRereads ==
  ASSUME NEW qs \in Seq(AskRec), NEW s, NEW qa \in Seq(ReplyRec), NEW o, NEW z, NEW k, NEW n \in Nat, n # 0,
         NEW d, NEW e \in DialogRec, DialogInv(d, qs, s, qa, o, k), z = FALSE => o = FALSE /\ d.reading = 0 /\ d.loads = <<>>,
         z = FALSE => ~Saving(d), e.saving = d.saving, e.view = "loading", e.config = None, e.revision = d.revision, e.loads = d.loads,
         e.reading = d.reading + 1
  PROVE  Append(qs, Get(0)) \in Seq(AskRec) /\ DialogInv(e, Append(qs, Get(0)), s, qa, z, n)
<1> DEFINE m == Get(0)
<1>1. /\ m \in AskRec /\ ~IsAsk(m, "save", 0) /\ m.ask = "get" /\ \A by \in Nat \ {0} : ~IsAsk(m, "get", by)
  BY DEF Get, AskRec, IsAsk
<1> HIDE DEF m
<1>2. \A sort \in Sorts : \A by :
         /\ ~IsAsk(m, sort, by) /\ NoneOut(sort, by, qs, s, qa) => NoneOut(sort, by, Append(qs, m), s, qa)
         /\ ~IsAsk(m, sort, by) /\ OneOut(sort, by, qs, s, qa) => OneOut(sort, by, Append(qs, m), s, qa)
         /\ NoneOut(sort, by, qs, s, qa) => OneOut(sort, by, Append(qs, m), s, qa)
  BY <1>1, OutAsked
<1>3. /\ "save" \in Sorts /\ "check" \in Sorts /\ "get" \in Sorts
  BY DEF Sorts
<1>4. DialogLinks(e)
  BY NoneAssumption DEF DialogInv, DialogLinks
<1>5. DialogOut(e, Append(qs, m), s, qa)
  BY <1>1, <1>2, <1>3 DEF DialogInv, DialogOut, Saving
<1>6. DialogSafe(e, Append(qs, m), s, qa, z, n)
  <2>1. SUFFICES ASSUME z = FALSE PROVE DialogSafe(e, Append(qs, m), s, qa, FALSE, n)
    BY DEF DialogSafe
  <2>2. SavesSafe(Append(qs, m))
    BY <1>1, <2>1, SafeAsked DEF DialogInv, DialogSafe
  <2>3. NoneOut("get", 0, qs, s, qa) /\ e.reading = 1 /\ e.loads = <<>> /\ e.view = "loading" /\ ~Saving(e)
    BY <2>1 DEF DialogInv, DialogSafe, Saving
  <2> QED
    BY <1>2, <1>3, <2>2, <2>3 DEF DialogSafe
<1>7. Append(qs, m) \in Seq(AskRec)
  BY <1>1, QueueAppend
<1> QED
  BY <1>4, <1>5, <1>6, <1>7 DEF DialogInv, m

LEMMA DialogAsksGet ==
  ASSUME DialogAll, Opened \/ DialogReloads
  PROVE  DialogAll'
<1>1. /\ WireTyped /\ DialogInv(dialog, asks, serving, answers, overlapped, asked) /\ dialog \in DialogRec
      /\ asks \in Seq(AskRec) /\ answers \in Seq(ReplyRec) /\ asked \in 0..MaxAsked /\ overlapped \in BOOLEAN
  BY DEF DialogAll, DialogInv, WireTyped
<1> DEFINE e == Loading(dialog)
<1>2. /\ dialog' = e /\ asked < MaxAsked /\ asked' = asked + 1 /\ asks' = Append(asks, Get(0))
      /\ UNCHANGED <<store, serving, reloading, answers, heard, edits>>
  BY DEF Opened, DialogReloads, Ask
<1>3. e \in DialogRec
  <2>1. dialog.reading + 1 \in Int
    BY <1>1 DEF DialogRec
  <2>2. e = [dialog EXCEPT !.view = "loading", !.config = None, !.dirty = FALSE,
                           !.stale = FALSE, !.reading = dialog.reading + 1]
    BY <1>1 DEF DialogRec, Loading
  <2> QED
    BY <1>1, <2>1, <2>2 DEF DialogRec
<1>4. /\ e.view = "loading" /\ e.config = None /\ e.revision = dialog.revision /\ e.loads = dialog.loads
      /\ e.reading = dialog.reading + 1 /\ e.saving = dialog.saving
  BY <1>1 DEF DialogRec, Loading
<1> HIDE DEF e
<1>6. asked' \in 0..MaxAsked /\ asked' \in Nat /\ asked' # 0
  BY <1>1, <1>2, ConfigBounds
<1>7. overlapped' \in BOOLEAN
  BY <1>1 DEF Opened, DialogReloads
<1>8. overlapped' = FALSE => overlapped = FALSE /\ dialog.reading = 0 /\ dialog.loads = <<>> /\ ~Saving(dialog)
  <2>1. CASE Opened
    BY <1>1, <2>1 DEF Opened, DialogInv, DialogSafe
  <2>2. CASE DialogReloads
    <3>1. overlapped' = FALSE => overlapped = FALSE /\ ~(dialog.reading > 0) /\ dialog.loads = <<>> /\ ~Saving(dialog)
      BY <1>1, <2>2 DEF DialogReloads, ReloadOffered, Saving
    <3>2. overlapped = FALSE => dialog.reading \in {0, 1}
      BY <1>1 DEF DialogInv, DialogSafe
    <3> QED
      BY <3>1, <3>2
  <2> QED
    BY <2>1, <2>2
<1>9. Append(asks, Get(0)) \in Seq(AskRec) /\ DialogInv(e, Append(asks, Get(0)), serving, answers, overlapped', asked')
  BY <1>1, <1>3, <1>4, <1>6, <1>8, DialogRereads
<1>10. DialogInv(dialog, asks, serving, answers, overlapped, asked)'
  BY <1>2, <1>9
<1> QED
  BY <1>1, <1>2, <1>6, <1>7, <1>9, <1>10 DEF DialogAll, WireTyped

LEMMA DialogTaken ==
  ASSUME NEW qs \in Seq(AskRec), NEW s, NEW qa \in Seq(ReplyRec), NEW o, NEW d, NEW k,
         qa # <<>>, DialogInv(d, qs, s, qa, o, k)
  PROVE  /\ DialogInv(d, qs, s, Tail(qa), o, k)
         /\ IsReply(Head(qa), "save", 0) => NoneOut("save", 0, qs, s, Tail(qa))
         /\ o = FALSE /\ IsReply(Head(qa), "get", 0) => NoneOut("get", 0, qs, s, Tail(qa)) /\ d.reading # 0
         /\ Head(qa) \in ReplyRec /\ Tail(qa) \in Seq(ReplyRec)
         /\ Head(qa).answer \in {"doc", "noDoc"} => IsReply(Head(qa), "get", 0)
<1>1. \A sort \in Sorts : \A by :
         /\ NoneOut(sort, by, qs, s, qa) => NoneOut(sort, by, qs, s, Tail(qa))
         /\ OneOut(sort, by, qs, s, qa) => OneOut(sort, by, qs, s, Tail(qa))
         /\ OneOut(sort, by, qs, s, qa) /\ IsReply(Head(qa), sort, by) => NoneOut(sort, by, qs, s, Tail(qa))
  BY OutTaken
<1>2. /\ "save" \in Sorts /\ "check" \in Sorts /\ "get" \in Sorts
  BY DEF Sorts
<1>3. /\ Head(qa) \in ReplyRec /\ Tail(qa) \in Seq(ReplyRec)
      /\ \A sort \in Sorts, by \in Nat : IsReply(Head(qa), sort, by) => ReplyAt(qa, 1, sort, by)
  BY ReplyTail
<1>4. Head(qa).answer \in {"doc", "noDoc"} => IsReply(Head(qa), "get", Head(qa).by) /\ Head(qa).by \in Nat
  BY <1>3, ReplyFields DEF IsReply, ReplySort
<1>5. \A by \in Nat \ {0} : ~ReplyAt(qa, 1, "get", by)
  BY DEF DialogInv, DialogOut, NoneOut
<1>6. Head(qa).answer \in {"doc", "noDoc"} => IsReply(Head(qa), "get", 0)
  BY <1>2, <1>3, <1>4, <1>5
<1>7. o = FALSE /\ IsReply(Head(qa), "get", 0) => NoneOut("get", 0, qs, s, Tail(qa)) /\ d.reading # 0
  <2>1. NoneOut("get", 0, qs, s, qa) => ~ReplyAt(qa, 1, "get", 0)
    BY DEF NoneOut
  <2> QED
    BY <1>1, <1>2, <1>3, <2>1 DEF DialogInv, DialogSafe
<1>8. DialogOut(d, qs, s, Tail(qa))
  BY <1>1, <1>2 DEF DialogInv, DialogOut
<1>9. DialogSafe(d, qs, s, Tail(qa), o, k)
  BY <1>1, <1>2 DEF DialogInv, DialogSafe
<1>10. IsReply(Head(qa), "save", 0) => NoneOut("save", 0, qs, s, Tail(qa))
  BY <1>1, <1>2 DEF DialogInv, DialogOut
<1> QED
  BY <1>3, <1>6, <1>7, <1>8, <1>9, <1>10 DEF DialogInv

LEMMA DialogReadsKeeps ==
  ASSUME DialogAll, DialogReads
  PROVE  DialogAll'
<1>1. /\ WireTyped /\ DialogInv(dialog, asks, serving, answers, overlapped, asked) /\ dialog \in DialogRec
      /\ asks \in Seq(AskRec) /\ answers \in Seq(ReplyRec) /\ asked \in 0..MaxAsked
  BY DEF DialogAll, DialogInv, WireTyped
<1>2. /\ answers # <<>> /\ Head(answers).answer \in {"doc", "noDoc"} /\ answers' = Tail(answers)
      /\ UNCHANGED <<store, serving, reloading, overlapped, asks, heard, asked, edits>>
  BY DEF DialogReads, Arrives, Taken
<1> DEFINE r == Head(answers)
<1>3. /\ r \in ReplyRec /\ Tail(answers) \in Seq(ReplyRec)
      /\ DialogInv(dialog, asks, serving, Tail(answers), overlapped, asked)
      /\ overlapped = FALSE => NoneOut("get", 0, asks, serving, Tail(answers)) /\ dialog.reading # 0
  BY <1>1, <1>2, DialogTaken
<1>4. overlapped = FALSE => dialog.reading = 1 /\ dialog.loads = <<>> /\ dialog.view # "ready" /\ ~Saving(dialog)
  BY <1>1, <1>3 DEF DialogInv, DialogSafe
<1>5. overlapped = FALSE => asked # 0
  BY <1>1, <1>4 DEF DialogInv, DialogSafe
<1>6. CASE r.answer = "doc"
  <2> DEFINE doc == r.doc
             rest == dialog.reading - 1
             more == Append(dialog.loads, doc)
             e == [dialog EXCEPT !.reading = rest, !.revision = doc, !.loads = more]
  <2>1. doc \in Docs
    BY <1>3, <1>6, ReplyFields
  <2>2. dialog' = e
    BY <1>1, <1>2, <1>6 DEF DialogReads, Arrives, DialogRec
  <2> HIDE DEF doc
  <2>3. rest \in Int /\ more \in Seq(Docs) /\ (dialog.loads = <<>> => Len(more) = 1 /\ more[1] = doc)
        /\ (dialog.reading = 1 => rest = 0)
    BY <1>1, <2>1 DEF DialogRec
  <2> HIDE DEF rest, more
  <2>4. e \in DialogRec
    BY <1>1, <2>1, <2>3 DEF DialogRec
  <2>5. /\ e.view = dialog.view /\ e.config = dialog.config /\ e.revision = doc /\ e.saving = dialog.saving
        /\ e.sent = dialog.sent /\ e.kind = dialog.kind /\ e.loads = more /\ e.reading = rest
    BY <1>1 DEF DialogRec
  <2> HIDE DEF e
  <2>6. DialogLinks(e) /\ DialogOut(e, asks, serving, Tail(answers))
    BY <1>3, <2>1, <2>5 DEF DialogInv, DialogLinks, DialogOut, Saving
  <2>7. DialogSafe(e, asks, serving, Tail(answers), overlapped, asked)
    <3>1. SUFFICES ASSUME overlapped = FALSE PROVE DialogSafe(e, asks, serving, Tail(answers), FALSE, asked)
      BY DEF DialogSafe
    <3>2. e.reading = 0 /\ Len(e.loads) = 1 /\ e.loads[1] = e.revision /\ e.view # "ready" /\ ~Saving(e)
      BY <1>4, <2>3, <2>5, <3>1 DEF Saving
    <3> QED
      BY <1>3, <1>5, <3>1, <3>2 DEF DialogInv, DialogSafe
  <2> QED
    BY <1>1, <1>2, <1>3, <2>2, <2>4, <2>6, <2>7 DEF DialogAll, DialogInv, WireTyped
<1>7. CASE r.answer = "noDoc"
  <2> DEFINE rest == dialog.reading - 1
             e == [dialog EXCEPT !.reading = rest, !.view = "failed", !.config = None]
  <2>2. dialog' = e
    BY <1>1, <1>2, <1>7 DEF DialogReads, Arrives, DialogRec
  <2>3. rest \in Int /\ (dialog.reading = 1 => rest = 0)
    BY <1>1 DEF DialogRec
  <2> HIDE DEF rest
  <2>4. e \in DialogRec
    BY <1>1, <2>3 DEF DialogRec
  <2>5. /\ e.view = "failed" /\ e.config = None /\ e.revision = dialog.revision /\ e.saving = dialog.saving
        /\ e.sent = dialog.sent /\ e.kind = dialog.kind /\ e.loads = dialog.loads /\ e.reading = rest
    BY <1>1 DEF DialogRec
  <2> HIDE DEF e
  <2>6. DialogLinks(e) /\ DialogOut(e, asks, serving, Tail(answers))
    BY <1>3, <2>5, NoneAssumption DEF DialogInv, DialogLinks, DialogOut, Saving
  <2>7. DialogSafe(e, asks, serving, Tail(answers), overlapped, asked)
    <3>1. SUFFICES ASSUME overlapped = FALSE PROVE DialogSafe(e, asks, serving, Tail(answers), FALSE, asked)
      BY DEF DialogSafe
    <3>2. e.reading = 0 /\ e.loads = <<>> /\ e.view # "ready" /\ ~Saving(e)
      BY <1>4, <2>3, <2>5, <3>1 DEF Saving
    <3> QED
      BY <1>3, <1>5, <3>1, <3>2 DEF DialogInv, DialogSafe
  <2> QED
    BY <1>1, <1>2, <1>3, <2>2, <2>4, <2>6, <2>7 DEF DialogAll, DialogInv, WireTyped
<1> QED
  BY <1>2, <1>6, <1>7

LEMMA WithoutOne ==
  ASSUME NEW S, NEW q \in Seq(S), NEW i \in DOMAIN q
  PROVE  /\ SubSeq(q, 1, i - 1) \o SubSeq(q, i + 1, Len(q)) \in Seq(S)
         /\ Len(q) = 1 => i = 1 /\ SubSeq(q, 1, i - 1) \o SubSeq(q, i + 1, Len(q)) = <<>>
         /\ q # <<>> /\ q[i] \in S
<1>1. Len(q) \in Nat /\ i \in 1..Len(q) /\ q[i] \in S /\ q # <<>>
  OBVIOUS
<1>2. /\ SubSeq(q, 1, i - 1) \in Seq(S) /\ SubSeq(q, i + 1, Len(q)) \in Seq(S)
      /\ Len(SubSeq(q, 1, i - 1)) = i - 1
      /\ Len(SubSeq(q, i + 1, Len(q))) = Len(q) - i
  BY <1>1
<1>3. \A a, b \in Seq(S) : /\ a \o b \in Seq(S)
                           /\ Len(a) = 0 /\ Len(b) = 0 => a \o b = <<>>
  OBVIOUS
<1>4. Len(q) = 1 => i = 1 /\ i - 1 = 0 /\ Len(q) - i = 0
  BY <1>1
<1> QED
  BY <1>1, <1>2, <1>3, <1>4

(* The fields of the dialog its invariant speaks of.                              *)
LikeDialog(d, e) ==
  /\ e.kind = d.kind /\ e.view = d.view /\ e.config = d.config /\ e.revision = d.revision
  /\ e.saving = d.saving /\ e.sent = d.sent /\ e.loads = d.loads /\ e.reading = d.reading

LEMMA DialogAlike ==
  ASSUME NEW qs, NEW s, NEW qa, NEW o, NEW k, NEW d, NEW e \in DialogRec, DialogInv(d, qs, s, qa, o, k), LikeDialog(d, e)
  PROVE  DialogInv(e, qs, s, qa, o, k)
<1>1. SentDoc(e) = SentDoc(d)
  BY DEF LikeDialog, SentDoc
<1> QED
  BY <1>1 DEF LikeDialog, DialogInv, DialogLinks, DialogOut, DialogSafe, Saving

LEMMA DialogShows ==
  ASSUME DialogAll, \E i \in DOMAIN dialog.loads : Shows(i)
  PROVE  DialogAll'
<1>1. /\ WireTyped /\ DialogInv(dialog, asks, serving, answers, overlapped, asked) /\ dialog \in DialogRec
  BY DEF DialogAll, DialogInv, WireTyped
<1>2. PICK i \in DOMAIN dialog.loads : Shows(i)
  OBVIOUS
<1> DEFINE fewer == SubSeq(dialog.loads, 1, i - 1) \o SubSeq(dialog.loads, i + 1, Len(dialog.loads))
           doc == dialog.loads[i]
<1>3. dialog.loads \in Seq(Docs)
  BY <1>1 DEF DialogRec
<1>4. /\ fewer \in Seq(Docs) /\ doc \in Docs /\ dialog.loads # <<>>
      /\ Len(dialog.loads) = 1 => fewer = <<>> /\ i = 1
  BY <1>2, <1>3, WithoutOne
<1>5. PICK found \in BOOLEAN : dialog' = [dialog EXCEPT !.loads = fewer,
                                             !.view = IF found THEN "ready" ELSE "not_found",
                                             !.config = IF found THEN doc ELSE None]
  BY <1>1, <1>2 DEF Shows, DialogRec
<1>6. UNCHANGED <<store, serving, reloading, overlapped, asks, answers, heard, asked, edits>>
  BY <1>2 DEF Shows, wireVars
<1>7. overlapped = FALSE => /\ Len(dialog.loads) = 1 /\ doc = dialog.revision /\ dialog.reading = 0 /\ ~Saving(dialog)
                            /\ asked # 0
  BY <1>1, <1>4 DEF DialogInv, DialogSafe
<1> HIDE DEF fewer, doc
<1> DEFINE showing == IF found THEN "ready" ELSE "not_found"
           shown == IF found THEN doc ELSE None
           e == [dialog EXCEPT !.loads = fewer, !.view = showing, !.config = shown]
<1>8. /\ showing \in {"ready", "not_found"} /\ shown \in Docs \union {None} /\ (showing = "ready" <=> shown \in Docs)
      /\ showing = "ready" => shown = doc
  BY <1>4, NoneAssumption
<1>9. dialog' = e
  BY <1>5
<1> HIDE DEF showing, shown
<1>10. e \in DialogRec
  BY <1>1, <1>4, <1>8 DEF DialogRec
<1>11. /\ e.view = showing /\ e.config = shown /\ e.revision = dialog.revision /\ e.saving = dialog.saving
       /\ e.sent = dialog.sent /\ e.kind = dialog.kind /\ e.loads = fewer /\ e.reading = dialog.reading
  BY <1>1 DEF DialogRec
<1> HIDE DEF e
<1>12. DialogLinks(e) /\ DialogOut(e, asks, serving, answers)
  BY <1>1, <1>4, <1>8, <1>11 DEF DialogInv, DialogLinks, DialogOut, Saving
<1>13. DialogSafe(e, asks, serving, answers, overlapped, asked)
  <2>1. SUFFICES ASSUME overlapped = FALSE PROVE DialogSafe(e, asks, serving, answers, FALSE, asked)
    BY DEF DialogSafe
  <2>2. /\ e.reading = 0 /\ e.loads = <<>> /\ ~Saving(e) /\ asked # 0
        /\ e.view = "ready" => e.config = e.revision /\ e.config \in Docs
    BY <1>4, <1>7, <1>8, <1>11, <2>1 DEF Saving
  <2>3. e.view = "ready" => e.config.others >= e.revision.others
    BY <2>2, ConfigBounds DEF Docs
  <2> QED
    BY <1>1, <2>1, <2>2, <2>3 DEF DialogInv, DialogSafe
<1>14. DialogInv(dialog', asks, serving, answers, overlapped, asked)
  BY <1>9, <1>10, <1>12, <1>13 DEF DialogInv
<1> QED
  BY <1>1, <1>6, <1>14 DEF DialogAll, WireTyped

LEMMA DialogEdits ==
  ASSUME DialogAll, \/ \E mark \in {"field", "phase"} : EditsDevice(mark)
                    \/ \E mark \in {"field", "legacy"} : EditsOptimizer(mark)
                    \/ SetsEnabled
  PROVE  DialogAll'
<1>1. /\ WireTyped /\ DialogInv(dialog, asks, serving, answers, overlapped, asked) /\ dialog \in DialogRec
  BY DEF DialogAll, DialogInv, WireTyped
<1>2. /\ \E mark \in Marks : Drafted(mark)
      /\ Editable(dialog) /\ edits < MaxEdits /\ edits' = edits + 1
      /\ UNCHANGED <<store, serving, reloading, overlapped, asks, answers, heard, asked>>
  BY DEF EditsDevice, EditsOptimizer, SetsEnabled, EditAllowed, wireVars, Marks
<1>3. PICK mark \in Marks : Drafted(mark)
  BY <1>2
<1> DEFINE marks == dialog.config.marks
           toggled == IF mark \in marks THEN marks \ {mark} ELSE marks \union {mark}
           doc == [dialog.config EXCEPT !.marks = toggled]
           e == [dialog EXCEPT !.config = doc, !.dirty = TRUE]
<1>4. dialog.view = "ready" /\ ~Saving(dialog) /\ dialog.config \in Docs
  BY <1>1, <1>2 DEF Editable, Saving, DialogInv, DialogLinks
<1>5. doc \in Docs /\ doc.others = dialog.config.others
  BY <1>3, <1>4 DEF Docs
<1>6. dialog' = e
  BY <1>1, <1>3 DEF Drafted, DialogRec
<1> HIDE DEF doc
<1>7. e \in DialogRec
  BY <1>1, <1>5 DEF DialogRec
<1>8. /\ e.view = "ready" /\ e.config = doc /\ e.revision = dialog.revision /\ e.saving = dialog.saving
      /\ e.loads = dialog.loads /\ e.reading = dialog.reading
  BY <1>1, <1>4 DEF DialogRec
<1> HIDE DEF e
<1>9. DialogLinks(e) /\ DialogOut(e, asks, serving, answers)
  BY <1>1, <1>4, <1>5, <1>8 DEF DialogInv, DialogLinks, DialogOut, Saving
<1>10. DialogSafe(e, asks, serving, answers, overlapped, asked)
  BY <1>1, <1>4, <1>5, <1>8 DEF DialogInv, DialogSafe, Saving
<1>11. edits' \in 0..MaxEdits
  BY <1>1, <1>2, ConfigBounds DEF WireTyped
<1>12. DialogInv(dialog', asks, serving, answers, overlapped, asked)
  BY <1>6, <1>7, <1>9, <1>10 DEF DialogInv
<1> QED
  BY <1>1, <1>2, <1>11, <1>12 DEF DialogAll, WireTyped

LEMMA DialogSends ==
  ASSUME DialogAll, DialogSaves
  PROVE  DialogAll'
<1>1. /\ WireTyped /\ DialogInv(dialog, asks, serving, answers, overlapped, asked) /\ dialog \in DialogRec
      /\ asks \in Seq(AskRec) /\ answers \in Seq(ReplyRec) /\ asked \in 0..MaxAsked
  BY DEF DialogAll, DialogInv, WireTyped
<1> DEFINE doc == SentDoc(dialog)
           m == [ask |-> "save", doc |-> doc, expected |-> dialog.revision]
           e == [dialog EXCEPT !.saving = TRUE, !.sent = doc]
<1>2. /\ dialog' = e /\ asked < MaxAsked /\ asked' = asked + 1 /\ asks' = Append(asks, m)
      /\ UNCHANGED <<store, serving, reloading, overlapped, answers, heard, edits>>
  BY DEF DialogSaves, Ask
<1>3. /\ dialog.view = "ready" /\ ~Saving(dialog) /\ dialog.config \in Docs /\ dialog.revision \in Docs
  BY <1>1 DEF DialogSaves, SaveOffered, Editable, Saving, DialogInv, DialogLinks
<1>4. doc \in Docs /\ doc.others = dialog.config.others /\ doc = SentDoc(dialog)
  BY <1>3, PrunedTwice DEF SentDoc
<1> HIDE DEF doc
<1>5. /\ m \in AskRec /\ m.ask = "save" /\ m.doc = doc /\ m.expected = dialog.revision
      /\ IsAsk(m, "save", 0) /\ \A by \in Nat : ~IsAsk(m, "get", by)
  BY <1>3, <1>4 DEF AskRec, IsAsk
<1> HIDE DEF m
<1>6. e \in DialogRec
  BY <1>1, <1>4 DEF DialogRec
<1>7. /\ e.view = "ready" /\ e.config = dialog.config /\ e.revision = dialog.revision /\ e.saving = TRUE
      /\ e.loads = dialog.loads /\ e.reading = dialog.reading /\ e.sent = doc /\ e.kind = dialog.kind
  BY <1>1, <1>3 DEF DialogRec
<1> HIDE DEF e
<1>8. \A sort \in Sorts : \A by :
         /\ ~IsAsk(m, sort, by) /\ NoneOut(sort, by, asks, serving, answers) => NoneOut(sort, by, Append(asks, m), serving, answers)
         /\ ~IsAsk(m, sort, by) /\ OneOut(sort, by, asks, serving, answers) => OneOut(sort, by, Append(asks, m), serving, answers)
         /\ NoneOut(sort, by, asks, serving, answers) => OneOut(sort, by, Append(asks, m), serving, answers)
  BY <1>1, <1>5, OutAsked
<1>9. /\ "save" \in Sorts /\ "get" \in Sorts
  BY DEF Sorts
<1>10. DialogLinks(e)
  BY <1>1, <1>3, <1>7 DEF DialogInv, DialogLinks
<1>11. DialogOut(e, Append(asks, m), serving, answers)
  BY <1>1, <1>3, <1>5, <1>7, <1>8, <1>9 DEF DialogInv, DialogOut, Saving
<1>12. DialogSafe(e, Append(asks, m), serving, answers, overlapped, asked + 1)
  <2>1. SUFFICES ASSUME overlapped = FALSE PROVE DialogSafe(e, Append(asks, m), serving, answers, FALSE, asked + 1)
    BY DEF DialogSafe
  <2>2. /\ dialog.config.others >= dialog.revision.others /\ SavesSafe(asks) /\ dialog.reading = 0 /\ dialog.loads = <<>>
        /\ NoneOut("get", 0, asks, serving, answers)
    BY <1>1, <1>3, <2>1 DEF DialogInv, DialogSafe
  <2>3. SavesSafe(Append(asks, m))
    BY <1>1, <1>4, <1>5, <2>2, SafeAsked
  <2>4. /\ NoneOut("get", 0, Append(asks, m), serving, answers) /\ OneOut("get", 0, Append(asks, m), serving, answers)
    BY <1>5, <1>8, <1>9, <2>2
  <2>5. SentDoc(e) = doc
    BY <1>4, <1>7 DEF SentDoc
  <2>6. asked + 1 # 0
    BY <1>1, ConfigBounds
  <2> QED
    BY <1>7, <2>2, <2>3, <2>4, <2>5, <2>6 DEF DialogSafe
<1>13. asked' \in 0..MaxAsked
  BY <1>1, <1>2, ConfigBounds
<1>14. asks' \in Seq(AskRec)
  BY <1>1, <1>2, <1>5, QueueAppend
<1>15. DialogInv(dialog', asks', serving, answers, overlapped, asked')
  BY <1>2, <1>6, <1>10, <1>11, <1>12 DEF DialogInv
<1> QED
  BY <1>1, <1>2, <1>13, <1>14, <1>15 DEF DialogAll, WireTyped

LEMMA DialogSaveOver ==
  ASSUME NEW qs, NEW s, NEW qa, NEW o, NEW k, NEW d, NEW e \in DialogRec, DialogInv(d, qs, s, qa, o, k),
         NoneOut("save", 0, qs, s, qa), e.kind = d.kind, e.view = d.view, e.config = d.config,
         e.revision = d.revision, e.loads = d.loads, e.reading = d.reading, e.saving = FALSE
  PROVE  DialogInv(e, qs, s, qa, o, k)
BY DEF DialogInv, DialogLinks, DialogOut, DialogSafe, Saving

LEMMA DialogKeeps ==
  ASSUME NEW qs, NEW s, NEW qa, NEW o, NEW k, NEW d, NEW e \in DialogRec, DialogInv(d, qs, s, qa, o, k), Saving(d),
         NoneOut("save", 0, qs, s, qa), NEW doc \in Docs, e.view = "ready", e.config = doc, e.revision = doc,
         e.loads = d.loads, e.reading = d.reading, e.saving = FALSE
  PROVE  DialogInv(e, qs, s, qa, o, k)
<1>1. doc.others \in Nat
  BY ConfigBounds DEF Docs
<1> QED
  BY <1>1 DEF DialogInv, DialogLinks, DialogOut, DialogSafe, Saving

LEMMA DialogAnsweredKeeps ==
  ASSUME DialogAll, DialogAnswered
  PROVE  DialogAll'
<1>1. /\ WireTyped /\ DialogInv(dialog, asks, serving, answers, overlapped, asked) /\ dialog \in DialogRec
      /\ asks \in Seq(AskRec) /\ answers \in Seq(ReplyRec)
  BY DEF DialogAll, DialogInv, WireTyped
<1>2. /\ answers # <<>> /\ Head(answers).answer \in {"conflict", "invalid", "refused", "saved"} /\ answers' = Tail(answers)
      /\ Saving(dialog)
      /\ UNCHANGED <<store, serving, reloading, overlapped, asks, heard, asked, edits>>
  BY <1>1 DEF DialogAnswered, Arrives, Taken, Saving, DialogRec
<1> DEFINE r == Head(answers)
           qa == Tail(answers)
<1>3. /\ r \in ReplyRec /\ qa \in Seq(ReplyRec) /\ DialogInv(dialog, asks, serving, qa, overlapped, asked)
      /\ NoneOut("save", 0, asks, serving, qa)
  <2>1. IsReply(r, "save", 0)
    BY <1>2 DEF IsReply, ReplySort
  <2> QED
    BY <1>1, <1>2, <2>1, DialogTaken
<1>4. SUFFICES DialogInv(dialog', asks, serving, qa, overlapped, asked)
  BY <1>1, <1>2, <1>3 DEF DialogAll, WireTyped
<1>5. ASSUME NEW stale \in BOOLEAN, dialog' = SaveOver([dialog EXCEPT !.stale = stale])
      PROVE  DialogInv(dialog', asks, serving, qa, overlapped, asked)
  <2> DEFINE now == stale \/ (~dialog.closed /\ IsStale(dialog.revision, dialog.during))
             e == [dialog EXCEPT !.saving = FALSE, !.during = None, !.stale = now]
  <2>1. now \in BOOLEAN
    BY <1>1 DEF DialogRec, IsStale
  <2>2. dialog' = e
    BY <1>1, <1>5 DEF SaveOver, DialogRec
  <2> HIDE DEF now
  <2>3. e \in DialogRec
    BY <1>1, <2>1 DEF DialogRec
  <2>4. /\ e.kind = dialog.kind /\ e.view = dialog.view /\ e.config = dialog.config /\ e.revision = dialog.revision
        /\ e.loads = dialog.loads /\ e.reading = dialog.reading /\ e.saving = FALSE
    BY <1>1 DEF DialogRec
  <2> HIDE DEF e
  <2> QED
    BY <1>3, <2>2, <2>3, <2>4, DialogSaveOver
<1>6. ASSUME r.answer = "saved", NEW closed \in BOOLEAN,
             dialog' = SaveOver([dialog EXCEPT !.view = "ready", !.config = r.doc, !.dirty = FALSE,
                                               !.stale = FALSE, !.revision = r.doc, !.closed = closed])
      PROVE  DialogInv(dialog', asks, serving, qa, overlapped, asked)
  <2> DEFINE doc == r.doc
             now == ~closed /\ IsStale(doc, dialog.during)
             e == [dialog EXCEPT !.view = "ready", !.config = doc, !.dirty = FALSE, !.stale = now,
                                 !.revision = doc, !.closed = closed, !.saving = FALSE, !.during = None]
  <2>1. doc \in Docs /\ now \in BOOLEAN
    BY <1>3, <1>6, ReplyFields DEF IsStale
  <2>2. dialog' = e
    BY <1>1, <1>6 DEF SaveOver, DialogRec
  <2> HIDE DEF now, doc
  <2>3. e \in DialogRec
    BY <1>1, <2>1 DEF DialogRec
  <2>4. /\ e.view = "ready" /\ e.config = doc /\ e.revision = doc
        /\ e.loads = dialog.loads /\ e.reading = dialog.reading /\ e.saving = FALSE
    BY <1>1 DEF DialogRec
  <2> HIDE DEF e
  <2> QED
    BY <1>2, <1>3, <2>1, <2>2, <2>3, <2>4, DialogKeeps
<1>7. dialog = [dialog EXCEPT !.stale = dialog.stale] /\ dialog.stale \in BOOLEAN /\ dialog.closed \in BOOLEAN
  BY <1>1 DEF DialogRec
<1>8. CASE r.answer = "conflict" /\ dialog' = SaveOver([dialog EXCEPT !.stale = TRUE])
  BY <1>5, <1>8
<1>9. CASE r.answer # "saved" /\ dialog' = SaveOver(dialog)
  BY <1>5, <1>7, <1>9
<1> DEFINE kept == [dialog EXCEPT !.view = "ready", !.config = r.doc, !.dirty = FALSE,
                                  !.stale = FALSE, !.revision = r.doc]
<1>10. CASE r.answer = "saved" /\ dialog' = SaveOver([kept EXCEPT !.closed = TRUE])
  BY <1>6, <1>10
<1>11. CASE r.answer = "saved" /\ dialog' = SaveOver(kept)
  <2>1. kept = [dialog EXCEPT !.view = "ready", !.config = r.doc, !.dirty = FALSE,
                              !.stale = FALSE, !.revision = r.doc, !.closed = dialog.closed]
    BY <1>1 DEF DialogRec
  <2> QED
    BY <1>6, <1>7, <1>11, <2>1
<1> QED
  BY <1>2, <1>8, <1>9, <1>10, <1>11 DEF DialogAnswered, Arrives

LEMMA DialogQuiet ==
  ASSUME DialogAll, DialogCloses \/ DialogTold
  PROVE  DialogAll'
<1>1. /\ WireTyped /\ DialogInv(dialog, asks, serving, answers, overlapped, asked) /\ dialog \in DialogRec
  BY DEF DialogAll, DialogInv, WireTyped
<1>2. CASE DialogCloses
  <2> DEFINE e == [dialog EXCEPT !.closed = TRUE, !.agreed = dialog.dirty]
  <2>1. dialog' = e /\ UNCHANGED <<wireVars, edits>>
    BY <1>2 DEF DialogCloses
  <2>2. e \in DialogRec /\ LikeDialog(dialog, e)
    BY <1>1 DEF DialogRec, LikeDialog
  <2> HIDE DEF e
  <2>3. DialogInv(dialog', asks, serving, answers, overlapped, asked)
    BY <1>1, <2>1, <2>2, DialogAlike
  <2> QED
    BY <1>1, <2>1, <2>3 DEF DialogAll, WireTyped, wireVars
<1>3. CASE DialogTold
  <2>1. /\ heard \in Docs /\ heard' = None
        /\ UNCHANGED <<store, serving, reloading, overlapped, asks, answers, asked, edits>>
    BY <1>1, <1>3 DEF DialogTold, Flushed, WireTyped
  <2>2. \E e \in DialogRec : LikeDialog(dialog, e) /\ dialog' = e
    <3>1. CASE dialog.saving
      <4> DEFINE e == [dialog EXCEPT !.during = heard]
      <4>1. e \in DialogRec /\ LikeDialog(dialog, e)
        BY <1>1, <2>1 DEF DialogRec, LikeDialog
      <4>2. dialog' = e
        BY <1>3, <3>1 DEF DialogTold
      <4> HIDE DEF e
      <4> QED
        BY <4>1, <4>2
    <3>2. CASE ~dialog.saving
      <4> DEFINE now == dialog.stale \/ IsStale(dialog.revision, heard)
                 e == [dialog EXCEPT !.stale = now]
      <4>0. now \in BOOLEAN
        BY <1>1 DEF DialogRec, IsStale
      <4>2. dialog' = e
        BY <1>3, <3>2 DEF DialogTold
      <4> HIDE DEF now
      <4>1. e \in DialogRec /\ LikeDialog(dialog, e)
        BY <1>1, <4>0 DEF DialogRec, LikeDialog
      <4> HIDE DEF e
      <4> QED
        BY <4>1, <4>2
    <3> QED
      BY <3>1, <3>2
  <2>3. DialogInv(dialog', asks, serving, answers, overlapped, asked)
    BY <1>1, <2>2, DialogAlike
  <2> QED
    BY <1>1, <2>1, <2>3 DEF DialogAll, WireTyped
<1> QED
  BY <1>2, <1>3

LEMMA DialogStarts ==
  ASSUME DialogInit
  PROVE  DialogAll
<1>1. WireTyped /\ asks = <<>> /\ answers = <<>> /\ serving = None
  BY WireStarts DEF DialogInit
<1>2. /\ dialog.kind \in {"device", "optimizer"} /\ dialog.view = "loading" /\ dialog.config = None
      /\ dialog.revision = None /\ dialog.saving = FALSE /\ dialog.loads = <<>> /\ dialog.reading = 0
  BY DEF DialogInit
<1>3. dialog \in DialogRec
  <2>1. <<>> \in Seq(Docs) /\ 0 \in Int
    OBVIOUS
  <2> QED
    BY <2>1 DEF DialogInit, DialogRec
<1>4. /\ \A sort \in Sorts, by \in Nat : NoneOut(sort, by, asks, serving, answers) /\ OneOut(sort, by, asks, serving, answers)
      /\ SavesSafe(asks)
  BY <1>1 DEF NoneOut, OneOut, AskAt, ReplyAt, SavesSafe
<1>5. DialogLinks(dialog) /\ DialogOut(dialog, asks, serving, answers)
  BY <1>2, <1>4, NoneAssumption DEF DialogLinks, DialogOut, Sorts
<1>6. DialogSafe(dialog, asks, serving, answers, overlapped, asked)
  BY <1>2, <1>4 DEF DialogSafe, Saving, Sorts
<1> QED
  BY <1>1, <1>3, <1>5, <1>6 DEF DialogAll, DialogInv

LEMMA DialogGoesOn ==
  ASSUME DialogAll, DialogNext
  PROVE  DialogAll'
<1>1. CASE Server /\ UNCHANGED <<dialog, edits>>
  <2>1. WireTyped'
    BY <1>1, ServerKeepsType DEF DialogAll
  <2>2. DialogInv(dialog, asks', serving', answers', overlapped', asked')
    BY <1>1, DialogServes DEF DialogAll
  <2> QED
    BY <1>1, <2>1, <2>2 DEF DialogAll
<1> QED
  BY <1>1, DialogAsksGet, DialogReadsKeeps, DialogShows, DialogEdits, DialogSends, DialogAnsweredKeeps, DialogQuiet
     DEF DialogNext

LEMMA DialogInvGives ==
  ASSUME DialogAll
  PROVE  DialogTypeOK /\ (overlapped = FALSE => SavesSafe(asks))
<1>1. WireTypeOK
  BY DEF DialogAll, WireTyped, WireTypeOK, Serving
<1>2. dialog \in DialogRec /\ DialogLinks(dialog)
  BY DEF DialogAll, DialogInv
<1>3. /\ dialog.kind \in {"device", "optimizer"}
      /\ dialog.view \in {"loading", "failed", "not_found", "ready"}
      /\ (dialog.view = "ready") = (dialog.config \in Docs)
      /\ dialog.revision \in Docs \union {None}
      /\ {dialog.dirty, dialog.stale, dialog.saving, dialog.closed} \subseteq BOOLEAN
  BY <1>2 DEF DialogRec, DialogLinks
<1> QED
  BY <1>1, <1>3 DEF DialogTypeOK, DialogAll, DialogInv, DialogSafe

(* What a dialog that closes closes on.                                           *)
LEMMA DialogCloseIs ==
  ASSUME DialogAll, DialogNext, dialog'.closed, ~dialog.closed
  PROVE  IF dialog.saving THEN overlapped \/ dialog.sent = SentDoc(dialog)
         ELSE dialog.dirty => dialog'.agreed
<1>1. /\ DialogInv(dialog, asks, serving, answers, overlapped, asked) /\ dialog \in DialogRec /\ overlapped \in BOOLEAN
  BY DEF DialogAll, DialogInv, WireTyped
<1>2. dialog.saving => overlapped \/ dialog.sent = SentDoc(dialog)
  BY <1>1 DEF DialogInv, DialogSafe, Saving, DialogRec
<1>3. CASE DialogCloses
  BY <1>1, <1>2, <1>3 DEF DialogCloses, DialogRec
<1>4. CASE DialogAnswered
  BY <1>2, <1>4 DEF DialogAnswered
<1>5. CASE ~DialogCloses /\ ~DialogAnswered
  <2>1. dialog'.closed = dialog.closed
    <3>1. CASE Server /\ UNCHANGED <<dialog, edits>>
      BY <3>1
    <3>2. CASE Opened \/ DialogReloads
      BY <1>1, <3>2 DEF Opened, DialogReloads, Loading, DialogRec
    <3>3. CASE DialogReads
      BY <1>1, <3>3 DEF DialogReads, DialogRec
    <3>4. CASE \E i \in DOMAIN dialog.loads : Shows(i)
      BY <1>1, <3>4 DEF Shows, DialogRec
    <3>5. CASE DialogSaves
      BY <1>1, <3>5 DEF DialogSaves, DialogRec
    <3>6. CASE DialogTold
      BY <1>1, <3>6 DEF DialogTold, DialogRec
    <3>7. CASE \E mark \in Marks : Drafted(mark)
      BY <1>1, <3>7 DEF Drafted, DialogRec
    <3>8. ASSUME \/ \E mark \in {"field", "phase"} : EditsDevice(mark)
                 \/ \E mark \in {"field", "legacy"} : EditsOptimizer(mark)
                 \/ SetsEnabled
          PROVE  \E mark \in Marks : Drafted(mark)
      BY <3>8 DEF EditsDevice, EditsOptimizer, SetsEnabled, Marks
    <3> QED
      BY <1>5, <3>1, <3>2, <3>3, <3>4, <3>5, <3>6, <3>7, <3>8 DEF DialogNext
  <2> QED
    BY <2>1
<1> QED
  BY <1>3, <1>4, <1>5

----------------------------------------------------------------------------
(* The switches of a Control view.                                                *)

AdminRec == [config : Docs \union {None}, revision : Docs \union {None}, read : Docs \union {None},
             error : BOOLEAN, saving : {"no", "reading", "sent"}, load : Nat]

(* No document that was read, saved or in conflict has more of the other clients' *)
(* saves than the stored one has.                                                 *)
AnswersUpTo(s, st, qa) ==
  /\ s # None /\ s.stage = "reloading" => s.doc.others <= st.others
  /\ \A m \in Nat : m \in 1..Len(qa) /\ qa[m].answer \in {"doc", "saved", "conflict"} => qa[m].doc.others <= st.others

AdminLinks(a, k) ==
  /\ a.saving # "no" => a.config \in Docs
  /\ a.saving = "sent" => a.read \in Docs /\ a.read.others >= a.config.others
  /\ a.load <= k
  /\ k = 0 => a.saving = "no"

AdminOut(a, qs, s, qa) ==
  /\ OneOut("save", 0, qs, s, qa) /\ OneOut("get", 0, qs, s, qa) /\ OneOut("get", a.load, qs, s, qa)
  /\ a.saving # "sent" => NoneOut("save", 0, qs, s, qa)
  /\ a.saving # "reading" => NoneOut("get", 0, qs, s, qa)
  /\ a.saving # "no" => NoneOut("get", a.load, qs, s, qa)
  /\ \A by \in Nat : by > a.load => NoneOut("get", by, qs, s, qa)

(* Whatever can still be shown has all that is shown, and no more than is stored. *)
AdminFrom(a, qs, s, st, qa) ==
  /\ SavesSafe(qs)
  /\ AnswersUpTo(s, st, qa)
  /\ a.config \in Docs => AnswersFrom(a.config.others, 0, s, st, qa) /\ AnswersFrom(a.config.others, a.load, s, st, qa)
  /\ a.saving = "sent" => a.read.others <= st.others

AdminInv(a, qs, s, st, qa, k) ==
  /\ a \in AdminRec
  /\ AdminLinks(a, k) /\ AdminOut(a, qs, s, qa) /\ AdminFrom(a, qs, s, st, qa)
AdminAll == WireTyped /\ AdminInv(admin, asks, serving, store, answers, asked)

LEMMA ServerAnswersUpTo ==
  ASSUME WireTyped, Server, SavesSafe(asks), AnswersUpTo(serving, store, answers)
  PROVE  AnswersUpTo(serving', store', answers')
<1>1. /\ store \in Docs /\ asks \in Seq(AskRec) /\ answers \in Seq(ReplyRec)
      /\ serving \in Serving \union {None} /\ store.others \in Nat
  BY ConfigBounds DEF WireTyped, Docs
<1>2. store'.others >= store.others /\ store'.others \in Nat
  <2>1. store' \in Docs
    <3>1. asks # <<>> => Head(asks) \in AskRec
      BY <1>1, QueueTail
    <3>2. CASE SaveTaken
      BY <3>1, <3>2, AskFields DEF SaveTaken
    <3>3. CASE AnotherSaves
      <4>1. store.others + 1 \in 0..MaxOthers
        BY <1>1, <3>3, ConfigBounds DEF AnotherSaves, Docs
      <4>2. [store EXCEPT !.others = store.others + 1] \in Docs
        BY <1>1, <4>1 DEF Docs
      <4> QED
        BY <3>3, <4>2 DEF AnotherSaves
    <3> QED
      BY <1>1, <3>2, <3>3, ServerSteps
         DEF ServerStep, GetServed, CheckServed, SaveRefused, SaveWritten, SaveAnnounced, AnothersReloaded, Hears
  <2> QED
    BY <2>1, ServerSavesSafe, ConfigBounds DEF Docs
<1>3. /\ \A i \in 1..Len(answers) : answers[i] \in ReplyRec
      /\ \A doc \in Docs : doc.others \in Nat
  BY <1>1, ConfigBounds DEF Docs
<1>4. \A i \in Nat : i \in 1..Len(answers) /\ answers[i].answer \in {"doc", "saved", "conflict"}
                       => answers[i].doc.others <= store'.others
  <2>1. \A i \in 1..Len(answers) : answers[i].answer \in {"doc", "saved", "conflict"} => answers[i].doc.others \in Nat
    BY <1>3, ReplyFields
  <2> QED
    BY <1>1, <1>2, <2>1 DEF AnswersUpTo
<1>5. ASSUME NEW m \in ReplyRec, answers' = Append(answers, m),
             m.answer \in {"doc", "saved", "conflict"} => m.doc.others <= store'.others
      PROVE  \A i \in Nat : i \in 1..Len(answers') /\ answers'[i].answer \in {"doc", "saved", "conflict"}
                              => answers'[i].doc.others <= store'.others
  <2>1. \A i \in 1..Len(answers') : (i \in 1..Len(answers) /\ answers'[i] = answers[i]) \/ answers'[i] = m
    BY <1>1, <1>5, QueueAppend
  <2> QED
    BY <1>4, <1>5, <2>1
<1>6. serving # None /\ serving.stage = "reloading" => serving.doc.others <= store'.others /\ serving.doc \in Docs
  <2>1. serving # None /\ serving.stage = "reloading" => serving.doc \in Docs
    BY <1>1 DEF Serving
  <2> QED
    BY <1>1, <1>2, <1>3, <2>1 DEF AnswersUpTo
<1>7. CASE GetServed \/ CheckServed \/ SaveRefused
  <2>1. PICK m \in ReplyRec : /\ answers' = Append(answers, m) /\ m.answer # "saved"
                              /\ m.answer \in {"conflict", "doc"} => m.doc = store
    BY <1>7 DEF GetServed, CheckServed, SaveRefused, Refusal
  <2>2. serving' = serving
    BY <1>7 DEF GetServed, CheckServed, SaveRefused
  <2>3. m.answer \in {"doc", "saved", "conflict"} => m.doc.others <= store'.others
    BY <1>1, <1>2, <2>1
  <2> QED
    BY <1>5, <1>6, <2>1, <2>2, <2>3 DEF AnswersUpTo
<1>8. CASE SaveTaken
  <2>1. answers' = answers /\ serving'.stage = "writing"
    BY <1>8 DEF SaveTaken
  <2> QED
    BY <1>4, <2>1 DEF AnswersUpTo
<1>9. CASE SaveWritten
  <2>1. serving'.doc = store /\ answers' = answers /\ store' = store
    BY <1>9 DEF SaveWritten
  <2> QED
    BY <1>1, <1>4, <2>1 DEF AnswersUpTo
<1>10. CASE SaveAnnounced
  <2>1. PICK r \in ReplyRec :
           /\ r.answer = "saved" /\ r.doc = serving.doc
           /\ \/ answers' = Append(answers, r)
              \/ answers' = Append(Append(answers, [answer |-> "event", doc |-> store]), r)
    BY <1>10 DEF SaveAnnounced
  <2> DEFINE e == [answer |-> "event", doc |-> store]
             qa == Append(answers, e)
  <2>2. e \in ReplyRec /\ e.answer = "event"
    BY <1>1, Replies
  <2>3. r.doc.others <= store'.others /\ serving' = None
    BY <1>6, <1>10, <2>1 DEF SaveAnnounced
  <2> HIDE DEF e
  <2>4. qa \in Seq(ReplyRec) /\ \A i \in 1..Len(qa) : (i \in 1..Len(answers) /\ qa[i] = answers[i]) \/ qa[i] = e
    BY <1>1, <2>2, QueueAppend
  <2> HIDE DEF qa
  <2>5. CASE answers' = Append(answers, r)
    BY <1>5, <2>3, <2>5 DEF AnswersUpTo
  <2>6. CASE answers' = Append(qa, r)
    <3>1. \A i \in 1..Len(answers') : (i \in 1..Len(qa) /\ answers'[i] = qa[i]) \/ answers'[i] = r
      BY <2>1, <2>4, <2>6, QueueAppend
    <3>2. \A i \in 1..Len(answers') : (i \in 1..Len(answers) /\ answers'[i] = answers[i]) \/ answers'[i] = e \/ answers'[i] = r
      BY <2>4, <3>1
    <3>3. \A i \in Nat : i \in 1..Len(answers') /\ answers'[i].answer \in {"doc", "saved", "conflict"}
                              => answers'[i].doc.others <= store'.others
      BY <1>4, <2>2, <2>3, <3>2
    <3> QED
      BY <2>3, <3>3 DEF AnswersUpTo
  <2> QED
    BY <2>1, <2>5, <2>6 DEF qa, e
<1>11. CASE AnotherSaves
  <2>1. answers' = answers /\ serving' = serving
    BY <1>11 DEF AnotherSaves
  <2> QED
    BY <1>4, <1>6, <2>1 DEF AnswersUpTo
<1>12. CASE AnothersReloaded
  <2>1. [answer |-> "event", doc |-> store] \in ReplyRec
    BY <1>1, Replies
  <2>2. answers' = Append(answers, [answer |-> "event", doc |-> store]) /\ serving' = serving
    BY <1>12 DEF AnothersReloaded, Answer
  <2> QED
    BY <1>5, <1>6, <2>1, <2>2 DEF AnswersUpTo
<1>13. CASE Hears
  <2>1. answers # <<>> /\ answers' = Tail(answers) /\ serving' = serving
    BY <1>13 DEF Hears, Taken
  <2>2. \A i \in 1..Len(Tail(answers)) : i + 1 \in 1..Len(answers) /\ i + 1 \in Nat /\ Tail(answers)[i] = answers[i + 1]
    BY <1>1, <2>1, QueueTail
  <2> QED
    BY <1>4, <1>6, <2>1, <2>2 DEF AnswersUpTo
<1> QED
  BY <1>7, <1>8, <1>9, <1>10, <1>11, <1>12, <1>13, ServerSteps DEF ServerStep

LEMMA AdminServes ==
  ASSUME WireTyped, Server, edits' = edits, NEW a, AdminInv(a, asks, serving, store, answers, asked)
  PROVE  AdminInv(a, asks', serving', store', answers', asked')
<1>1. \A sort \in Sorts : \A by :
         /\ NoneOut(sort, by, asks, serving, answers) => NoneOut(sort, by, asks', serving', answers')
         /\ OneOut(sort, by, asks, serving, answers) => OneOut(sort, by, asks', serving', answers')
  BY ServerKeepsOut
<1>2. /\ "save" \in Sorts /\ "check" \in Sorts /\ "get" \in Sorts
  BY DEF Sorts
<1>3. AdminOut(a, asks', serving', answers')
  BY <1>1, <1>2 DEF AdminInv, AdminOut
<1>4. SavesSafe(asks') /\ store'.others >= store.others
  BY ServerSavesSafe DEF AdminInv, AdminFrom
<1>5. AnswersUpTo(serving', store', answers')
  BY ServerAnswersUpTo DEF AdminInv, AdminFrom
<1>6. \A doc \in Docs : doc.others \in Nat
  BY ConfigBounds DEF Docs
<1>7. ASSUME a.config \in Docs
      PROVE  /\ AnswersFrom(a.config.others, 0, serving', store', answers')
             /\ AnswersFrom(a.config.others, a.load, serving', store', answers')
  <2>1. a.config.others \in Nat
    BY <1>6, <1>7
  <2> QED
    BY <1>7, <2>1, ServerAnswersFrom DEF AdminInv, AdminFrom
<1>8. a.saving = "sent" => a.read.others <= store'.others
  <2>1. a.saving = "sent" => a.read.others \in Nat /\ a.read.others <= store.others
    BY <1>6 DEF AdminInv, AdminLinks, AdminFrom
  <2>2. store'.others \in Nat /\ store.others \in Nat
    BY <1>6, ServerKeepsType DEF WireTyped
  <2> QED
    BY <1>4, <2>1, <2>2
<1>9. asked' = asked
  BY DEF Server, AnswersGet, AnswersCheck, TakesSave, SaveWritten, SaveReloaded, AnotherSaves, AnothersReloaded, Hears
<1> QED
  BY <1>3, <1>4, <1>5, <1>7, <1>8, <1>9 DEF AdminInv, AdminFrom

LEMMA AdminTaken ==
  ASSUME NEW qs \in Seq(AskRec), NEW s, NEW st, NEW qa \in Seq(ReplyRec), NEW a, NEW k,
         qa # <<>>, AdminInv(a, qs, s, st, qa, k)
  PROVE  /\ AdminInv(a, qs, s, st, Tail(qa), k)
         /\ IsReply(Head(qa), "save", 0) => NoneOut("save", 0, qs, s, Tail(qa)) /\ a.saving = "sent"
         /\ IsReply(Head(qa), "get", 0) => NoneOut("get", 0, qs, s, Tail(qa)) /\ a.saving = "reading"
         /\ IsReply(Head(qa), "get", a.load) => NoneOut("get", a.load, qs, s, Tail(qa)) /\ a.saving = "no"
         /\ Head(qa) \in ReplyRec /\ Tail(qa) \in Seq(ReplyRec)
         /\ Head(qa).answer \in {"doc", "saved", "conflict"} => Head(qa).doc.others <= st.others
         /\ a.config \in Docs /\ Head(qa).answer \in {"saved", "conflict"} => Head(qa).doc.others >= a.config.others
         /\ a.config \in Docs /\ Head(qa).answer = "doc" /\ Head(qa).by \in {0, a.load}
              => Head(qa).doc.others >= a.config.others
<1>1. \A sort \in Sorts : \A by :
         /\ NoneOut(sort, by, qs, s, qa) => NoneOut(sort, by, qs, s, Tail(qa))
         /\ OneOut(sort, by, qs, s, qa) => OneOut(sort, by, qs, s, Tail(qa))
         /\ OneOut(sort, by, qs, s, qa) /\ IsReply(Head(qa), sort, by) => NoneOut(sort, by, qs, s, Tail(qa))
  BY OutTaken
<1>2. /\ "save" \in Sorts /\ "check" \in Sorts /\ "get" \in Sorts
  BY DEF Sorts
<1>3. /\ Head(qa) \in ReplyRec /\ Tail(qa) \in Seq(ReplyRec) /\ Head(qa) = qa[1] /\ 1 \in 1..Len(qa)
      /\ \A sort \in Sorts, by \in Nat : IsReply(Head(qa), sort, by) => ReplyAt(qa, 1, sort, by)
  BY ReplyTail, QueueTail
<1>4. a.load \in Nat /\ 0 \in Nat
  BY DEF AdminInv, AdminRec
<1>5. AdminOut(a, qs, s, Tail(qa))
  BY <1>1, <1>2 DEF AdminInv, AdminOut
<1>6. \A i \in Nat : i \in 1..Len(Tail(qa)) => i + 1 \in Nat /\ i + 1 \in 1..Len(qa) /\ Tail(qa)[i] = qa[i + 1]
  BY QueueTail
<1>7. AnswersUpTo(s, st, Tail(qa))
  BY <1>6 DEF AdminInv, AdminFrom, AnswersUpTo
<1>8. \A n, by : AnswersFrom(n, by, s, st, qa) => AnswersFrom(n, by, s, st, Tail(qa))
  BY <1>6 DEF AnswersFrom, ReplyAt
<1>9. AdminInv(a, qs, s, st, Tail(qa), k)
  BY <1>5, <1>7, <1>8 DEF AdminInv, AdminFrom
<1>10. /\ IsReply(Head(qa), "save", 0) => NoneOut("save", 0, qs, s, Tail(qa))
       /\ IsReply(Head(qa), "get", 0) => NoneOut("get", 0, qs, s, Tail(qa))
       /\ IsReply(Head(qa), "get", a.load) => NoneOut("get", a.load, qs, s, Tail(qa))
  BY <1>1, <1>2 DEF AdminInv, AdminOut
<1>11. \A sort \in Sorts, by \in Nat : IsReply(Head(qa), sort, by) => ~NoneOut(sort, by, qs, s, qa)
  BY <1>3 DEF NoneOut
<1>12. /\ IsReply(Head(qa), "save", 0) => a.saving = "sent"
       /\ IsReply(Head(qa), "get", 0) => a.saving = "reading"
       /\ IsReply(Head(qa), "get", a.load) => a.saving = "no"
  BY <1>2, <1>4, <1>11 DEF AdminInv, AdminOut
<1>13. Head(qa).answer \in {"doc", "saved", "conflict"} => Head(qa).doc.others <= st.others
  BY <1>3 DEF AdminInv, AdminFrom, AnswersUpTo
<1>14. a.config \in Docs /\ Head(qa).answer \in {"saved", "conflict"} => Head(qa).doc.others >= a.config.others
  <2>1. Head(qa).answer \in {"saved", "conflict"} => ReplyAt(qa, 1, "save", 0)
    BY <1>3 DEF ReplyAt, IsReply, ReplySort
  <2> QED
    BY <1>3, <2>1 DEF AdminInv, AdminFrom, AnswersFrom
<1>15. a.config \in Docs /\ Head(qa).answer = "doc" /\ Head(qa).by \in {0, a.load}
              => Head(qa).doc.others >= a.config.others
  <2>1. Head(qa).answer = "doc" => ReplyAt(qa, 1, "get", Head(qa).by)
    BY <1>3 DEF ReplyAt, IsReply, ReplySort
  <2> QED
    BY <1>3, <2>1 DEF AdminInv, AdminFrom, AnswersFrom
<1> QED
  BY <1>3, <1>9, <1>10, <1>12, <1>13, <1>14, <1>15

(* A read is asked for, by a load of its own or for a press.                      *)
LEMMA AdminAsks ==
  ASSUME NEW qs \in Seq(AskRec), NEW s, NEW st, NEW qa \in Seq(ReplyRec), NEW k \in Nat,
         NEW a, NEW e \in AdminRec, AdminInv(a, qs, s, st, qa, k), a.saving = "no",
         e.config = a.config, e.revision = a.revision, e.read = a.read, e.load = a.load + 1,
         NEW by \in Nat, \/ by = e.load /\ e.saving = "no"
                         \/ by = 0 /\ e.saving = "reading" /\ a.config \in Docs
  PROVE  Append(qs, Get(by)) \in Seq(AskRec) /\ AdminInv(e, Append(qs, Get(by)), s, st, qa, k + 1)
<1> DEFINE m == Get(by)
<1>1. /\ m \in AskRec /\ ~IsAsk(m, "save", 0) /\ m.ask = "get"
      /\ \A g \in Nat : g # by => ~IsAsk(m, "get", g)
  BY DEF Get, AskRec, IsAsk
<1> HIDE DEF m
<1>2. \A sort \in Sorts : \A g :
         /\ ~IsAsk(m, sort, g) /\ NoneOut(sort, g, qs, s, qa) => NoneOut(sort, g, Append(qs, m), s, qa)
         /\ ~IsAsk(m, sort, g) /\ OneOut(sort, g, qs, s, qa) => OneOut(sort, g, Append(qs, m), s, qa)
         /\ NoneOut(sort, g, qs, s, qa) => OneOut(sort, g, Append(qs, m), s, qa)
  BY <1>1, OutAsked
<1>3. /\ "save" \in Sorts /\ "get" \in Sorts
  BY DEF Sorts
<1>4. a.load \in Nat /\ e.load \in Nat /\ e.load > a.load /\ e.load # 0 /\ a.load <= k
      /\ \A g \in Nat : g > e.load => g > a.load /\ g # by
  BY DEF AdminInv, AdminRec, AdminLinks
<1>5. /\ NoneOut("save", 0, qs, s, qa) /\ NoneOut("get", 0, qs, s, qa)
      /\ \A g \in Nat : g > a.load => NoneOut("get", g, qs, s, qa)
  BY DEF AdminInv, AdminOut
<1>6. AdminLinks(e, k + 1)
  <2>1. k + 1 # 0 /\ e.load <= k + 1
    BY <1>4
  <2> QED
    BY <2>1 DEF AdminInv, AdminLinks
<1>7. AdminOut(e, Append(qs, m), s, qa)
  <2>1. NoneOut("save", 0, Append(qs, m), s, qa) /\ OneOut("save", 0, Append(qs, m), s, qa)
    BY <1>1, <1>2, <1>3, <1>5
  <2>2. OneOut("get", 0, Append(qs, m), s, qa) /\ OneOut("get", e.load, Append(qs, m), s, qa)
    BY <1>2, <1>3, <1>4, <1>5
  <2>3. \A g \in Nat : g > e.load => NoneOut("get", g, Append(qs, m), s, qa)
    BY <1>1, <1>2, <1>3, <1>4, <1>5
  <2>4. CASE by = e.load /\ e.saving = "no"
    <3>1. NoneOut("get", 0, Append(qs, m), s, qa)
      BY <1>1, <1>2, <1>3, <1>4, <1>5, <2>4
    <3> QED
      BY <2>1, <2>2, <2>3, <2>4, <3>1 DEF AdminOut
  <2>5. CASE by = 0 /\ e.saving = "reading"
    <3>1. NoneOut("get", e.load, Append(qs, m), s, qa)
      BY <1>1, <1>2, <1>3, <1>4, <1>5, <2>5
    <3> QED
      BY <2>1, <2>2, <2>3, <2>5, <3>1 DEF AdminOut
  <2> QED
    BY <2>4, <2>5
<1>8. AdminFrom(e, Append(qs, m), s, st, qa)
  <2>1. SavesSafe(Append(qs, m))
    BY <1>1, SafeAsked DEF AdminInv, AdminFrom
  <2>2. \A n : AnswersFrom(n, 0, s, st, qa) => AnswersFrom(n, e.load, s, st, qa)
    BY <1>4, <1>5 DEF AnswersFrom, NoneOut
  <2> QED
    BY <2>1, <2>2 DEF AdminInv, AdminFrom
<1>9. Append(qs, m) \in Seq(AskRec)
  BY <1>1, QueueAppend
<1> QED
  BY <1>6, <1>7, <1>8, <1>9 DEF AdminInv, m

(* The fields of the switches their invariant speaks of.                          *)
LEMMA AdminAlike ==
  ASSUME NEW qs, NEW s, NEW st, NEW qa, NEW k, NEW a, NEW e \in AdminRec, AdminInv(a, qs, s, st, qa, k),
         e.config = a.config, e.read = a.read, e.load = a.load,
         e.saving = a.saving \/ (e.saving = "no" /\ NoneOut("save", 0, qs, s, qa) /\ NoneOut("get", 0, qs, s, qa))
  PROVE  AdminInv(e, qs, s, st, qa, k)
BY DEF AdminInv, AdminLinks, AdminOut, AdminFrom

(* The switches show another document, one that nothing still out is older than.  *)
LEMMA AdminShows ==
  ASSUME NEW qs, NEW s, NEW st, NEW qa, NEW k, NEW a, NEW e \in AdminRec, AdminInv(a, qs, s, st, qa, k),
         NEW doc \in Docs, doc.others <= st.others, e.config = doc, e.load = a.load, e.saving = "no",
         NoneOut("save", 0, qs, s, qa), NoneOut("get", 0, qs, s, qa), NoneOut("get", a.load, qs, s, qa),
         st \in Docs
  PROVE  AdminInv(e, qs, s, st, qa, k)
<1>1. AdminLinks(e, k) /\ AdminOut(e, qs, s, qa)
  BY DEF AdminInv, AdminLinks, AdminOut
<1>2. st.others >= doc.others
  BY ConfigBounds DEF Docs
<1>3. \A by \in {0, a.load} : AnswersFrom(doc.others, by, s, st, qa)
  BY <1>2 DEF AnswersFrom, NoneOut
<1> QED
  BY <1>1, <1>3 DEF AdminInv, AdminFrom

LEMMA AdminReads ==
  ASSUME AdminAll, Starts \/ AdminTold \/ Presses
  PROVE  AdminAll' /\ admin'.config = admin.config
<1>1. /\ WireTyped /\ AdminInv(admin, asks, serving, store, answers, asked) /\ admin \in AdminRec
      /\ asks \in Seq(AskRec) /\ answers \in Seq(ReplyRec) /\ asked \in 0..MaxAsked /\ asked \in Nat
      /\ admin.load \in Nat
  BY ConfigBounds DEF AdminAll, AdminInv, WireTyped, AdminRec
<1>2. /\ UNCHANGED <<store, serving, reloading, overlapped, answers, edits>> /\ heard' \in Docs \union {None}
  BY <1>1 DEF Starts, AdminTold, Presses, Flushed, WireTyped
<1> DEFINE n == admin.load + 1
<1>3. ASSUME NEW saving \in {"no", "reading"}, NEW by \in Nat, admin' = [admin EXCEPT !.load = n, !.saving = saving],
             Ask(Get(by)), admin.saving = "no",
             \/ by = n /\ saving = "no"
             \/ by = 0 /\ saving = "reading" /\ admin.config \in Docs
      PROVE  AdminAll' /\ admin'.config = admin.config
  <2> DEFINE e == [admin EXCEPT !.load = n, !.saving = saving]
  <2>1. asked' \in 0..MaxAsked /\ asked' = asked + 1 /\ asks' = Append(asks, Get(by))
    BY <1>1, <1>3, ConfigBounds DEF Ask
  <2>2. n \in Nat
    BY <1>1
  <2>3. e \in AdminRec
    BY <1>1, <2>2 DEF AdminRec
  <2>4. /\ e.config = admin.config /\ e.revision = admin.revision /\ e.read = admin.read /\ e.load = admin.load + 1
        /\ e.saving = saving
    BY <1>1 DEF AdminRec
  <2>5. admin' = e
    BY <1>3
  <2> HIDE DEF e
  <2>6. Append(asks, Get(by)) \in Seq(AskRec) /\ AdminInv(e, Append(asks, Get(by)), serving, store, answers, asked + 1)
    BY <1>1, <1>3, <2>3, <2>4, AdminAsks
  <2>7. AdminInv(admin', asks', serving, store, answers, asked')
    BY <2>1, <2>5, <2>6
  <2> QED
    BY <1>1, <1>2, <2>1, <2>4, <2>5, <2>6, <2>7 DEF AdminAll, WireTyped
<1>4. ASSUME Reads(admin), admin.saving = "no"
      PROVE  AdminAll' /\ admin'.config = admin.config
  <2>1. admin' = [admin EXCEPT !.load = n, !.saving = "no"]
    BY <1>1, <1>4 DEF Reads, AdminRec
  <2>2. n \in Nat /\ Ask(Get(n))
    BY <1>1, <1>4 DEF Reads
  <2> HIDE DEF n
  <2> QED
    BY <1>3, <1>4, <2>1, <2>2
<1>5. CASE Starts
  BY <1>1, <1>4, <1>5 DEF Starts, AdminInv, AdminLinks
<1>6. CASE Presses
  <2>1. admin.config \in Docs /\ Ask(Get(0)) /\ admin.saving = "no"
    BY <1>1, <1>6 DEF Presses, AdminRec, Press
  <2>2. admin' = [admin EXCEPT !.load = n, !.saving = "reading"]
    BY <1>6 DEF Presses, AdminRec
  <2> QED
    BY <1>3, <2>1, <2>2
<1>7. CASE AdminTold /\ UNCHANGED admin /\ SilentWire
  BY <1>1, <1>2, <1>7 DEF SilentWire, AdminAll, WireTyped
<1> QED
  BY <1>4, <1>5, <1>6, <1>7 DEF AdminTold

(* What is shown after a step has all that was shown before it.                   *)
NoneLost == admin.config \in Docs => admin'.config \in Docs /\ admin'.config.others >= admin.config.others

LEMMA AdminAnswered ==
  ASSUME AdminAll, Answered
  PROVE  AdminAll' /\ NoneLost
<1>1. /\ WireTyped /\ AdminInv(admin, asks, serving, store, answers, asked) /\ admin \in AdminRec
      /\ asks \in Seq(AskRec) /\ answers \in Seq(ReplyRec) /\ store \in Docs /\ admin.load \in Nat
  BY DEF AdminAll, AdminInv, WireTyped, AdminRec
<1>2. /\ answers # <<>> /\ Head(answers).answer \in {"doc", "noDoc"} /\ answers' = Tail(answers)
      /\ Head(answers).by # Press
      /\ UNCHANGED <<store, serving, reloading, overlapped, asks, heard, asked, edits>>
  BY DEF Answered, Arrives, Taken
<1> DEFINE r == Head(answers)
           qa == Tail(answers)
           mine == r.by = admin.load
<1>3. /\ r \in ReplyRec /\ qa \in Seq(ReplyRec) /\ AdminInv(admin, asks, serving, store, qa, asked)
      /\ r.answer = "doc" => r.doc.others <= store.others /\ r.doc \in Docs
      /\ admin.config \in Docs /\ r.answer = "doc" /\ mine => r.doc.others >= admin.config.others
  BY <1>1, <1>2, AdminTaken, ReplyFields
<1>4. mine => NoneOut("get", admin.load, asks, serving, qa) /\ admin.saving = "no"
  <2>1. mine => IsReply(r, "get", admin.load)
    BY <1>2 DEF IsReply, ReplySort
  <2> QED
    BY <1>1, <1>2, <2>1, AdminTaken
<1>5. SUFFICES AdminInv(admin', asks, serving, store, qa, asked) /\ NoneLost
  BY <1>1, <1>2, <1>3 DEF AdminAll, WireTyped
<1>6. admin.config \in Docs => admin.config.others >= admin.config.others
  BY ConfigBounds DEF Docs
<1>7. CASE r.answer = "doc" /\ mine
  <2> DEFINE doc == r.doc
             error == admin.error /\ ~mine
             e == [admin EXCEPT !.revision = doc, !.config = doc, !.error = error]
  <2>1. admin' = e
    BY <1>2, <1>7 DEF Answered, Arrives
  <2>2. doc \in Docs /\ error \in BOOLEAN
    BY <1>1, <1>3, <1>7 DEF AdminRec
  <2>3. NoneOut("save", 0, asks, serving, qa) /\ NoneOut("get", 0, asks, serving, qa)
    BY <1>3, <1>4, <1>7 DEF AdminInv, AdminOut
  <2>4. doc.others <= store.others /\ (admin.config \in Docs => doc.others >= admin.config.others)
    BY <1>3, <1>7
  <2> HIDE DEF doc, error
  <2>5. e \in AdminRec
    BY <1>1, <2>2 DEF AdminRec
  <2>6. e.config = doc /\ e.load = admin.load /\ e.saving = admin.saving
    BY <1>1 DEF AdminRec
  <2> HIDE DEF e
  <2>7. AdminInv(e, asks, serving, store, qa, asked)
    BY <1>1, <1>3, <1>4, <1>7, <2>2, <2>3, <2>4, <2>5, <2>6, AdminShows
  <2> QED
    BY <2>1, <2>2, <2>4, <2>6, <2>7 DEF NoneLost
<1>8. CASE r.answer = "doc" /\ ~mine
  <2> DEFINE doc == r.doc
             e == [admin EXCEPT !.revision = doc]
  <2>1. admin' = e
    BY <1>1, <1>2, <1>8 DEF Answered, Arrives, AdminRec
  <2>2. doc \in Docs
    BY <1>3, <1>8
  <2> HIDE DEF doc
  <2>3. e \in AdminRec /\ e.config = admin.config /\ e.load = admin.load /\ e.saving = admin.saving /\ e.read = admin.read
    BY <1>1, <2>2 DEF AdminRec
  <2> HIDE DEF e
  <2>4. AdminInv(e, asks, serving, store, qa, asked)
    BY <1>3, <2>3, AdminAlike
  <2> QED
    BY <1>6, <2>1, <2>3, <2>4 DEF NoneLost
<1>9. CASE r.answer = "noDoc"
  <2> DEFINE error == admin.error \/ mine
             e == [admin EXCEPT !.error = error]
  <2>1. admin' = e
    BY <1>2, <1>9 DEF Answered, Arrives
  <2>2. error \in BOOLEAN
    BY <1>1 DEF AdminRec
  <2> HIDE DEF error
  <2>3. e \in AdminRec /\ e.config = admin.config /\ e.load = admin.load /\ e.saving = admin.saving /\ e.read = admin.read
    BY <1>1, <2>2 DEF AdminRec
  <2> HIDE DEF e
  <2>4. AdminInv(e, asks, serving, store, qa, asked)
    BY <1>3, <2>3, AdminAlike
  <2> QED
    BY <1>6, <2>1, <2>3, <2>4 DEF NoneLost
<1> QED
  BY <1>2, <1>7, <1>8, <1>9

LEMMA AdminPressAnswered ==
  ASSUME AdminAll, PressAnswered
  PROVE  AdminAll' /\ NoneLost
<1>1. /\ WireTyped /\ AdminInv(admin, asks, serving, store, answers, asked) /\ admin \in AdminRec
      /\ asks \in Seq(AskRec) /\ answers \in Seq(ReplyRec) /\ store \in Docs
  BY DEF AdminAll, AdminInv, WireTyped
<1>2. /\ answers # <<>> /\ Head(answers).answer \in {"saved", "conflict", "invalid", "refused"}
      /\ answers' = Tail(answers) /\ admin.saving = "sent"
      /\ UNCHANGED <<store, serving, reloading, overlapped, asks, heard, asked, edits>>
  BY DEF PressAnswered, Arrives, Taken
<1> DEFINE r == Head(answers)
           qa == Tail(answers)
<1>3. IsReply(r, "save", 0)
  BY <1>2 DEF IsReply, ReplySort
<1>4. /\ r \in ReplyRec /\ qa \in Seq(ReplyRec) /\ AdminInv(admin, asks, serving, store, qa, asked)
      /\ NoneOut("save", 0, asks, serving, qa)
      /\ r.answer \in {"saved", "conflict"} => /\ r.doc.others <= store.others /\ r.doc \in Docs
                                               /\ admin.config \in Docs => r.doc.others >= admin.config.others
  BY <1>1, <1>2, <1>3, AdminTaken, ReplyFields
<1>5. /\ NoneOut("get", 0, asks, serving, qa) /\ NoneOut("get", admin.load, asks, serving, qa)
      /\ admin.read \in Docs /\ admin.config \in Docs /\ admin.read.others >= admin.config.others
      /\ admin.read.others <= store.others
  BY <1>2, <1>4 DEF AdminInv, AdminOut, AdminLinks, AdminFrom
<1>6. SUFFICES AdminInv(admin', asks, serving, store, qa, asked) /\ NoneLost
  BY <1>1, <1>2, <1>4 DEF AdminAll, WireTyped
<1>7. ASSUME NEW doc \in Docs, NEW revision \in Docs \union {None}, doc.others <= store.others,
             doc.others >= admin.config.others,
             admin' = [admin EXCEPT !.saving = "no", !.read = None, !.config = doc, !.revision = revision]
      PROVE  AdminInv(admin', asks, serving, store, qa, asked) /\ NoneLost
  <2> DEFINE e == [admin EXCEPT !.saving = "no", !.read = None, !.config = doc, !.revision = revision]
  <2>1. e \in AdminRec /\ e.config = doc /\ e.load = admin.load /\ e.saving = "no"
    BY <1>1 DEF AdminRec
  <2> HIDE DEF e
  <2>2. AdminInv(e, asks, serving, store, qa, asked)
    BY <1>1, <1>4, <1>5, <1>7, <2>1, AdminShows
  <2> QED
    BY <1>7, <2>1, <2>2 DEF NoneLost, e
<1>8. admin.revision \in Docs \union {None}
  BY <1>1 DEF AdminRec
<1>9. CASE r.answer = "saved"
  <2>1. admin' = [admin EXCEPT !.saving = "no", !.read = None, !.config = r.doc, !.revision = r.doc]
    BY <1>1, <1>9 DEF PressAnswered, Arrives, AdminRec
  <2> QED
    BY <1>4, <1>5, <1>7, <1>9, <2>1
<1>10. CASE r.answer = "conflict"
  <2>1. admin' = [admin EXCEPT !.saving = "no", !.read = None, !.config = r.doc, !.revision = admin.revision]
    BY <1>1, <1>10 DEF PressAnswered, Arrives, AdminRec
  <2> QED
    BY <1>4, <1>5, <1>7, <1>8, <1>10, <2>1
<1>11. CASE r.answer \in {"invalid", "refused"}
  <2>1. admin' = [admin EXCEPT !.saving = "no", !.read = None, !.config = admin.read, !.revision = admin.revision]
    BY <1>1, <1>11 DEF PressAnswered, Arrives, AdminRec
  <2> QED
    BY <1>5, <1>7, <1>8, <2>1
<1> QED
  BY <1>2, <1>9, <1>10, <1>11

(* The press's save goes out, with the revision just read.                        *)
LEMMA AdminSends ==
  ASSUME NEW qs \in Seq(AskRec), NEW s, NEW st, NEW qa \in Seq(ReplyRec), NEW k \in Nat,
         NEW a, NEW e \in AdminRec, AdminInv(a, qs, s, st, qa, k), a.saving = "reading",
         NoneOut("get", 0, qs, s, qa), NEW doc \in Docs, NEW new \in Docs, new.others = doc.others,
         doc.others <= st.others, doc.others >= a.config.others,
         NEW m, m = [ask |-> "save", doc |-> new, expected |-> doc],
         e.config = a.config, e.load = a.load, e.read = doc, e.saving = "sent"
  PROVE  Append(qs, m) \in Seq(AskRec) /\ AdminInv(e, Append(qs, m), s, st, qa, k + 1)
<1>1. /\ m \in AskRec /\ m.ask = "save" /\ m.doc = new /\ m.expected = doc
      /\ \A g : ~IsAsk(m, "get", g)
  BY DEF AskRec, IsAsk
<1>2. \A sort \in Sorts : \A g :
         /\ ~IsAsk(m, sort, g) /\ NoneOut(sort, g, qs, s, qa) => NoneOut(sort, g, Append(qs, m), s, qa)
         /\ ~IsAsk(m, sort, g) /\ OneOut(sort, g, qs, s, qa) => OneOut(sort, g, Append(qs, m), s, qa)
         /\ NoneOut(sort, g, qs, s, qa) => OneOut(sort, g, Append(qs, m), s, qa)
  BY <1>1, OutAsked
<1>3. /\ "save" \in Sorts /\ "get" \in Sorts
  BY DEF Sorts
<1>4. a.load \in Nat /\ a.load <= k + 1 /\ k + 1 # 0
  BY DEF AdminInv, AdminRec, AdminLinks
<1>5. AdminLinks(e, k + 1)
  BY <1>4 DEF AdminInv, AdminLinks
<1>6. AdminOut(e, Append(qs, m), s, qa)
  BY <1>1, <1>2, <1>3 DEF AdminInv, AdminOut
<1>7. AdminFrom(e, Append(qs, m), s, st, qa)
  <2>1. m.doc.others >= m.expected.others
    BY <1>1, ConfigBounds DEF Docs
  <2>2. SavesSafe(Append(qs, m))
    BY <1>1, <2>1, SafeAsked DEF AdminInv, AdminFrom
  <2> QED
    BY <2>2 DEF AdminInv, AdminFrom
<1> QED
  BY <1>1, <1>5, <1>6, <1>7, QueueAppend DEF AdminInv

LEMMA AdminPressReads ==
  ASSUME AdminAll, PressReads
  PROVE  AdminAll' /\ NoneLost
<1>1. /\ WireTyped /\ AdminInv(admin, asks, serving, store, answers, asked) /\ admin \in AdminRec
      /\ asks \in Seq(AskRec) /\ answers \in Seq(ReplyRec) /\ store \in Docs
      /\ asked \in 0..MaxAsked /\ asked \in Nat
  BY ConfigBounds DEF AdminAll, AdminInv, WireTyped
<1>2. /\ answers # <<>> /\ Head(answers).answer \in {"doc", "noDoc"} /\ answers' = Tail(answers)
      /\ Head(answers).by = 0
      /\ UNCHANGED <<store, serving, reloading, overlapped, heard, edits>>
  BY DEF PressReads, Arrives, Taken, Press
<1> DEFINE r == Head(answers)
           qa == Tail(answers)
           doc == r.doc
<1>3. IsReply(r, "get", 0)
  BY <1>2 DEF IsReply, ReplySort
<1>4. /\ r \in ReplyRec /\ qa \in Seq(ReplyRec) /\ AdminInv(admin, asks, serving, store, qa, asked)
      /\ NoneOut("get", 0, asks, serving, qa) /\ admin.saving = "reading"
      /\ r.answer = "doc" => /\ doc.others <= store.others /\ doc \in Docs
                             /\ admin.config \in Docs => doc.others >= admin.config.others
  BY <1>1, <1>2, <1>3, AdminTaken, ReplyFields
<1>5. /\ NoneOut("save", 0, asks, serving, qa) /\ NoneOut("get", admin.load, asks, serving, qa)
      /\ admin.config \in Docs
  BY <1>4 DEF AdminInv, AdminOut, AdminLinks
<1>6. SUFFICES /\ asks' \in Seq(AskRec) /\ asked' \in 0..MaxAsked
               /\ AdminInv(admin', asks', serving, store, qa, asked') /\ NoneLost
  BY <1>1, <1>2, <1>4 DEF AdminAll, WireTyped
<1>7. admin.config.others >= admin.config.others
  BY <1>5, ConfigBounds DEF Docs
<1>8. CASE r.answer = "noDoc" /\ admin' = [admin EXCEPT !.saving = "no"] /\ SilentWire
  <2> DEFINE e == [admin EXCEPT !.saving = "no"]
  <2>1. e \in AdminRec /\ e.config = admin.config /\ e.load = admin.load /\ e.saving = "no" /\ e.read = admin.read
    BY <1>1 DEF AdminRec
  <2>2. admin' = e
    BY <1>8
  <2> HIDE DEF e
  <2>3. AdminInv(e, asks, serving, store, qa, asked)
    BY <1>4, <1>5, <2>1, AdminAlike
  <2> QED
    BY <1>1, <1>5, <1>7, <1>8, <2>1, <2>2, <2>3 DEF NoneLost, SilentWire
<1>9. CASE r.answer = "doc" /\ admin' = [admin EXCEPT !.config = doc, !.revision = doc, !.saving = "no"] /\ SilentWire
  <2> HIDE DEF doc
  <2> DEFINE e == [admin EXCEPT !.config = doc, !.revision = doc, !.saving = "no"]
  <2>0. doc \in Docs /\ doc.others <= store.others /\ doc.others >= admin.config.others
    BY <1>4, <1>5, <1>9
  <2>1. e \in AdminRec /\ e.config = doc /\ e.load = admin.load /\ e.saving = "no"
    BY <1>1, <2>0 DEF AdminRec
  <2>2. admin' = e
    BY <1>9
  <2> HIDE DEF e
  <2>3. AdminInv(e, asks, serving, store, qa, asked)
    BY <1>1, <1>4, <1>5, <2>0, <2>1, AdminShows
  <2> QED
    BY <1>1, <1>9, <2>0, <2>1, <2>2, <2>3 DEF NoneLost, SilentWire
<1> DEFINE marks == IF "field" \in doc.marks THEN doc.marks \ {"field"} ELSE doc.marks \union {"field"}
           new == [doc EXCEPT !.marks = marks]
           m == [ask |-> "save", doc |-> new, expected |-> doc]
<1>10. CASE /\ r.answer = "doc"
            /\ admin' = [admin EXCEPT !.revision = doc, !.read = doc, !.saving = "sent"]
            /\ Ask(m)
  <2>0. doc \in Docs /\ doc.others <= store.others /\ doc.others >= admin.config.others
    BY <1>4, <1>5, <1>10
  <2>1. new \in Docs /\ new.others = doc.others
    <3>1. doc.marks \in SUBSET Marks
      BY <2>0 DEF Docs
    <3>2. marks \in SUBSET Marks
      BY <3>1 DEF Marks
    <3> QED
      BY <2>0, <3>2 DEF Docs
  <2>2. asked < MaxAsked /\ asked' = asked + 1 /\ asks' = Append(asks, m)
    BY <1>10 DEF Ask
  <2>3. m = [ask |-> "save", doc |-> new, expected |-> doc]
    OBVIOUS
  <2> HIDE DEF doc, new, m
  <2> DEFINE e == [admin EXCEPT !.revision = doc, !.read = doc, !.saving = "sent"]
  <2>4. e \in AdminRec /\ e.config = admin.config /\ e.load = admin.load /\ e.read = doc /\ e.saving = "sent"
    BY <1>1, <2>0 DEF AdminRec
  <2>5. admin' = e
    BY <1>10
  <2> HIDE DEF e
  <2>6. Append(asks, m) \in Seq(AskRec) /\ AdminInv(e, Append(asks, m), serving, store, qa, asked + 1)
    BY <1>1, <1>4, <2>0, <2>1, <2>3, <2>4, AdminSends
  <2>7. asked' \in 0..MaxAsked
    BY <1>1, <2>2, ConfigBounds
  <2> QED
    BY <1>5, <1>7, <2>2, <2>4, <2>5, <2>6, <2>7 DEF NoneLost
<1> QED
  BY <1>8, <1>9, <1>10 DEF PressReads, Arrives

LEMMA AdminStarts ==
  ASSUME AdminInit
  PROVE  AdminAll
<1>1. WireTyped /\ asks = <<>> /\ answers = <<>> /\ serving = None
  BY WireStarts DEF AdminInit
<1>2. /\ admin \in AdminRec /\ admin.config = None /\ admin.saving = "no" /\ admin.load = 0
  BY DEF AdminInit, AdminRec
<1>3. asked = 0
  BY DEF AdminInit, WireInit
<1>4. /\ \A sort \in Sorts, by \in Nat : NoneOut(sort, by, asks, serving, answers) /\ OneOut(sort, by, asks, serving, answers)
      /\ SavesSafe(asks) /\ AnswersUpTo(serving, store, answers)
  BY <1>1 DEF NoneOut, OneOut, AskAt, ReplyAt, SavesSafe, AnswersUpTo
<1>5. AdminLinks(admin, asked) /\ AdminOut(admin, asks, serving, answers)
  BY <1>2, <1>3, <1>4 DEF AdminLinks, AdminOut, Sorts
<1>6. AdminFrom(admin, asks, serving, store, answers)
  BY <1>2, <1>4, NoneAssumption DEF AdminFrom
<1> QED
  BY <1>1, <1>2, <1>5, <1>6 DEF AdminAll, AdminInv

LEMMA AdminGoesOn ==
  ASSUME AdminAll, AdminNext
  PROVE  AdminAll' /\ NoneLost
<1>0. admin'.config = admin.config => NoneLost
  BY ConfigBounds DEF NoneLost, Docs
<1>1. CASE Server /\ UNCHANGED <<admin, edits>>
  <2>1. WireTyped'
    BY <1>1, ServerKeepsType DEF AdminAll
  <2>2. AdminInv(admin, asks', serving', store', answers', asked')
    BY <1>1, AdminServes DEF AdminAll
  <2> QED
    BY <1>0, <1>1, <2>1, <2>2 DEF AdminAll
<1> QED
  BY <1>0, <1>1, AdminReads, AdminAnswered, AdminPressReads, AdminPressAnswered DEF AdminNext

LEMMA AdminInvGives ==
  ASSUME AdminAll
  PROVE  AdminTypeOK /\ SavesSafe(asks)
<1>1. WireTypeOK
  BY DEF AdminAll, WireTyped, WireTypeOK, Serving
<1>2. admin \in AdminRec /\ admin.load <= asked /\ asked \in 0..MaxAsked
  BY DEF AdminAll, AdminInv, AdminLinks, WireTyped
<1>3. admin.load \in 0..2 * MaxAsked
  <2>1. admin.load \in Nat /\ MaxAsked \in Nat
    BY <1>2, ConfigBounds DEF AdminRec
  <2> QED
    BY <1>2, <2>1
<1> QED
  BY <1>1, <1>2, <1>3 DEF AdminTypeOK, AdminRec, AdminAll, AdminInv, AdminFrom

----------------------------------------------------------------------------
(* Answers about a draft.                                                         *)

Drafts == 0..MaxDrafts
Poll == [sequence : Nat, draft : Drafts]
Readings == [shown : SUBSET Drafts, sequence : Nat, applied : Nat, out : SUBSET Poll,
             debounce : BOOLEAN, trailing : BOOLEAN, lost : BOOLEAN]
ProfileKeys == {ProfileOf[d] : d \in Drafts}
Ownership == [key : SUBSET ProfileKeys, sequence : Nat, out : SUBSET [sequence : Nat, key : ProfileKeys],
              answer : [owned : SUBSET ProfileKeys]]

WindowOpen(i) == i.debounce = TRUE
AskedAgain(i) == i.trailing = TRUE
MayBeLost(i)  == i.lost = TRUE

(* Polls are numbered in the order of the drafts they are about, and what is      *)
(* shown is not ahead of one whose answer would still be shown.                   *)
PollsInOrder(i, doc) ==
  /\ i.applied <= i.sequence
  /\ \A d \in i.shown : d <= doc
  /\ \A d, e \in i.shown : d = e
  /\ \A r \in i.out : r.sequence <= i.sequence /\ r.draft <= doc
  /\ \A q, r \in i.out : q.sequence <= r.sequence => q.draft <= r.draft
  /\ \A r \in i.out, d \in i.shown : i.applied <= r.sequence => d <= r.draft
  /\ AskedAgain(i) => WindowOpen(i)
  /\ i.sequence = 0 => i.out = {} /\ i.shown = {}

(* The newest poll is of this draft, or the window's end brings another.          *)
NewestIsOfDraft(i, doc) ==
  /\ \A r \in i.out : r.sequence = i.sequence => r.draft = doc \/ AskedAgain(i)
  /\ i.sequence > 0 =>
       \/ MayBeLost(i) \/ AskedAgain(i)
       \/ \E r \in i.out : r.sequence = i.sequence
       \/ i.applied = i.sequence /\ i.shown = {doc}

(* What may be owned is owned by the draft's own profiles.                        *)
OwnersInOrder(v, doc, polls) ==
  /\ polls > 0 => v.key = {ProfileOf[doc]}
  /\ v.sequence <= doc + 1
  /\ v.sequence = 0 => v.key = {}
  /\ v.answer.owned \subseteq v.key
  /\ \A r \in v.out : r.sequence <= v.sequence
  /\ \A r \in v.out : r.sequence = v.sequence => v.key = {r.key}
  /\ polls = 0 => v.key = {} /\ v.sequence = 0

DraftInv ==
  /\ draft \in Drafts /\ inspection \in Readings /\ vendors \in Ownership
  /\ PollsInOrder(inspection, draft) /\ NewestIsOfDraft(inspection, draft)
  /\ inspection.sequence = 0 => ~WindowOpen(inspection)
  /\ OwnersInOrder(vendors, draft, inspection.sequence)

LEMMA PolledInOrder ==
  ASSUME NEW i \in Readings, NEW doc \in Drafts, PollsInOrder(i, doc)
  PROVE  /\ Polled(i, doc) \in Readings
         /\ PollsInOrder(Polled(i, doc), doc) /\ NewestIsOfDraft(Polled(i, doc), doc)
         /\ Polled(i, doc).sequence > 0
         /\ \A d \in i.shown, e \in Polled(i, doc).shown : d <= e
<1>1. i.sequence \in Nat /\ i.applied \in Nat /\ i.shown \subseteq Drafts /\ i.out \subseteq Poll
  BY DEF Readings
<1>2. doc \in Nat
  BY DraftsAssumption DEF Drafts
<1>3. CASE doc \in Unset
  <2> DEFINE j == Polled(i, doc)
  <2>0. j = [i EXCEPT !.sequence = i.sequence + 1, !.applied = i.sequence + 1, !.shown = {doc},
                       !.lost = FALSE]
    BY <1>3 DEF Polled
  <2>1. /\ j \in Readings
        /\ j.sequence = i.sequence + 1 /\ j.applied = i.sequence + 1 /\ j.shown = {doc}
        /\ j.out = i.out /\ j.debounce = i.debounce /\ j.trailing = i.trailing
    <3>1. i.sequence + 1 \in Nat /\ {doc} \in SUBSET Drafts
      BY <1>1
    <3>2. j \in Readings
      BY <2>0, <3>1 DEF Readings
    <3> QED
      BY <2>0, <3>2 DEF Readings
  <2> HIDE DEF j
  <2>2. PollsInOrder(j, doc)
    <3>1. \A r \in j.out : r.sequence \in Nat /\ r.sequence < j.applied
      BY <1>1, <2>1 DEF PollsInOrder, Poll
    <3> QED
      BY <1>1, <1>2, <2>1, <3>1 DEF PollsInOrder, AskedAgain, WindowOpen
  <2>3. NewestIsOfDraft(j, doc)
    <3>1. \A r \in j.out : r.sequence \in Nat /\ r.sequence < j.sequence
      BY <1>1, <2>1 DEF PollsInOrder, Poll
    <3> QED
      BY <1>1, <2>1, <3>1 DEF NewestIsOfDraft
  <2>4. \A d \in i.shown, e \in j.shown : d <= e
    BY <2>1 DEF PollsInOrder
  <2> QED
    BY <1>1, <2>1, <2>2, <2>3, <2>4 DEF j
<1>4. CASE doc \notin Unset
  <2> DEFINE j == Polled(i, doc)
             new == [sequence |-> i.sequence + 1, draft |-> doc]
  <2>1. new \in Poll /\ new.sequence = i.sequence + 1 /\ new.draft = doc
    BY <1>1 DEF Poll
  <2>2. /\ j \in Readings
        /\ j.sequence = i.sequence + 1 /\ j.applied = i.applied /\ j.shown = i.shown
        /\ j.out = i.out \union {new} /\ j.debounce = i.debounce /\ j.trailing = i.trailing
    <3>1. j = [i EXCEPT !.sequence = i.sequence + 1, !.out = i.out \union {new}]
      BY <1>4 DEF Polled
    <3>2. i.sequence + 1 \in Nat /\ i.out \union {new} \in SUBSET Poll
      BY <1>1, <2>1
    <3> HIDE DEF j, new
    <3>3. j \in Readings
      BY <3>1, <3>2 DEF Readings
    <3> QED
      BY <3>1, <3>3 DEF Readings
  <2> HIDE DEF j, new
  <2>3. PollsInOrder(j, doc)
    <3>1. \A r \in i.out : r.sequence \in Nat /\ r.draft \in Nat /\ r.sequence < new.sequence /\ r.draft <= doc
      BY <1>1, <2>1, DraftsAssumption DEF PollsInOrder, Poll, Drafts
    <3>2. \A d \in i.shown : d \in Nat /\ d <= doc
      BY <1>1, DraftsAssumption DEF PollsInOrder, Drafts
    <3>3. \A q, r \in j.out : q.sequence <= r.sequence => q.draft <= r.draft
      BY <1>1, <1>2, <2>1, <2>2, <3>1 DEF PollsInOrder
    <3>4. \A r \in j.out, d \in j.shown : j.applied <= r.sequence => d <= r.draft
      BY <1>1, <1>2, <2>1, <2>2, <3>1, <3>2 DEF PollsInOrder
    <3> QED
      BY <1>1, <1>2, <2>1, <2>2, <3>1, <3>2, <3>3, <3>4 DEF PollsInOrder, AskedAgain, WindowOpen
  <2>4. NewestIsOfDraft(j, doc)
    <3>1. \A r \in i.out : r.sequence \in Nat /\ r.sequence < j.sequence
      BY <1>1, <2>2 DEF PollsInOrder, Poll
    <3> QED
      BY <1>1, <2>1, <2>2, <3>1 DEF NewestIsOfDraft
  <2>5. \A d, e \in i.shown : d <= e
    BY <1>1, DraftsAssumption DEF PollsInOrder, Drafts
  <2> QED
    BY <1>1, <2>2, <2>3, <2>4, <2>5 DEF j
<1> QED
  BY <1>3, <1>4

LEMMA RequestedInOrder ==
  ASSUME NEW i \in Readings, NEW doc \in Drafts, PollsInOrder(i, doc),
         i.sequence > 0 \/ ~WindowOpen(i)
  PROVE  /\ Requested(i, doc) \in Readings
         /\ PollsInOrder(Requested(i, doc), doc) /\ NewestIsOfDraft(Requested(i, doc), doc)
         /\ Requested(i, doc).sequence > 0
         /\ \A d \in i.shown, e \in Requested(i, doc).shown : d <= e
<1>1. CASE WindowOpen(i)
  <2> DEFINE j == [i EXCEPT !.trailing = TRUE]
  <2>1. Requested(i, doc) = j
    BY <1>1 DEF Requested, WindowOpen
  <2>2. j \in Readings
    BY DEF Readings
  <2>3. /\ j.sequence = i.sequence /\ j.applied = i.applied /\ j.shown = i.shown
        /\ j.out = i.out /\ WindowOpen(j) /\ AskedAgain(j)
    BY <1>1, <2>2 DEF Readings, WindowOpen, AskedAgain
  <2> HIDE DEF j
  <2>4. \A d, e \in i.shown : d <= e
    BY DraftsAssumption DEF PollsInOrder, Drafts, Readings
  <2> QED
    BY <1>1, <2>1, <2>2, <2>3, <2>4 DEF PollsInOrder, NewestIsOfDraft, Readings
<1>2. CASE ~WindowOpen(i)
  <2> DEFINE j == [i EXCEPT !.debounce = TRUE]
  <2>1. Requested(i, doc) = Polled(j, doc)
    BY <1>2 DEF Requested, WindowOpen, Readings
  <2>2. j \in Readings
    BY DEF Readings
  <2>3. /\ j.sequence = i.sequence /\ j.applied = i.applied /\ j.shown = i.shown
        /\ j.out = i.out /\ WindowOpen(j)
    BY <2>2 DEF Readings, WindowOpen
  <2> HIDE DEF j
  <2>4. PollsInOrder(j, doc)
    BY <1>2, <2>3 DEF PollsInOrder
  <2> QED
    BY <2>1, <2>2, <2>3, <2>4, PolledInOrder
<1> QED
  BY <1>1, <1>2

LEMMA AskedInOrder ==
  ASSUME NEW v \in Ownership, NEW old \in Drafts, NEW doc \in Drafts, NEW polls \in Nat, NEW more \in Nat \ {0},
         OwnersInOrder(v, old, polls), IF polls > 0 THEN doc = old + 1 ELSE doc = old
  PROVE  Asked(v, doc) \in Ownership /\ OwnersInOrder(Asked(v, doc), doc, more)
<1>1. /\ v.key \in SUBSET ProfileKeys /\ v.sequence \in Nat /\ v.answer \in [owned : SUBSET ProfileKeys]
      /\ v.out \in SUBSET [sequence : Nat, key : ProfileKeys]
  BY DEF Ownership
<1>2. old \in Nat /\ doc \in Nat /\ ProfileOf[doc] \in ProfileKeys
  BY DraftsAssumption DEF Drafts, ProfileKeys
<1>3. CASE v.key = {ProfileOf[doc]}
  <2>1. Asked(v, doc) = v
    BY <1>3 DEF Asked
  <2>2. v.sequence <= doc + 1
    BY <1>1, <1>2 DEF OwnersInOrder
  <2> QED
    BY <1>3, <2>1, <2>2 DEF OwnersInOrder
<1>4. CASE v.key # {ProfileOf[doc]}
  <2> DEFINE new == [sequence |-> v.sequence + 1, key |-> ProfileOf[doc]]
             w == [v EXCEPT !.key = {ProfileOf[doc]}, !.sequence = v.sequence + 1, !.answer = Nothing,
                            !.out = v.out \union {new}]
  <2>1. Asked(v, doc) = w
    BY <1>4 DEF Asked
  <2>2. new \in [sequence : Nat, key : ProfileKeys] /\ new.sequence = v.sequence + 1 /\ new.key = ProfileOf[doc]
    BY <1>1, <1>2
  <2>3. Nothing \in [owned : SUBSET ProfileKeys] /\ Nothing.owned = {}
    BY DEF Nothing
  <2> HIDE DEF new
  <2>4. w \in Ownership
    <3>1. {ProfileOf[doc]} \in SUBSET ProfileKeys /\ v.sequence + 1 \in Nat
          /\ v.out \union {new} \in SUBSET [sequence : Nat, key : ProfileKeys]
      BY <1>1, <1>2, <2>2
    <3> QED
      BY <2>3, <3>1 DEF Ownership
  <2>5. /\ w.key = {ProfileOf[doc]} /\ w.sequence = v.sequence + 1 /\ w.answer = Nothing
        /\ w.out = v.out \union {new}
    BY <2>4 DEF Ownership
  <2> HIDE DEF w
  <2>6. v.sequence + 1 <= doc + 1
    BY <1>1, <1>2 DEF OwnersInOrder
  <2>7. \A r \in v.out : r.sequence \in Nat /\ r.sequence < new.sequence
    BY <1>1, <2>2 DEF OwnersInOrder
  <2> QED
    BY <1>1, <1>2, <2>1, <2>2, <2>3, <2>4, <2>5, <2>6, <2>7 DEF OwnersInOrder
<1> QED
  BY <1>3, <1>4

LEMMA DraftStarts == DraftInit => DraftInv
<1> SUFFICES ASSUME DraftInit PROVE DraftInv
  OBVIOUS
<1>1. 0 \in Drafts
  BY DraftsAssumption DEF Drafts
<1>2. inspection \in Readings /\ vendors \in Ownership
  BY DEF DraftInit, Readings, Ownership, Nothing
<1>3. PollsInOrder(inspection, draft) /\ NewestIsOfDraft(inspection, draft)
  BY DEF DraftInit, PollsInOrder, NewestIsOfDraft, AskedAgain
<1>4. OwnersInOrder(vendors, draft, inspection.sequence)
  BY DEF DraftInit, OwnersInOrder, Nothing
<1> QED
  BY <1>1, <1>2, <1>3, <1>4 DEF DraftInv, DraftInit, WindowOpen

OnlyNewerReadings == \A old \in inspection.shown, new \in inspection'.shown : new >= old

LEMMA DraftGoesOn ==
  ASSUME DraftInv, [DraftNext]_draftVars
  PROVE  DraftInv' /\ OnlyNewerReadings
<1>1. /\ draft \in Drafts /\ inspection \in Readings /\ vendors \in Ownership
      /\ PollsInOrder(inspection, draft) /\ NewestIsOfDraft(inspection, draft)
      /\ OwnersInOrder(vendors, draft, inspection.sequence)
      /\ inspection.sequence = 0 => ~WindowOpen(inspection)
  BY DEF DraftInv
<1>2. /\ inspection.sequence \in Nat /\ inspection.applied \in Nat
      /\ inspection.shown \subseteq Drafts /\ inspection.out \subseteq Poll
  BY <1>1 DEF Readings
<1>3. draft \in Nat /\ \A d \in Drafts : d \in Nat
  BY <1>1, DraftsAssumption DEF Drafts
<1>4. \A d, e \in inspection.shown : e >= d
  <2>1. \A d, e \in inspection.shown : d = e /\ d \in Nat
    BY <1>1, <1>2, <1>3 DEF PollsInOrder
  <2> QED
    BY <2>1
<1>5. CASE Mounts
  <2>1. /\ inspection.sequence = 0 /\ inspection' = Requested(inspection, draft)
        /\ vendors' = Asked(vendors, draft) /\ draft' = draft
    BY <1>5 DEF Mounts
  <2>2. /\ inspection' \in Readings /\ PollsInOrder(inspection', draft)
        /\ NewestIsOfDraft(inspection', draft) /\ inspection'.sequence > 0 /\ OnlyNewerReadings
    BY <1>1, <1>2, <1>3, <2>1, RequestedInOrder DEF OnlyNewerReadings, Readings
  <2>3. vendors' \in Ownership /\ OwnersInOrder(vendors', draft, inspection'.sequence)
    BY <1>1, <1>2, <2>1, <2>2, AskedInOrder DEF Readings
  <2> QED
    BY <1>1, <2>1, <2>2, <2>3 DEF DraftInv
<1>6. CASE EditsDraft
  <2>1. /\ draft < MaxDrafts /\ inspection.sequence > 0 /\ draft' = draft + 1
        /\ inspection' = Requested(inspection, draft') /\ vendors' = Asked(vendors, draft')
    BY <1>6 DEF EditsDraft
  <2>2. draft' \in Drafts /\ PollsInOrder(inspection, draft')
    <3>1. draft' \in Drafts
      BY <1>1, <2>1, DraftsAssumption DEF Drafts
    <3>2. \A r \in inspection.out : r.draft <= draft'
      <4>1. \A r \in inspection.out : r.draft \in Nat /\ r.draft <= draft
        BY <1>1, <1>2, <1>3 DEF PollsInOrder, Poll
      <4> QED
        BY <1>3, <2>1, <4>1
    <3>3. \A d \in inspection.shown : d <= draft'
      <4>1. \A d \in inspection.shown : d \in Nat /\ d <= draft
        BY <1>1, <1>2, <1>3 DEF PollsInOrder
      <4> QED
        BY <1>3, <2>1, <4>1
    <3> QED
      BY <1>1, <3>1, <3>2, <3>3 DEF PollsInOrder
  <2>3. /\ inspection' \in Readings /\ PollsInOrder(inspection', draft')
        /\ NewestIsOfDraft(inspection', draft') /\ inspection'.sequence > 0
        /\ \A d \in inspection.shown, e \in inspection'.shown : d <= e
    BY <1>1, <2>1, <2>2, RequestedInOrder
  <2>4. OnlyNewerReadings
    BY <1>2, <1>3, <2>3 DEF OnlyNewerReadings, Readings
  <2>5. vendors' \in Ownership /\ OwnersInOrder(vendors', draft', inspection'.sequence)
    BY <1>1, <1>2, <2>1, <2>2, <2>3, AskedInOrder DEF Readings
  <2> QED
    BY <2>2, <2>3, <2>4, <2>5 DEF DraftInv
<1>7. CASE WindowCloses
  <2> DEFINE closed == [inspection EXCEPT !.debounce = FALSE, !.trailing = FALSE]
  <2>1. /\ WindowOpen(inspection) /\ UNCHANGED <<draft, vendors>>
        /\ inspection' = IF AskedAgain(inspection) THEN Requested(closed, draft) ELSE closed
    BY <1>1, <1>7 DEF WindowCloses, WindowOpen, AskedAgain, Readings
  <2>2. /\ closed \in Readings
    BY <1>1 DEF Readings
  <2>3. /\ closed.sequence = inspection.sequence /\ closed.applied = inspection.applied
        /\ closed.shown = inspection.shown /\ closed.out = inspection.out
        /\ ~WindowOpen(closed) /\ ~AskedAgain(closed) /\ MayBeLost(closed) = MayBeLost(inspection)
    BY <1>1, <2>2 DEF Readings, WindowOpen, AskedAgain, MayBeLost
  <2> HIDE DEF closed
  <2>4. PollsInOrder(closed, draft) /\ closed.sequence > 0
    BY <1>1, <1>2, <2>1, <2>3 DEF PollsInOrder
  <2>5. CASE AskedAgain(inspection)
    <3>1. /\ inspection' \in Readings /\ PollsInOrder(inspection', draft)
          /\ NewestIsOfDraft(inspection', draft) /\ inspection'.sequence > 0
          /\ \A d \in closed.shown, e \in inspection'.shown : d <= e
      BY <1>1, <2>1, <2>2, <2>4, <2>5, RequestedInOrder
    <3>2. OnlyNewerReadings
      BY <1>2, <1>3, <2>3, <3>1 DEF OnlyNewerReadings, Readings
    <3>3. OwnersInOrder(vendors, draft, inspection'.sequence)
      BY <1>1, <2>3, <2>4, <3>1 DEF OwnersInOrder
    <3> QED
      BY <1>1, <2>1, <2>3, <2>4, <3>1, <3>2, <3>3 DEF DraftInv
  <2>6. CASE ~AskedAgain(inspection)
    <3>1. inspection' = closed
      BY <2>1, <2>6
    <3>2. NewestIsOfDraft(closed, draft)
      BY <1>1, <2>3, <2>6 DEF NewestIsOfDraft
    <3>3. OnlyNewerReadings
      BY <1>4, <2>3, <3>1 DEF OnlyNewerReadings
    <3> QED
      BY <1>1, <2>1, <2>2, <2>3, <2>4, <3>1, <3>2, <3>3 DEF DraftInv
  <2> QED
    BY <2>5, <2>6
<1>8. CASE Ticks
  <2>1. /\ inspection.sequence > 0 /\ inspection' = Polled(inspection, draft)
        /\ UNCHANGED <<draft, vendors>>
    BY <1>8 DEF Ticks
  <2>2. /\ inspection' \in Readings /\ PollsInOrder(inspection', draft)
        /\ NewestIsOfDraft(inspection', draft) /\ inspection'.sequence > 0
        /\ \A d \in inspection.shown, e \in inspection'.shown : d <= e
    BY <1>1, <2>1, PolledInOrder
  <2>3. OnlyNewerReadings
    BY <1>2, <1>3, <2>2 DEF OnlyNewerReadings, Readings
  <2>4. OwnersInOrder(vendors, draft, inspection'.sequence)
    BY <1>1, <2>1, <2>2 DEF OwnersInOrder
  <2> QED
    BY <1>1, <2>1, <2>2, <2>3, <2>4 DEF DraftInv
<1>9. ASSUME NEW r \in inspection.out, Answers(r) PROVE DraftInv' /\ OnlyNewerReadings
  <2> DEFINE rest == [inspection EXCEPT !.out = inspection.out \ {r}]
  <2>1. /\ inspection' = IF r.sequence < inspection.applied THEN rest
                         ELSE [rest EXCEPT !.applied = r.sequence,
                                           !.lost = @ /\ r.sequence # inspection.sequence,
                                           !.shown = {r.draft}]
        /\ UNCHANGED <<draft, vendors>>
    BY <1>9 DEF Answers
  <2>2. rest \in Readings
    BY <1>1, <1>2 DEF Readings
  <2>3. /\ rest.sequence = inspection.sequence /\ rest.applied = inspection.applied
        /\ rest.shown = inspection.shown /\ rest.out = inspection.out \ {r}
        /\ WindowOpen(rest) = WindowOpen(inspection) /\ AskedAgain(rest) = AskedAgain(inspection)
        /\ MayBeLost(rest) = MayBeLost(inspection)
    BY <1>1, <2>2 DEF Readings, WindowOpen, AskedAgain, MayBeLost
  <2> HIDE DEF rest
  <2>4. /\ r \in Poll /\ r.sequence \in Nat /\ r.draft \in Nat /\ r.draft \in Drafts
        /\ r.sequence <= inspection.sequence /\ r.draft <= draft /\ inspection.sequence > 0
    <3>1. r \in Poll /\ r.sequence <= inspection.sequence /\ r.draft <= draft /\ inspection.sequence # 0
      BY <1>1, <1>2, <1>9 DEF PollsInOrder
    <3> QED
      BY <1>2, <1>3, <3>1 DEF Poll
  <2>5. CASE r.sequence < inspection.applied
    <3>1. inspection' = rest
      BY <2>1, <2>5
    <3>2. PollsInOrder(rest, draft)
      BY <1>1, <2>3, <2>4 DEF PollsInOrder
    <3>3. NewestIsOfDraft(rest, draft)
      <4>1. r.sequence # inspection.sequence
        BY <1>1, <1>2, <2>4, <2>5 DEF PollsInOrder
      <4> QED
        BY <1>1, <2>3, <4>1 DEF NewestIsOfDraft
    <3>4. OnlyNewerReadings
      BY <1>4, <2>3, <3>1 DEF OnlyNewerReadings
    <3> QED
      BY <1>1, <2>1, <2>2, <2>3, <3>1, <3>2, <3>3, <3>4 DEF DraftInv
  <2>6. CASE ~(r.sequence < inspection.applied)
    <3> DEFINE j == [rest EXCEPT !.applied = r.sequence,
                                 !.lost = @ /\ r.sequence # inspection.sequence,
                                 !.shown = {r.draft}]
    <3>1. inspection' = j
      BY <2>1, <2>6
    <3>2. {r.draft} \in SUBSET Drafts /\ r.sequence \in Nat
      BY <2>4
    <3>3. j \in Readings
      BY <2>2, <3>2 DEF Readings
    <3>4. /\ j.sequence = inspection.sequence /\ j.applied = r.sequence /\ j.shown = {r.draft}
          /\ j.out = inspection.out \ {r}
      BY <2>2, <2>3, <3>3 DEF Readings
    <3>5. /\ WindowOpen(j) = WindowOpen(inspection) /\ AskedAgain(j) = AskedAgain(inspection)
      BY <2>2, <2>3, <3>3 DEF Readings, WindowOpen, AskedAgain
    <3>6. MayBeLost(inspection) /\ r.sequence # inspection.sequence => MayBeLost(j)
      BY <2>2, <2>3, <3>3 DEF Readings, MayBeLost
    <3> HIDE DEF j
    <3>7. PollsInOrder(j, draft)
      <4>1. \A q \in inspection.out : r.sequence <= q.sequence => r.draft <= q.draft
        BY <1>1, <1>9 DEF PollsInOrder
      <4> QED
        BY <1>1, <2>4, <3>4, <3>5, <4>1 DEF PollsInOrder
    <3>8. NewestIsOfDraft(j, draft)
      <4>1. CASE r.sequence = inspection.sequence
        <5>1. \A q \in inspection.out : q.sequence = inspection.sequence => q.draft = draft \/ AskedAgain(j)
          BY <1>1, <3>5 DEF NewestIsOfDraft
        <5> QED
          BY <1>9, <3>4, <4>1, <5>1 DEF NewestIsOfDraft
      <4>2. CASE r.sequence # inspection.sequence
        BY <1>1, <1>2, <2>4, <2>6, <3>4, <3>5, <3>6, <4>2 DEF NewestIsOfDraft
      <4> QED
        BY <4>1, <4>2
    <3>9. OnlyNewerReadings
      BY <1>1, <1>2, <1>3, <1>9, <2>4, <2>6, <3>1, <3>4 DEF OnlyNewerReadings, PollsInOrder
    <3> QED
      BY <1>1, <2>1, <2>4, <3>1, <3>3, <3>4, <3>5, <3>7, <3>8, <3>9 DEF DraftInv
  <2> QED
    BY <2>5, <2>6
<1>10. ASSUME NEW r \in inspection.out, GetsLost(r) PROVE DraftInv' /\ OnlyNewerReadings
  <2> DEFINE j == [inspection EXCEPT !.out = inspection.out \ {r}, !.lost = TRUE]
  <2>1. inspection' = j /\ UNCHANGED <<draft, vendors>>
    BY <1>10 DEF GetsLost
  <2>2. j \in Readings
    BY <1>1, <1>2 DEF Readings
  <2>3. /\ j.sequence = inspection.sequence /\ j.applied = inspection.applied
        /\ j.shown = inspection.shown /\ j.out = inspection.out \ {r}
        /\ WindowOpen(j) = WindowOpen(inspection) /\ AskedAgain(j) = AskedAgain(inspection)
        /\ MayBeLost(j)
    BY <1>1, <2>2 DEF Readings, WindowOpen, AskedAgain, MayBeLost
  <2> HIDE DEF j
  <2>4. PollsInOrder(j, draft) /\ NewestIsOfDraft(j, draft)
    BY <1>1, <2>3 DEF PollsInOrder, NewestIsOfDraft
  <2>5. OnlyNewerReadings
    BY <1>4, <2>1, <2>3 DEF OnlyNewerReadings
  <2> QED
    BY <1>1, <2>1, <2>2, <2>3, <2>4, <2>5 DEF DraftInv
<1>11. ASSUME NEW r \in vendors.out, VendorsAnswer(r) PROVE DraftInv' /\ OnlyNewerReadings
  <2>1. PICK answer \in {Nothing, OwnedBy(r.key)} :
          vendors' = [vendors EXCEPT !.out = @ \ {r},
                          !.answer = IF r.sequence = vendors.sequence THEN answer ELSE @]
    BY <1>11 DEF VendorsAnswer
  <2>2. UNCHANGED <<draft, inspection>>
    BY <1>11 DEF VendorsAnswer
  <2>3. /\ vendors.key \in SUBSET ProfileKeys /\ vendors.answer \in [owned : SUBSET ProfileKeys]
        /\ vendors.out \in SUBSET [sequence : Nat, key : ProfileKeys]
    BY <1>1 DEF Ownership
  <2>4. answer \in [owned : SUBSET ProfileKeys] /\ answer.owned \subseteq {r.key}
    BY <1>11, <2>3 DEF Nothing, OwnedBy
  <2> DEFINE given == IF r.sequence = vendors.sequence THEN answer ELSE vendors.answer
  <2>5. given \in [owned : SUBSET ProfileKeys] /\ given.owned \subseteq vendors.key
    BY <1>1, <1>11, <2>3, <2>4 DEF OwnersInOrder
  <2> HIDE DEF given
  <2>6. vendors' = [vendors EXCEPT !.out = vendors.out \ {r}, !.answer = given]
    BY <1>1, <2>1 DEF given
  <2>7. vendors' \in Ownership
    BY <1>1, <2>3, <2>5, <2>6 DEF Ownership
  <2>8. /\ vendors'.key = vendors.key /\ vendors'.sequence = vendors.sequence
        /\ vendors'.out = vendors.out \ {r} /\ vendors'.answer = given
    BY <1>1, <2>6 DEF Ownership
  <2>9. OwnersInOrder(vendors', draft, inspection.sequence)
    BY <1>1, <2>5, <2>8 DEF OwnersInOrder
  <2> QED
    BY <1>1, <1>4, <2>2, <2>7, <2>9 DEF DraftInv, OnlyNewerReadings
<1>12. CASE UNCHANGED draftVars
  BY <1>1, <1>4, <1>12 DEF draftVars, DraftInv, OnlyNewerReadings
<1> QED
  BY <1>5, <1>6, <1>7, <1>8, <1>9, <1>10, <1>11, <1>12 DEF DraftNext

(* However edits, polls, their answers and failures come: once no request is out   *)
(* the readings shown are those of the draft, and nothing is owned that the        *)
(* draft's own profiles do not own (entity-inspection-controller.ts,               *)
(* hardware-profile.ts).                                                           *)
LEMMA DraftInvAnswers == DraftInv => AnswersAreOfTheDraft
<1> SUFFICES ASSUME DraftInv PROVE AnswersAreOfTheDraft
  OBVIOUS
<1>1. Cardinality(inspection.shown) <= 1
  <2>1. CASE inspection.shown = {}
    BY <2>1, FS_EmptySet
  <2>2. CASE inspection.shown # {}
    <3>1. PICK d \in inspection.shown : TRUE
      BY <2>2
    <3>2. inspection.shown = {d}
      BY <3>1 DEF DraftInv, PollsInOrder
    <3> QED
      BY <3>2, FS_Singleton
  <2> QED
    BY <2>1, <2>2
<1>2. DraftTypeOK
  <2>1. vendors.sequence \in 0..MaxDrafts + 1
    BY DraftsAssumption DEF DraftInv, OwnersInOrder, Ownership, Drafts
  <2>2. {inspection.debounce, inspection.trailing, inspection.lost} \subseteq BOOLEAN
        /\ inspection.shown \subseteq 0..MaxDrafts
    BY DEF DraftInv, Readings, Drafts
  <2> QED
    BY <1>1, <2>1, <2>2 DEF DraftInv, PollsInOrder, DraftTypeOK, Drafts
<1>3. ReadingsCatchUp
  <2> SUFFICES ASSUME inspection.out = {}, ~inspection.debounce, ~inspection.lost, inspection.sequence > 0
               PROVE  inspection.shown = {draft}
    BY DEF ReadingsCatchUp
  <2>1. ~WindowOpen(inspection) /\ ~MayBeLost(inspection)
    BY DEF WindowOpen, MayBeLost
  <2> QED
    BY <2>1 DEF DraftInv, NewestIsOfDraft, PollsInOrder
<1>4. OwnedIsOfThisDraft
  <2>1. inspection.sequence > 0 \/ inspection.sequence = 0
    BY DEF DraftInv, Readings
  <2> QED
    BY <2>1 DEF DraftInv, OwnersInOrder, OwnedIsOfThisDraft
<1> QED
  BY <1>2, <1>3, <1>4 DEF AnswersAreOfTheDraft

----------------------------------------------------------------------------
(* The detail of a node.                                                          *)

NodeRec == [mode : Nat, data : Nat, now : Nat]
ReadOut == [what : {"overview", "section"}, turn : Nat, first : BOOLEAN, reload : BOOLEAN, data : Nat,
            mode : Nat, at : Nat]
DetailRec ==
  [kind : {"today", "rolling", "plan"}, started : BOOLEAN, visible : BOOLEAN, open : BOOLEAN,
   latest : Nat, hass : Nat, fresh : BOOLEAN, watched : BOOLEAN,
   overview : [status : {"loading", "ready", "error"}, mode : Nat, data : Nat], sig : Nat, turn : Nat,
   section : [status : {"none", "loading", "ready", "error"}, data : Nat, day : Nat, readAt : Nat],
   requestedAt : Nat, request : Nat, pending : BOOLEAN, settledAt : Nat, boundary : Nat,
   reads : SUBSET ReadOut, told : Nat, missed : SUBSET {"overview", "section", "news"}]

InPage(d)    == d.started = TRUE
SectionOut(d) == d.pending = TRUE
NewsOut(d)   == \E r \in d.reads : r.reload = TRUE
Out(d, what, turn) == \E r \in d.reads : r.what = what /\ r.turn = turn

(* Each read has a number of its own, and none is of what is not yet there.      *)
ReadsSound(d) ==
  /\ \A r \in d.reads : r.data <= node.data /\ r.at <= node.now
  /\ \A r \in d.reads : r.what = "overview" => r.turn <= d.turn
  /\ \A r \in d.reads : r.what = "section" => r.turn <= d.request /\ r.reload = FALSE
  /\ \A q, r \in d.reads : q.what = r.what /\ q.turn = r.turn => q = r

OverviewKnown(d) ==
  /\ d.overview.data <= node.data /\ d.overview.mode <= d.latest
  /\ d.latest <= node.mode /\ d.told <= node.data
  /\ d.overview.status = "ready" => d.watched = TRUE

(* The read that may still answer is of nothing older than what is shown or was   *)
(* announced, and what shows as loading has one.                                  *)
OverviewAwaited(d) ==
  /\ \A r \in d.reads : r.what = "overview" /\ r.turn = d.turn => r.data >= d.overview.data /\ r.data >= d.told
  /\ InPage(d) /\ d.overview.status = "loading" => Out(d, "overview", d.turn)
  /\ ~InPage(d) => ~Out(d, "overview", d.turn)

(* So it is with the section, whose age is when its figures were asked for.       *)
SectionKnown(d) ==
  /\ d.section.data <= node.data /\ d.section.readAt <= node.now
  /\ \A r \in d.reads : r.what = "section" /\ r.turn = d.request =>
       r.data >= d.section.data /\ r.at >= d.section.readAt /\ r.at = d.requestedAt
  /\ SectionOut(d) <=> Out(d, "section", d.request)
  /\ d.section.status = "loading" => SectionOut(d)
  /\ SectionOut(d) => d.section.status \in {"loading", "ready"} /\ InPage(d)
  /\ ~InPage(d) => d.section.status \in {"none", "ready"}
  /\ d.section.status = "ready" /\ "section" \notin d.missed =>
       d.settledAt = d.section.readAt /\ (~SectionOut(d) => d.requestedAt = d.section.readAt)

(* What was announced is in the section, or will be: a read is out for it, or the *)
(* overview's behind which it is read.                                            *)
SectionNews(d) ==
  /\ d.section.status = "ready" /\ {"section", "news"} \cap d.missed = {} =>
       d.section.data >= d.told \/ SectionOut(d) \/ (InPage(d) /\ NewsOut(d))
  /\ SectionOut(d) =>
       NewsOut(d) \/ \A r \in d.reads : r.what = "section" /\ r.turn = d.request => r.data >= d.told

(* What is to be looked at is looked at when the element renders.                 *)
Moved(d) == d.fresh = TRUE /\ d.sig # d.hass
OverviewShown(d) ==
  InPage(d) /\ d.overview.status = "ready" =>
    /\ d.hass = d.latest
    /\ d.sig # d.hass => d.fresh = TRUE
    /\ "overview" \notin d.missed =>
         Out(d, "overview", d.turn) \/ Moved(d) \/ (d.overview.mode = d.latest /\ d.overview.data >= d.told)

Sound(d) == ReadsSound(d) /\ OverviewKnown(d) /\ OverviewAwaited(d) /\ SectionKnown(d)

DetailInv == /\ node \in NodeRec /\ detail \in DetailRec
             /\ Sound(detail) /\ SectionNews(detail) /\ OverviewShown(detail) /\ detail.fresh = FALSE

(* What a step leaves of the figures, unless it brings new ones.                  *)
KeepsFigures(d, e) ==
  /\ d.overview.status = "ready" => e.overview = d.overview
  /\ e.section = d.section \/ e.section.status # "ready"

LEMMA OverviewAsked ==
  ASSUME node \in NodeRec, NEW d \in DetailRec, NEW reload \in BOOLEAN
  PROVE  LET e == LoadsOverview(d, reload)
         IN  /\ e \in DetailRec
             /\ \E m \in ReadOut : /\ m.what = "overview" /\ m.turn = d.turn + 1 /\ m.reload = reload
                                   /\ m.data = node.data /\ m.at = 0 /\ e.reads = d.reads \union {m}
             /\ e.turn = d.turn + 1
             /\ d.overview.status = "ready" => e.overview = d.overview /\ e.sig = d.hass
             /\ d.overview.status # "ready" => e.overview.status = "loading"
             /\ e.overview.mode = d.overview.mode /\ e.overview.data = d.overview.data
             /\ e.kind = d.kind /\ e.started = d.started /\ e.visible = d.visible /\ e.open = d.open
             /\ e.latest = d.latest /\ e.hass = d.hass /\ e.fresh = d.fresh /\ e.watched = d.watched
             /\ e.section = d.section /\ e.requestedAt = d.requestedAt /\ e.request = d.request
             /\ e.pending = d.pending /\ e.settledAt = d.settledAt /\ e.told = d.told /\ e.missed = d.missed
<1> DEFINE first == d.overview.status # "ready"
           sig == IF first THEN d.sig ELSE d.hass
           o == [d.overview EXCEPT !.status = IF first THEN "loading" ELSE d.overview.status]
           m == [what |-> "overview", turn |-> d.turn + 1, first |-> first, reload |-> reload, data |-> node.data,
                 mode |-> node.mode, at |-> 0]
           f == [d EXCEPT !.turn = d.turn + 1, !.sig = sig, !.overview = o]
           e == [f EXCEPT !.reads = f.reads \union {m}]
<1>1. /\ d.turn + 1 \in Nat /\ sig \in Nat /\ d.reads \in SUBSET ReadOut
      /\ d.overview \in [status : {"loading", "ready", "error"}, mode : Nat, data : Nat]
  BY DEF DetailRec
<1>2. /\ o \in [status : {"loading", "ready", "error"}, mode : Nat, data : Nat]
      /\ first => o.status = "loading"
      /\ ~first => o = d.overview
      /\ o.mode = d.overview.mode /\ o.data = d.overview.data
  BY <1>1
<1>3. /\ m \in ReadOut /\ m.what = "overview" /\ m.turn = d.turn + 1 /\ m.reload = reload
      /\ m.data = node.data /\ m.at = 0
  BY <1>1 DEF ReadOut, NodeRec
<1>4. LoadsOverview(d, reload) = e
  BY DEF LoadsOverview, Asking
<1> HIDE DEF first, sig, o, m
<1>5. /\ f \in DetailRec /\ f.reads = d.reads /\ f.turn = d.turn + 1 /\ f.sig = sig /\ f.overview = o
      /\ f.kind = d.kind /\ f.started = d.started /\ f.visible = d.visible /\ f.open = d.open
      /\ f.latest = d.latest /\ f.hass = d.hass /\ f.fresh = d.fresh /\ f.watched = d.watched
      /\ f.section = d.section /\ f.requestedAt = d.requestedAt /\ f.request = d.request
      /\ f.pending = d.pending /\ f.settledAt = d.settledAt /\ f.told = d.told /\ f.missed = d.missed
  BY <1>1, <1>2 DEF DetailRec
<1> HIDE DEF f
<1>6. f.reads \union {m} \in SUBSET ReadOut
  BY <1>1, <1>3, <1>5
<1>7. /\ e \in DetailRec /\ e.reads = d.reads \union {m} /\ e.turn = d.turn + 1 /\ e.sig = sig /\ e.overview = o
      /\ e.kind = d.kind /\ e.started = d.started /\ e.visible = d.visible /\ e.open = d.open
      /\ e.latest = d.latest /\ e.hass = d.hass /\ e.fresh = d.fresh /\ e.watched = d.watched
      /\ e.section = d.section /\ e.requestedAt = d.requestedAt /\ e.request = d.request
      /\ e.pending = d.pending /\ e.settledAt = d.settledAt /\ e.told = d.told /\ e.missed = d.missed
  BY <1>5, <1>6 DEF DetailRec
<1> HIDE DEF e
<1>8. /\ d.overview.status = "ready" => e.overview = d.overview /\ e.sig = d.hass
      /\ d.overview.status # "ready" => e.overview.status = "loading"
      /\ e.overview.mode = d.overview.mode /\ e.overview.data = d.overview.data
  BY <1>2, <1>7 DEF first, sig
<1> QED
  BY <1>3, <1>4, <1>7, <1>8

LEMMA SectionAsked ==
  ASSUME node \in NodeRec, NEW d \in DetailRec
  PROVE  LET e == LoadsSection(d)
         IN  /\ e \in DetailRec
             /\ \E m \in ReadOut : /\ m.what = "section" /\ m.turn = d.request + 1 /\ m.reload = FALSE
                                   /\ m.data = node.data /\ m.at = node.now /\ e.reads = d.reads \union {m}
             /\ e.request = d.request + 1 /\ e.requestedAt = node.now /\ e.pending = TRUE
             /\ \/ e.section = d.section /\ d.section.status = "ready"
                \/ e.section.status = "loading" /\ e.section.data = 0 /\ e.section.readAt = 0
             /\ e.kind = d.kind /\ e.started = d.started /\ e.visible = d.visible /\ e.open = d.open
             /\ e.latest = d.latest /\ e.hass = d.hass /\ e.fresh = d.fresh /\ e.watched = d.watched
             /\ e.overview = d.overview /\ e.sig = d.sig /\ e.turn = d.turn
             /\ e.settledAt = d.settledAt /\ e.told = d.told /\ e.missed = d.missed
<1> DEFINE keeps == d.section.status = "ready" /\ (d.kind = "rolling" \/ ~OtherDay(d, node.now))
           c == IF keeps THEN d.section ELSE [NoSection EXCEPT !.status = "loading"]
           m == [what |-> "section", turn |-> d.request + 1, first |-> FALSE, reload |-> FALSE, data |-> node.data,
                 mode |-> 0, at |-> node.now]
           f == [d EXCEPT !.request = d.request + 1, !.requestedAt = node.now, !.pending = TRUE, !.section = c]
           e == [f EXCEPT !.reads = f.reads \union {m}]
<1>1. /\ d.request + 1 \in Nat /\ node.now \in Nat /\ node.data \in Nat /\ d.reads \in SUBSET ReadOut
      /\ d.section \in [status : {"none", "loading", "ready", "error"}, data : Nat, day : Nat, readAt : Nat]
  BY DEF DetailRec, NodeRec
<1>2. /\ c \in [status : {"none", "loading", "ready", "error"}, data : Nat, day : Nat, readAt : Nat]
      /\ \/ c = d.section /\ d.section.status = "ready"
         \/ c.status = "loading" /\ c.data = 0 /\ c.readAt = 0
  <2>1. CASE keeps
    BY <1>1, <2>1
  <2>2. CASE ~keeps
    BY <2>2 DEF NoSection
  <2> QED
    BY <2>1, <2>2
<1>3. /\ m \in ReadOut /\ m.what = "section" /\ m.turn = d.request + 1 /\ m.reload = FALSE
      /\ m.data = node.data /\ m.at = node.now
  BY <1>1 DEF ReadOut
<1>4. LoadsSection(d) = e
  BY DEF LoadsSection, Asking
<1> HIDE DEF c, m
<1>5. /\ f \in DetailRec /\ f.reads = d.reads /\ f.request = d.request + 1 /\ f.requestedAt = node.now
      /\ f.pending = TRUE /\ f.section = c
      /\ f.kind = d.kind /\ f.started = d.started /\ f.visible = d.visible /\ f.open = d.open
      /\ f.latest = d.latest /\ f.hass = d.hass /\ f.fresh = d.fresh /\ f.watched = d.watched
      /\ f.overview = d.overview /\ f.sig = d.sig /\ f.turn = d.turn
      /\ f.settledAt = d.settledAt /\ f.told = d.told /\ f.missed = d.missed
  BY <1>1, <1>2 DEF DetailRec
<1> HIDE DEF f
<1>6. f.reads \union {m} \in SUBSET ReadOut
  BY <1>1, <1>3, <1>5
<1>7. /\ e \in DetailRec /\ e.reads = d.reads \union {m} /\ e.request = d.request + 1 /\ e.requestedAt = node.now
      /\ e.pending = TRUE /\ e.section = c
      /\ e.kind = d.kind /\ e.started = d.started /\ e.visible = d.visible /\ e.open = d.open
      /\ e.latest = d.latest /\ e.hass = d.hass /\ e.fresh = d.fresh /\ e.watched = d.watched
      /\ e.overview = d.overview /\ e.sig = d.sig /\ e.turn = d.turn
      /\ e.settledAt = d.settledAt /\ e.told = d.told /\ e.missed = d.missed
  BY <1>5, <1>6 DEF DetailRec
<1> HIDE DEF e
<1> QED
  BY <1>2, <1>3, <1>4, <1>7

(* The overview is asked for.                                                     *)
LEMMA OverviewAskedKeeps ==
  ASSUME node \in NodeRec, NEW d \in DetailRec, NEW reload \in BOOLEAN,
         ReadsSound(d), OverviewKnown(d), InPage(d)
  PROVE  LET e == LoadsOverview(d, reload)
         IN  /\ e \in DetailRec
             /\ ReadsSound(e) /\ OverviewKnown(e) /\ OverviewAwaited(e) /\ Out(e, "overview", e.turn)
             /\ SectionKnown(d) => SectionKnown(e)
             /\ SectionNews(d) => SectionNews(e)
             /\ reload = TRUE /\ SectionKnown(d) => SectionNews(e)
             /\ NewsOut(d) => NewsOut(e)
             /\ KeepsFigures(d, e)
<1> DEFINE e == LoadsOverview(d, reload)
<1>1. /\ e \in DetailRec
      /\ e.turn = d.turn + 1
      /\ d.overview.status = "ready" => e.overview = d.overview /\ e.sig = d.hass
      /\ d.overview.status # "ready" => e.overview.status = "loading"
      /\ e.overview.mode = d.overview.mode /\ e.overview.data = d.overview.data
      /\ e.started = d.started /\ e.latest = d.latest /\ e.watched = d.watched
      /\ e.section = d.section /\ e.requestedAt = d.requestedAt /\ e.request = d.request
      /\ e.pending = d.pending /\ e.settledAt = d.settledAt /\ e.told = d.told /\ e.missed = d.missed
  BY OverviewAsked
<1>2. PICK m \in ReadOut : /\ m.what = "overview" /\ m.turn = d.turn + 1 /\ m.reload = reload
                           /\ m.data = node.data /\ m.at = 0 /\ e.reads = d.reads \union {m}
  BY OverviewAsked
<1> HIDE DEF e
<1>3. /\ d.turn \in Nat /\ d.told \in Nat /\ d.overview.data \in Nat /\ node.data \in Nat /\ node.now \in Nat
      /\ \A r \in d.reads : r \in ReadOut /\ r.turn \in Nat
  BY DEF DetailRec, NodeRec, ReadOut
<1>4. \A r \in d.reads : r.what = "overview" => r.turn # e.turn
  BY <1>1, <1>3 DEF ReadsSound
<1>5. ReadsSound(e)
  <2>1. \A r \in e.reads : r.data <= node.data /\ r.at <= node.now
    BY <1>2, <1>3 DEF ReadsSound
  <2>2. \A r \in e.reads : r.what = "overview" => r.turn <= e.turn
    BY <1>1, <1>2, <1>3 DEF ReadsSound
  <2>3. \A r \in e.reads : r.what = "section" => r.turn <= e.request /\ r.reload = FALSE
    BY <1>1, <1>2 DEF ReadsSound
  <2>4. \A q, r \in e.reads : q.what = r.what /\ q.turn = r.turn => q = r
    BY <1>1, <1>2, <1>4 DEF ReadsSound
  <2> QED
    BY <2>1, <2>2, <2>3, <2>4 DEF ReadsSound
<1>6. OverviewKnown(e)
  BY <1>1 DEF OverviewKnown
<1>7. Out(e, "overview", e.turn)
  BY <1>1, <1>2 DEF Out
<1>8. OverviewAwaited(e)
  BY <1>1, <1>2, <1>3, <1>4, <1>7 DEF OverviewAwaited, OverviewKnown, InPage
<1>9. SectionKnown(d) => SectionKnown(e)
  BY <1>1, <1>2 DEF SectionKnown, SectionOut, Out, InPage
<1>10. /\ NewsOut(d) => NewsOut(e)
       /\ reload = TRUE => NewsOut(e)
  BY <1>2 DEF NewsOut
<1>11. SectionNews(d) => SectionNews(e)
  BY <1>1, <1>2, <1>10 DEF SectionNews, SectionOut, InPage
<1>12. reload = TRUE => SectionNews(e)
  BY <1>1, <1>10 DEF SectionNews, InPage
<1>13. KeepsFigures(d, e)
  BY <1>1 DEF KeepsFigures
<1> QED
  BY <1>1, <1>5, <1>6, <1>7, <1>8, <1>9, <1>10, <1>11, <1>12, <1>13 DEF e

(* The section is asked for: whatever was announced is in its answer.             *)
LEMMA SectionAskedKeeps ==
  ASSUME node \in NodeRec, NEW d \in DetailRec, ReadsSound(d), OverviewKnown(d), SectionKnown(d), InPage(d)
  PROVE  LET e == LoadsSection(d)
         IN  /\ e \in DetailRec
             /\ ReadsSound(e) /\ OverviewKnown(e) /\ SectionKnown(e) /\ SectionNews(e)
             /\ OverviewAwaited(d) => OverviewAwaited(e)
             /\ OverviewShown(d) => OverviewShown(e)
             /\ e.fresh = d.fresh /\ e.started = d.started /\ KeepsFigures(d, e)
<1> DEFINE e == LoadsSection(d)
<1>1. /\ e \in DetailRec
      /\ e.request = d.request + 1 /\ e.requestedAt = node.now /\ e.pending = TRUE
      /\ \/ e.section = d.section /\ d.section.status = "ready"
         \/ e.section.status = "loading" /\ e.section.data = 0 /\ e.section.readAt = 0
      /\ e.started = d.started /\ e.latest = d.latest /\ e.hass = d.hass /\ e.fresh = d.fresh /\ e.watched = d.watched
      /\ e.overview = d.overview /\ e.sig = d.sig /\ e.turn = d.turn
      /\ e.settledAt = d.settledAt /\ e.told = d.told /\ e.missed = d.missed
  BY SectionAsked
<1>2. PICK m \in ReadOut : /\ m.what = "section" /\ m.turn = d.request + 1 /\ m.reload = FALSE
                           /\ m.data = node.data /\ m.at = node.now /\ e.reads = d.reads \union {m}
  BY SectionAsked
<1> HIDE DEF e
<1>3. /\ d.request \in Nat /\ d.told \in Nat /\ node.data \in Nat /\ node.now \in Nat
      /\ \A r \in d.reads : r \in ReadOut /\ r.turn \in Nat
  BY DEF DetailRec, NodeRec, ReadOut
<1>4. \A r \in d.reads : r.what = "section" => r.turn # e.request
  BY <1>1, <1>3 DEF ReadsSound
<1>5. ReadsSound(e)
  <2>1. \A r \in e.reads : r.data <= node.data /\ r.at <= node.now
    BY <1>2, <1>3 DEF ReadsSound
  <2>2. \A r \in e.reads : r.what = "overview" => r.turn <= e.turn
    BY <1>1, <1>2 DEF ReadsSound
  <2>3. \A r \in e.reads : r.what = "section" => r.turn <= e.request /\ r.reload = FALSE
    BY <1>1, <1>2, <1>3 DEF ReadsSound
  <2>4. \A q, r \in e.reads : q.what = r.what /\ q.turn = r.turn => q = r
    BY <1>1, <1>2, <1>4 DEF ReadsSound
  <2> QED
    BY <2>1, <2>2, <2>3, <2>4 DEF ReadsSound
<1>6. OverviewKnown(e)
  BY <1>1 DEF OverviewKnown
<1>7. \A turn : Out(e, "overview", turn) <=> Out(d, "overview", turn)
  BY <1>2 DEF Out
<1>8. OverviewAwaited(d) => OverviewAwaited(e)
  BY <1>1, <1>2, <1>7 DEF OverviewAwaited, InPage
<1>9. OverviewShown(d) => OverviewShown(e)
  BY <1>1, <1>7 DEF OverviewShown, InPage, Moved
<1>10. \A r \in e.reads : r.what = "section" /\ r.turn = e.request => r = m
  BY <1>2, <1>4
<1>11. Out(e, "section", e.request)
  BY <1>1, <1>2 DEF Out
<1>12. SectionKnown(e)
  <2>1. e.section.data <= node.data /\ e.section.readAt <= node.now
    BY <1>1, <1>3 DEF SectionKnown
  <2>2. \A r \in e.reads : r.what = "section" /\ r.turn = e.request =>
          r.data >= e.section.data /\ r.at >= e.section.readAt /\ r.at = e.requestedAt
    <3>1. e.section.data \in Nat /\ e.section.readAt \in Nat
      BY <1>1 DEF DetailRec
    <3> QED
      BY <1>1, <1>2, <1>3, <1>10, <2>1, <3>1
  <2> QED
    BY <1>1, <1>11, <2>1, <2>2 DEF SectionKnown, SectionOut, InPage
<1>13. SectionNews(e)
  BY <1>1, <1>2, <1>3, <1>10 DEF SectionNews, SectionOut, OverviewKnown
<1>14. KeepsFigures(d, e)
  BY <1>1 DEF KeepsFigures
<1> QED
  BY <1>1, <1>5, <1>6, <1>8, <1>9, <1>12, <1>13, <1>14 DEF e

(* The section is dropped; a read that is out answers nobody.                     *)
LEMMA SectionDropped ==
  ASSUME node \in NodeRec, NEW d \in DetailRec, ReadsSound(d), OverviewKnown(d), SectionKnown(d)
  PROVE  LET e == Dropped(d)
         IN  /\ e \in DetailRec
             /\ ReadsSound(e) /\ OverviewKnown(e) /\ SectionKnown(e) /\ SectionNews(e)
             /\ OverviewAwaited(d) => OverviewAwaited(e)
             /\ OverviewShown(d) => OverviewShown(e)
             /\ e.fresh = d.fresh /\ e.started = d.started /\ KeepsFigures(d, e)
<1>1. CASE d.section.status = "none"
  <2>1. Dropped(d) = d
    BY <1>1 DEF Dropped
  <2>2. SectionNews(d)
    BY <1>1 DEF SectionNews, SectionKnown
  <2> QED
    BY <2>1, <2>2 DEF KeepsFigures
<1>2. CASE d.section.status # "none"
  <2> DEFINE e == [d EXCEPT !.request = d.request + 1, !.pending = FALSE, !.section = NoSection]
  <2>1. Dropped(d) = e
    BY <1>2 DEF Dropped
  <2>2. /\ d.request + 1 \in Nat /\ d.request \in Nat /\ \A r \in d.reads : r.turn \in Nat
        /\ NoSection \in [status : {"none", "loading", "ready", "error"}, data : Nat, day : Nat, readAt : Nat]
        /\ NoSection.status = "none" /\ NoSection.data = 0 /\ NoSection.readAt = 0
        /\ node.data \in Nat /\ node.now \in Nat
    BY DEF DetailRec, ReadOut, NoSection, NodeRec
  <2>3. /\ e \in DetailRec /\ e.request = d.request + 1 /\ e.pending = FALSE /\ e.section = NoSection
        /\ e.reads = d.reads /\ e.requestedAt = d.requestedAt /\ e.settledAt = d.settledAt
        /\ e.started = d.started /\ e.latest = d.latest /\ e.hass = d.hass /\ e.fresh = d.fresh /\ e.watched = d.watched
        /\ e.overview = d.overview /\ e.sig = d.sig /\ e.turn = d.turn /\ e.told = d.told /\ e.missed = d.missed
    BY <2>2 DEF DetailRec
  <2> HIDE DEF e
  <2>4. \A r \in d.reads : r.what = "section" => r.turn <= e.request /\ r.turn # e.request
    BY <2>2, <2>3 DEF ReadsSound
  <2>5. ReadsSound(e) /\ OverviewKnown(e)
    BY <2>3, <2>4 DEF ReadsSound, OverviewKnown
  <2>6. SectionKnown(e) /\ SectionNews(e)
    BY <2>2, <2>3, <2>4 DEF SectionKnown, SectionNews, SectionOut, Out
  <2>7. /\ OverviewAwaited(d) => OverviewAwaited(e)
        /\ OverviewShown(d) => OverviewShown(e)
    BY <2>3 DEF OverviewAwaited, OverviewShown, InPage, Moved, Out
  <2> QED
    BY <2>1, <2>2, <2>3, <2>5, <2>6, <2>7 DEF KeepsFigures
<1> QED
  BY <1>1, <1>2

LEMMA KeepsOn ==
  ASSUME NEW c, NEW d, NEW e, KeepsFigures(c, d), KeepsFigures(d, e)
  PROVE  KeepsFigures(c, e)
BY DEF KeepsFigures

LEMMA SyncedKeeps ==
  ASSUME node \in NodeRec, NEW d \in DetailRec, ReadsSound(d), OverviewKnown(d), SectionKnown(d), InPage(d)
  PROVE  LET e == Synced(d)
         IN  /\ e \in DetailRec
             /\ ReadsSound(e) /\ OverviewKnown(e) /\ SectionKnown(e)
             /\ SectionNews(d) \/ ~SectionShown(d) => SectionNews(e)
             /\ OverviewAwaited(d) => OverviewAwaited(e)
             /\ OverviewShown(d) => OverviewShown(e)
             /\ e.fresh = d.fresh /\ e.started = d.started /\ KeepsFigures(d, e)
<1>1. \/ Synced(d) = LoadsSection(d)
      \/ Synced(d) = Dropped(d)
      \/ Synced(d) = d /\ SectionShown(d)
  BY DEF Synced
<1>2. KeepsFigures(d, d)
  BY DEF KeepsFigures
<1> QED
  BY <1>1, <1>2, SectionAskedKeeps, SectionDropped

(* What the element has yet to look at is looked at.                              *)
LEMMA RenderedKeeps ==
  ASSUME node \in NodeRec, NEW d \in DetailRec, Sound(d), OverviewShown(d)
  PROVE  LET e == Rendered(d)
         IN  /\ e \in DetailRec /\ Sound(e) /\ OverviewShown(e) /\ e.fresh = FALSE
             /\ SectionNews(d) \/ (InPage(d) /\ ~SectionShown(d)) => SectionNews(e)
             /\ e.started = d.started /\ KeepsFigures(d, e)
<1> DEFINE moved == d.fresh /\ d.started /\ d.overview.status = "ready" /\ d.sig # d.hass
           a == IF moved THEN LoadsOverview(d, FALSE) ELSE d
           b == [a EXCEPT !.fresh = FALSE]
           c == IF d.started THEN Synced(b) ELSE b
           now == node.now + RefreshAfter
           e == [c EXCEPT !.boundary = now]
<1>1. Rendered(d) = e
  BY DEF Rendered
<1>2. /\ d.started \in BOOLEAN /\ d.fresh \in BOOLEAN
  BY DEF DetailRec
<1>3. /\ a \in DetailRec /\ Sound(a) /\ (SectionNews(d) => SectionNews(a))
      /\ a.started = d.started /\ KeepsFigures(d, a)
      /\ a.overview.status = d.overview.status /\ a.kind = d.kind /\ a.open = d.open
      /\ a.hass = d.hass /\ a.latest = d.latest /\ a.missed = d.missed
      /\ InPage(d) /\ d.overview.status = "ready" => a.sig = a.hass /\
           ("overview" \notin a.missed =>
             Out(a, "overview", a.turn) \/ (a.overview.mode = a.latest /\ a.overview.data >= a.told))
  <2>1. CASE moved
    <3>1. /\ a = LoadsOverview(d, FALSE) /\ InPage(d) /\ d.overview.status = "ready"
      BY <1>2, <2>1 DEF InPage
    <3> HIDE DEF a
    <3>2. /\ a \in DetailRec /\ ReadsSound(a) /\ OverviewKnown(a) /\ OverviewAwaited(a) /\ SectionKnown(a)
          /\ (SectionNews(d) => SectionNews(a)) /\ KeepsFigures(d, a) /\ Out(a, "overview", a.turn)
      BY <3>1, OverviewAskedKeeps DEF Sound
    <3>3. /\ a.started = d.started /\ a.overview = d.overview /\ a.kind = d.kind /\ a.open = d.open
          /\ a.hass = d.hass /\ a.latest = d.latest /\ a.missed = d.missed /\ a.sig = d.hass
      BY <3>1, OverviewAsked
    <3> QED
      BY <3>2, <3>3 DEF Sound
  <2>2. CASE ~moved
    <3>1. a = d
      BY <2>2
    <3>2. InPage(d) /\ d.overview.status = "ready" => d.sig = d.hass /\ ~Moved(d)
      BY <1>2, <2>2 DEF InPage, OverviewShown, Moved
    <3> QED
      BY <3>1, <3>2 DEF OverviewShown, KeepsFigures
  <2> QED
    BY <2>1, <2>2
<1> HIDE DEF a, moved
<1>4. /\ b \in DetailRec /\ b.fresh = FALSE
      /\ b.kind = a.kind /\ b.started = a.started /\ b.visible = a.visible /\ b.open = a.open
      /\ b.latest = a.latest /\ b.hass = a.hass /\ b.watched = a.watched
      /\ b.overview = a.overview /\ b.sig = a.sig /\ b.turn = a.turn
      /\ b.section = a.section /\ b.requestedAt = a.requestedAt /\ b.request = a.request
      /\ b.pending = a.pending /\ b.settledAt = a.settledAt /\ b.reads = a.reads /\ b.told = a.told
      /\ b.missed = a.missed
  BY <1>3 DEF DetailRec
<1> HIDE DEF b
<1>5. /\ Sound(b) /\ (SectionNews(a) => SectionNews(b)) /\ KeepsFigures(a, b)
      /\ SectionShown(b) <=> SectionShown(d)
      /\ OverviewShown(b)
  <2>1. Sound(b)
    BY <1>3, <1>4 DEF Sound, ReadsSound, OverviewKnown, OverviewAwaited, SectionKnown, InPage, Out, SectionOut
  <2>2. SectionNews(a) => SectionNews(b)
    BY <1>4 DEF SectionNews, InPage, SectionOut, NewsOut
  <2>3. SectionShown(b) <=> SectionShown(d)
    BY <1>3, <1>4 DEF SectionShown
  <2>4. OverviewShown(b)
    <3> SUFFICES ASSUME InPage(b), b.overview.status = "ready"
                 PROVE  /\ b.hass = b.latest /\ b.sig = b.hass
                        /\ "overview" \notin b.missed =>
                             Out(b, "overview", b.turn) \/ (b.overview.mode = b.latest /\ b.overview.data >= b.told)
      BY DEF OverviewShown
    <3>1. InPage(d) /\ d.overview.status = "ready"
      BY <1>3, <1>4 DEF InPage
    <3> QED
      BY <1>3, <1>4, <3>1 DEF OverviewShown, Out
  <2> QED
    BY <1>4, <2>1, <2>2, <2>3, <2>4 DEF KeepsFigures
<1>6. /\ c \in DetailRec /\ Sound(c) /\ OverviewShown(c) /\ c.fresh = FALSE /\ c.started = b.started /\ KeepsFigures(b, c)
      /\ SectionNews(b) \/ (InPage(d) /\ ~SectionShown(b)) => SectionNews(c)
  <2>1. CASE d.started
    <3>1. c = Synced(b) /\ InPage(b)
      BY <1>2, <1>3, <1>4, <2>1 DEF InPage
    <3> HIDE DEF c
    <3> QED
      BY <1>4, <1>5, <3>1, SyncedKeeps DEF Sound
  <2>2. CASE ~d.started
    BY <1>4, <1>5, <2>2 DEF InPage, KeepsFigures
  <2> QED
    BY <2>1, <2>2
<1> HIDE DEF c
<1>7. now \in Nat
  BY TicksAssumption DEF NodeRec
<1> HIDE DEF now
<1>8. /\ e \in DetailRec /\ e.fresh = c.fresh
      /\ e.kind = c.kind /\ e.started = c.started /\ e.visible = c.visible /\ e.open = c.open
      /\ e.latest = c.latest /\ e.hass = c.hass /\ e.watched = c.watched
      /\ e.overview = c.overview /\ e.sig = c.sig /\ e.turn = c.turn
      /\ e.section = c.section /\ e.requestedAt = c.requestedAt /\ e.request = c.request
      /\ e.pending = c.pending /\ e.settledAt = c.settledAt /\ e.reads = c.reads /\ e.told = c.told
      /\ e.missed = c.missed
  BY <1>6, <1>7 DEF DetailRec
<1> HIDE DEF e
<1>9. /\ Sound(e) /\ OverviewShown(e) /\ KeepsFigures(c, e)
      /\ SectionNews(c) => SectionNews(e)
  <2>1. Sound(e)
    BY <1>6, <1>8 DEF Sound, ReadsSound, OverviewKnown, OverviewAwaited, SectionKnown, InPage, Out, SectionOut
  <2>2. OverviewShown(e)
    BY <1>6, <1>8 DEF OverviewShown, InPage, Out, Moved
  <2>3. SectionNews(c) => SectionNews(e)
    BY <1>8 DEF SectionNews, InPage, SectionOut, NewsOut
  <2> QED
    BY <1>8, <2>1, <2>2, <2>3 DEF KeepsFigures
<1>10. KeepsFigures(d, e)
  BY <1>3, <1>5, <1>6, <1>9, KeepsOn
<1>11. SectionNews(d) \/ (InPage(d) /\ ~SectionShown(d)) => SectionNews(e)
  BY <1>3, <1>5, <1>6, <1>9
<1>12. e.started = d.started /\ e.fresh = FALSE
  BY <1>3, <1>4, <1>6, <1>8
<1> QED
  BY <1>1, <1>8, <1>9, <1>10, <1>11, <1>12 DEF e

(* The section is read again, if there is one: what was announced has reached it, *)
(* or it is dropped once the element renders.                                     *)
LEMMA ReloadedKeeps ==
  ASSUME node \in NodeRec, NEW d \in DetailRec, Sound(d), OverviewShown(d), InPage(d)
  PROVE  LET e == Rendered(Reloaded(d))
         IN  /\ e \in DetailRec /\ Sound(e) /\ OverviewShown(e) /\ SectionNews(e) /\ e.fresh = FALSE
             /\ KeepsFigures(d, e)
<1> DEFINE a == Reloaded(d)
<1>1. /\ a \in DetailRec /\ Sound(a) /\ OverviewShown(a) /\ KeepsFigures(d, a)
      /\ SectionNews(a) \/ (InPage(a) /\ ~SectionShown(a))
  <2>1. CASE d.section.status # "none" /\ SectionShown(d)
    <3>1. a = LoadsSection(d)
      BY <2>1 DEF Reloaded
    <3> HIDE DEF a
    <3> QED
      BY <3>1, SectionAskedKeeps DEF Sound
  <2>2. CASE d.section.status = "none" \/ ~SectionShown(d)
    <3>1. a = d
      BY <2>2 DEF Reloaded
    <3>2. d.section.status = "none" => SectionNews(d)
      BY DEF SectionNews, Sound, SectionKnown
    <3> HIDE DEF a
    <3> QED
      BY <2>2, <3>1, <3>2 DEF KeepsFigures
  <2> QED
    BY <2>1, <2>2
<1> HIDE DEF a
<1>2. LET e == Rendered(a)
      IN  /\ e \in DetailRec /\ Sound(e) /\ OverviewShown(e) /\ SectionNews(e) /\ e.fresh = FALSE
          /\ KeepsFigures(a, e)
  BY <1>1, RenderedKeeps
<1> QED
  BY <1>1, <1>2, KeepsOn DEF a

----------------------------------------------------------------------------
(* Its steps.                                                                     *)

(* No figures give way to older ones.                                             *)
Onward(d, e) ==
  /\ d.overview.status = "ready" =>
       /\ e.overview.status = "ready"
       /\ e.overview.mode >= d.overview.mode /\ e.overview.data >= d.overview.data
  /\ d.section.status = "ready" /\ e.section.status = "ready" =>
       e.section.data >= d.section.data /\ e.section.readAt >= d.section.readAt

LEMMA KeptIsOnward ==
  ASSUME NEW d \in DetailRec, NEW e, KeepsFigures(d, e)
  PROVE  Onward(d, e)
<1>1. /\ d.overview.mode \in Nat /\ d.overview.data \in Nat
      /\ d.section.data \in Nat /\ d.section.readAt \in Nat
  BY DEF DetailRec
<1> QED
  BY <1>1 DEF KeepsFigures, Onward

LEMMA OnwardAndKept ==
  ASSUME NEW c, NEW d, NEW e, Onward(c, d), KeepsFigures(d, e)
  PROVE  Onward(c, e)
BY DEF KeepsFigures, Onward

(* A step that leaves the house alone ends in what it makes of the detail.        *)
LEMMA DetailEndsIn ==
  ASSUME DetailInv, node' = node, NEW e \in DetailRec, detail' = e, Sound(e), SectionNews(e), OverviewShown(e),
         e.fresh = FALSE, Onward(detail, e)
  PROVE  DetailInv' /\ Onward(detail, detail')
BY DEF DetailInv, Sound, ReadsSound, OverviewKnown, OverviewAwaited, SectionKnown, SectionNews, OverviewShown,
       InPage, SectionOut, NewsOut, Out, Moved

(* Whoever renders last leaves it so.                                             *)
LEMMA DetailRenders ==
  ASSUME DetailInv, node' = node, NEW d \in DetailRec, detail' = Rendered(d), Sound(d), OverviewShown(d),
         SectionNews(d) \/ (InPage(d) /\ ~SectionShown(d)), Onward(detail, d)
  PROVE  DetailInv' /\ Onward(detail, detail')
<1> DEFINE e == Rendered(d)
<1>1. /\ e \in DetailRec /\ Sound(e) /\ OverviewShown(e) /\ e.fresh = FALSE /\ SectionNews(e) /\ KeepsFigures(d, e)
  BY RenderedKeeps DEF DetailInv
<1>2. detail' = e
  OBVIOUS
<1> HIDE DEF e
<1> QED
  BY <1>1, <1>2, OnwardAndKept, DetailEndsIn

LEMMA DetailEnters ==
  ASSUME DetailInv, Enters
  PROVE  DetailInv' /\ Onward(detail, detail')
<1> DEFINE d == [detail EXCEPT !.started = TRUE, !.hass = detail.latest]
           a == LoadsOverview(d, FALSE)
<1>1. /\ detail' = Rendered(a) /\ node' = node /\ detail.started = FALSE
  BY DEF Enters, DetailInv, DetailRec
<1>2. /\ d \in DetailRec /\ d.started = TRUE /\ d.hass = detail.latest /\ d.fresh = FALSE
      /\ d.kind = detail.kind /\ d.visible = detail.visible /\ d.open = detail.open
      /\ d.latest = detail.latest /\ d.watched = detail.watched
      /\ d.overview = detail.overview /\ d.sig = detail.sig /\ d.turn = detail.turn
      /\ d.section = detail.section /\ d.requestedAt = detail.requestedAt /\ d.request = detail.request
      /\ d.pending = detail.pending /\ d.settledAt = detail.settledAt /\ d.reads = detail.reads /\ d.told = detail.told
      /\ d.missed = detail.missed
  BY DEF DetailInv, DetailRec
<1> HIDE DEF d
<1>3. /\ ReadsSound(d) /\ OverviewKnown(d) /\ InPage(d)
  BY <1>2 DEF DetailInv, Sound, ReadsSound, OverviewKnown, InPage
<1>4. SectionKnown(d) /\ SectionNews(d)
  BY <1>1, <1>2 DEF DetailInv, Sound, SectionKnown, SectionNews, InPage, SectionOut, Out, NewsOut
<1>5. KeepsFigures(detail, d)
  BY <1>2 DEF KeepsFigures
<1> HIDE DEF a
<1>6. /\ a \in DetailRec /\ ReadsSound(a) /\ OverviewKnown(a) /\ OverviewAwaited(a) /\ Out(a, "overview", a.turn)
      /\ SectionKnown(a) /\ SectionNews(a) /\ KeepsFigures(d, a)
  BY <1>2, <1>3, <1>4, OverviewAskedKeeps DEF DetailInv, a
<1>7. OverviewShown(a)
  <2>1. /\ a.hass = d.hass /\ a.latest = d.latest
        /\ d.overview.status = "ready" => a.sig = d.hass
        /\ d.overview.status # "ready" => a.overview.status = "loading"
    BY <1>2, OverviewAsked DEF DetailInv, a
  <2> QED
    BY <1>2, <1>6, <2>1 DEF OverviewShown
<1>8. Onward(detail, a)
  BY <1>5, <1>6, KeepsOn, KeptIsOnward DEF DetailInv
<1> QED
  BY <1>1, <1>6, <1>7, <1>8, DetailRenders DEF Sound

LEMMA DetailLeaves ==
  ASSUME DetailInv, Leaves
  PROVE  DetailInv' /\ Onward(detail, detail')
<1> DEFINE missed == IF Reloading \/ detail.pending THEN detail.missed \union {"news"} ELSE detail.missed
           turn == detail.turn + 1
           d == [detail EXCEPT !.started = FALSE, !.turn = turn, !.missed = missed]
           request == detail.request + 1
           o == [d EXCEPT !.request = request, !.pending = FALSE, !.requestedAt = d.settledAt]
           over == IF d.pending THEN o ELSE d
           e == IF over.section.status = "ready" THEN over ELSE [over EXCEPT !.section = NoSection]
<1>1. /\ node \in NodeRec /\ detail \in DetailRec /\ Sound(detail) /\ SectionNews(detail) /\ detail.fresh = FALSE
  BY DEF DetailInv
<1>2. /\ missed \in SUBSET {"overview", "section", "news"} /\ turn \in Nat /\ request \in Nat
      /\ detail.turn \in Nat /\ detail.request \in Nat
      /\ missed \in {detail.missed, detail.missed \union {"news"}}
      /\ ("news" \notin missed => ~NewsOut(detail) /\ ~SectionOut(detail))
  BY <1>1 DEF DetailRec, Reloading, NewsOut, SectionOut
<1>3. \A r \in detail.reads : r.turn \in Nat
  BY <1>1 DEF DetailRec, ReadOut
<1>4. /\ NoSection \in [status : {"none", "loading", "ready", "error"}, data : Nat, day : Nat, readAt : Nat]
      /\ NoSection.status = "none" /\ NoSection.data = 0 /\ NoSection.readAt = 0
  BY DEF NoSection
<1>5. detail' = e /\ node' = node /\ InPage(detail)
  BY <1>1 DEF Leaves, Cancelled, InPage, DetailRec
<1> HIDE DEF missed
<1>6. /\ d \in DetailRec /\ d.started = FALSE /\ d.turn = turn /\ d.missed = missed
      /\ d.hass = detail.hass /\ d.fresh = FALSE
      /\ d.latest = detail.latest /\ d.watched = detail.watched /\ d.overview = detail.overview /\ d.sig = detail.sig
      /\ d.section = detail.section /\ d.requestedAt = detail.requestedAt /\ d.request = detail.request
      /\ d.pending = detail.pending /\ d.settledAt = detail.settledAt /\ d.reads = detail.reads /\ d.told = detail.told
  BY <1>1, <1>2 DEF DetailRec
<1> HIDE DEF d
<1>7. /\ over \in DetailRec /\ over.started = FALSE /\ over.turn = turn /\ over.missed = missed
      /\ over.fresh = FALSE /\ over.latest = detail.latest /\ over.watched = detail.watched
      /\ over.overview = detail.overview /\ over.section = detail.section /\ over.settledAt = detail.settledAt
      /\ over.reads = detail.reads /\ over.told = detail.told
      /\ over.pending = FALSE
      /\ IF SectionOut(detail) THEN over.request = request /\ over.requestedAt = detail.settledAt
         ELSE over.request = detail.request /\ over.requestedAt = detail.requestedAt
  <2>1. CASE d.pending
    <3>1. over = o /\ SectionOut(detail)
      BY <1>1, <1>6, <2>1 DEF DetailRec, SectionOut
    <3> HIDE DEF over
    <3> QED
      BY <1>2, <1>6, <3>1 DEF DetailRec
  <2>2. CASE ~d.pending
    <3>1. over = d /\ ~SectionOut(detail) /\ d.pending = FALSE
      BY <1>1, <1>6, <2>2 DEF DetailRec, SectionOut
    <3> HIDE DEF over
    <3> QED
      BY <1>6, <3>1
  <2> QED
    BY <2>1, <2>2
<1> HIDE DEF over
<1>8. /\ e \in DetailRec /\ e.started = FALSE /\ e.turn = turn /\ e.missed = missed
      /\ e.fresh = FALSE /\ e.latest = over.latest /\ e.watched = over.watched
      /\ e.overview = over.overview /\ e.settledAt = over.settledAt
      /\ e.reads = over.reads /\ e.told = over.told
      /\ e.pending = FALSE /\ e.request = over.request /\ e.requestedAt = over.requestedAt
      /\ e.section = IF over.section.status = "ready" THEN over.section ELSE NoSection
  BY <1>4, <1>7 DEF DetailRec
<1> HIDE DEF e
<1>9. \A r \in detail.reads : /\ r.what = "overview" => r.turn <= turn /\ r.turn # turn
                              /\ r.what = "section" => r.turn <= e.request
                              /\ r.what = "section" => r.turn # e.request
  <2>1. \A r \in detail.reads : r.what = "overview" => r.turn <= turn /\ r.turn # turn
    BY <1>1, <1>2, <1>3 DEF Sound, ReadsSound
  <2>2. \A r \in detail.reads : r.what = "section" => r.turn <= e.request /\ r.turn # e.request
    <3>1. CASE SectionOut(detail)
      BY <1>1, <1>2, <1>3, <1>7, <1>8, <3>1 DEF Sound, ReadsSound
    <3>2. CASE ~SectionOut(detail)
      BY <1>1, <1>7, <1>8, <3>2 DEF Sound, ReadsSound, SectionKnown, Out
    <3> QED
      BY <3>1, <3>2
  <2> QED
    BY <2>1, <2>2
<1>10. ReadsSound(e) /\ OverviewKnown(e) /\ OverviewAwaited(e)
  BY <1>1, <1>7, <1>8, <1>9 DEF Sound, ReadsSound, OverviewKnown, OverviewAwaited, InPage, Out
<1>11. SectionKnown(e)
  <2>1. e.section.data <= node.data /\ e.section.readAt <= node.now
    BY <1>1, <1>4, <1>7, <1>8 DEF Sound, SectionKnown, NodeRec
  <2>2. e.section.status = "ready" /\ "section" \notin e.missed =>
          e.settledAt = e.section.readAt /\ e.requestedAt = e.section.readAt
    BY <1>1, <1>2, <1>4, <1>7, <1>8 DEF Sound, SectionKnown
  <2> QED
    BY <1>4, <1>7, <1>8, <1>9, <2>1, <2>2 DEF SectionKnown, SectionOut, Out, InPage
<1>12. SectionNews(e)
  BY <1>1, <1>2, <1>4, <1>7, <1>8 DEF SectionNews, SectionOut, InPage
<1>13. OverviewShown(e)
  BY <1>8 DEF OverviewShown, InPage
<1>14. KeepsFigures(detail, e)
  BY <1>4, <1>7, <1>8 DEF KeepsFigures
<1> QED
  BY <1>1, <1>5, <1>8, <1>10, <1>11, <1>12, <1>13, <1>14, KeptIsOnward, DetailEndsIn DEF Sound

(* What a step that changes nothing the reads are about leaves alone.             *)
SameFigures(d, e) ==
  /\ e.started = d.started /\ e.latest = d.latest /\ e.watched = d.watched /\ e.overview = d.overview
  /\ e.turn = d.turn /\ e.section = d.section /\ e.requestedAt = d.requestedAt /\ e.request = d.request
  /\ e.pending = d.pending /\ e.settledAt = d.settledAt /\ e.reads = d.reads /\ e.told = d.told
  /\ e.missed = d.missed

LEMMA SameFiguresKeep ==
  ASSUME NEW d, NEW e, SameFigures(d, e)
  PROVE  /\ Sound(d) => Sound(e)
         /\ SectionNews(d) => SectionNews(e)
         /\ e.hass = d.hass /\ e.sig = d.sig /\ e.fresh = d.fresh /\ OverviewShown(d) => OverviewShown(e)
         /\ KeepsFigures(d, e)
BY DEF SameFigures, Sound, ReadsSound, OverviewKnown, OverviewAwaited, SectionKnown, SectionNews, OverviewShown,
       InPage, SectionOut, NewsOut, Out, Moved, KeepsFigures

LEMMA DetailToggles ==
  ASSUME DetailInv, TogglesSection
  PROVE  DetailInv' /\ Onward(detail, detail')
<1> DEFINE d == [detail EXCEPT !.open = ~detail.open]
<1>1. /\ detail' = Rendered(d) /\ node' = node
  BY DEF TogglesSection
<1>2. /\ d \in DetailRec /\ SameFigures(detail, d)
      /\ d.hass = detail.hass /\ d.sig = detail.sig /\ d.fresh = detail.fresh
  <2>1. detail \in DetailRec /\ (~detail.open) \in BOOLEAN
    BY DEF DetailInv
  <2> QED
    BY <2>1 DEF DetailRec, SameFigures
<1> HIDE DEF d
<1>3. Sound(d) /\ SectionNews(d) /\ OverviewShown(d) /\ Onward(detail, d)
  BY <1>2, SameFiguresKeep, KeptIsOnward DEF DetailInv
<1> QED
  BY <1>1, <1>2, <1>3, DetailRenders

LEMMA DetailTurnsPage ==
  ASSUME DetailInv, TurnsPage
  PROVE  DetailInv' /\ Onward(detail, detail')
<1> DEFINE d == [detail EXCEPT !.visible = ~detail.visible]
<1>1. /\ detail' = d /\ node' = node
  BY DEF TurnsPage
<1>2. /\ d \in DetailRec /\ SameFigures(detail, d)
      /\ d.hass = detail.hass /\ d.sig = detail.sig /\ d.fresh = detail.fresh
  <2>1. detail \in DetailRec /\ (~detail.visible) \in BOOLEAN
    BY DEF DetailInv
  <2> QED
    BY <2>1 DEF DetailRec, SameFigures
<1> HIDE DEF d
<1>3. Sound(d) /\ SectionNews(d) /\ OverviewShown(d) /\ Onward(detail, d)
  BY <1>2, SameFiguresKeep, KeptIsOnward DEF DetailInv
<1> QED
  BY <1>1, <1>2, <1>3, DetailEndsIn DEF DetailInv

LEMMA DetailTicks ==
  ASSUME DetailInv, ClockTicks
  PROVE  DetailInv' /\ Onward(detail, detail')
<1>1. /\ detail' = Rendered(detail) /\ node' = node /\ detail \in DetailRec
      /\ Sound(detail) /\ SectionNews(detail) /\ OverviewShown(detail)
  BY DEF ClockTicks, DetailInv
<1>2. Onward(detail, detail)
  BY <1>1, KeptIsOnward DEF KeepsFigures
<1> QED
  BY <1>1, <1>2, DetailRenders

LEMMA DetailRetriesOverview ==
  ASSUME DetailInv, RetriesOverview
  PROVE  DetailInv' /\ Onward(detail, detail')
<1> DEFINE a == LoadsOverview(detail, FALSE)
<1>1. /\ detail' = Rendered(a) /\ node' = node /\ InPage(detail) /\ detail.overview.status = "error"
  BY DEF RetriesOverview, DetailInv, DetailRec, InPage
<1>2. a.overview.status = "loading"
  BY <1>1, OverviewAsked DEF DetailInv
<1>3. /\ a \in DetailRec /\ Sound(a) /\ SectionNews(a) /\ KeepsFigures(detail, a)
  BY <1>1, OverviewAskedKeeps DEF DetailInv, Sound
<1> HIDE DEF a
<1>4. OverviewShown(a) /\ Onward(detail, a)
  BY <1>2, <1>3, KeptIsOnward DEF OverviewShown, DetailInv
<1> QED
  BY <1>1, <1>3, <1>4, DetailRenders

LEMMA DetailRetriesSection ==
  ASSUME DetailInv, RetriesSection
  PROVE  DetailInv' /\ Onward(detail, detail')
<1> DEFINE a == LoadsSection(detail)
<1>1. /\ detail' = Rendered(a) /\ node' = node /\ InPage(detail)
  BY DEF RetriesSection, DetailInv, DetailRec, InPage
<1>2. /\ a \in DetailRec /\ Sound(a) /\ SectionNews(a) /\ OverviewShown(a) /\ KeepsFigures(detail, a)
  BY <1>1, SectionAskedKeeps DEF DetailInv, Sound
<1> HIDE DEF a
<1>3. Onward(detail, a)
  BY <1>2, KeptIsOnward DEF DetailInv
<1> QED
  BY <1>1, <1>2, <1>3, DetailRenders

(* What there is to know only grows.                                              *)
LEMMA NodeGrows ==
  ASSUME DetailInv, node' \in NodeRec, detail' = detail,
         node.mode <= node'.mode, node.data <= node'.data, node.now <= node'.now
  PROVE  DetailInv' /\ Onward(detail, detail')
<1>1. /\ node.mode \in Nat /\ node.data \in Nat /\ node.now \in Nat
      /\ node'.mode \in Nat /\ node'.data \in Nat /\ node'.now \in Nat
  BY DEF DetailInv, NodeRec
<1>2. /\ detail \in DetailRec /\ detail.overview.data \in Nat /\ detail.latest \in Nat /\ detail.told \in Nat
      /\ detail.section.data \in Nat /\ detail.section.readAt \in Nat
      /\ \A r \in detail.reads : r.data \in Nat /\ r.at \in Nat
  BY DEF DetailInv, DetailRec, ReadOut
<1>3. ReadsSound(detail)'
  BY <1>1, <1>2 DEF DetailInv, Sound, ReadsSound
<1>4. OverviewKnown(detail)'
  BY <1>1, <1>2 DEF DetailInv, Sound, OverviewKnown
<1>5. OverviewAwaited(detail)'
  BY DEF DetailInv, Sound, OverviewAwaited, InPage, Out
<1>6. SectionKnown(detail)'
  BY <1>1, <1>2 DEF DetailInv, Sound, SectionKnown, SectionOut, InPage, Out
<1>7. SectionNews(detail)' /\ OverviewShown(detail)'
  BY DEF DetailInv, SectionNews, OverviewShown, SectionOut, InPage, NewsOut, Out, Moved
<1>8. Onward(detail, detail)
  BY <1>2, KeptIsOnward DEF KeepsFigures
<1> QED
  BY <1>2, <1>3, <1>4, <1>5, <1>6, <1>7, <1>8 DEF DetailInv, Sound

LEMMA DetailWaits ==
  ASSUME DetailInv, NodeMoves \/ TimePasses
  PROVE  DetailInv' /\ Onward(detail, detail')
<1>1. node \in NodeRec
  BY DEF DetailInv
<1>2. /\ node.mode \in Nat /\ node.data \in Nat /\ node.now \in Nat
      /\ node.mode + 1 \in Nat /\ node.data + 1 \in Nat /\ node.now + 1 \in Nat
  BY <1>1 DEF NodeRec
<1>3. /\ node' \in NodeRec /\ detail' = detail
      /\ node.mode <= node'.mode /\ node.data <= node'.data /\ node.now <= node'.now
  <2>1. CASE node' = [node EXCEPT !.mode = node.mode + 1] /\ detail' = detail
    BY <1>1, <1>2, <2>1 DEF NodeRec
  <2>2. CASE node' = [node EXCEPT !.data = node.data + 1] /\ detail' = detail
    BY <1>1, <1>2, <2>2 DEF NodeRec
  <2>3. CASE node' = [node EXCEPT !.now = node.now + 1] /\ detail' = detail
    BY <1>1, <1>2, <2>3 DEF NodeRec
  <2> QED
    BY <2>1, <2>2, <2>3 DEF NodeMoves, TimePasses
<1> QED
  BY <1>3, NodeGrows

(* A push behind which the overview is not of the mode pushed is one it watched for. *)
LEMMA DetailPushed ==
  ASSUME DetailInv, NEW passed \in BOOLEAN, HassPushed(passed)
  PROVE  DetailInv' /\ Onward(detail, detail')
<1> DEFINE d == [detail EXCEPT !.latest = node.mode]
           e == [d EXCEPT !.hass = node.mode, !.fresh = TRUE]
<1>1. /\ detail \in DetailRec /\ Sound(detail) /\ SectionNews(detail) /\ OverviewShown(detail) /\ detail.fresh = FALSE
      /\ node.mode \in Nat /\ detail.latest \in Nat /\ detail.overview.mode \in Nat
  BY DEF DetailInv, NodeRec, DetailRec
<1>2. /\ node' = node /\ detail.latest < node.mode /\ (detail.watched => passed)
      /\ detail' = IF passed /\ d.started THEN Rendered(e) ELSE d
  BY DEF HassPushed
<1>3. /\ d \in DetailRec /\ d.latest = node.mode
      /\ d.started = detail.started /\ d.watched = detail.watched /\ d.overview = detail.overview
      /\ d.turn = detail.turn /\ d.section = detail.section /\ d.requestedAt = detail.requestedAt
      /\ d.request = detail.request /\ d.pending = detail.pending /\ d.settledAt = detail.settledAt
      /\ d.reads = detail.reads /\ d.told = detail.told /\ d.missed = detail.missed
      /\ d.hass = detail.hass /\ d.sig = detail.sig /\ d.fresh = detail.fresh
  BY <1>1 DEF DetailRec
<1> HIDE DEF d
<1>4. Sound(d) /\ SectionNews(d) /\ KeepsFigures(detail, d)
  <2>1. ReadsSound(d) /\ OverviewAwaited(d) /\ SectionKnown(d)
    BY <1>1, <1>3 DEF Sound, ReadsSound, OverviewAwaited, SectionKnown, InPage, SectionOut, Out
  <2>2. OverviewKnown(d)
    BY <1>1, <1>2, <1>3 DEF Sound, OverviewKnown
  <2>3. SectionNews(d)
    BY <1>1, <1>3 DEF SectionNews, InPage, SectionOut, NewsOut
  <2> QED
    BY <1>3, <2>1, <2>2, <2>3 DEF Sound, KeepsFigures
<1>5. CASE passed /\ d.started
  <2>1. /\ e \in DetailRec /\ SameFigures(d, e)
        /\ e.hass = node.mode /\ e.sig = detail.sig /\ e.fresh = TRUE
    BY <1>1, <1>3 DEF DetailRec, SameFigures
  <2>2. detail' = Rendered(e)
    BY <1>2, <1>5
  <2> HIDE DEF e
  <2>3. OverviewShown(e)
    <3> SUFFICES ASSUME InPage(e), e.overview.status = "ready"
                 PROVE  e.hass = e.latest /\ Moved(e)
      BY <2>1 DEF OverviewShown
    <3>1. InPage(detail) /\ detail.overview.status = "ready" /\ e.latest = node.mode
      BY <1>3, <2>1 DEF InPage, SameFigures
    <3>2. detail.sig = detail.latest
      BY <1>1, <3>1 DEF OverviewShown
    <3> QED
      BY <1>1, <1>2, <2>1, <3>1, <3>2 DEF Moved
  <2>4. Sound(e) /\ SectionNews(e) /\ Onward(detail, e)
    BY <1>1, <1>4, <2>1, SameFiguresKeep, KeepsOn, KeptIsOnward
  <2> QED
    BY <1>2, <2>1, <2>2, <2>3, <2>4, DetailRenders
<1>6. CASE ~(passed /\ d.started)
  <2>1. detail' = d
    BY <1>2, <1>6
  <2>2. OverviewShown(d)
    <3> SUFFICES ASSUME InPage(d), d.overview.status = "ready" PROVE FALSE
      BY DEF OverviewShown
    <3>1. d.watched = TRUE
      BY <1>4 DEF Sound, OverviewKnown
    <3> QED
      BY <1>2, <1>3, <1>6, <3>1 DEF InPage
  <2>3. Onward(detail, d)
    BY <1>1, <1>4, KeptIsOnward
  <2> QED
    BY <1>1, <1>2, <1>3, <1>4, <2>1, <2>2, <2>3, DetailEndsIn
<1> QED
  BY <1>5, <1>6

LEMMA DetailTold ==
  ASSUME DetailInv, DataChanged
  PROVE  DetailInv' /\ Onward(detail, detail')
<1> DEFINE d == [detail EXCEPT !.told = node.data]
           a == LoadsOverview(d, TRUE)
<1>1. /\ detail \in DetailRec /\ Sound(detail) /\ OverviewShown(detail) /\ node \in NodeRec /\ node.data \in Nat
  BY DEF DetailInv, NodeRec
<1>2. /\ node' = node /\ detail' = Rendered(a) /\ InPage(detail)
  BY <1>1 DEF DataChanged, InPage, DetailRec
<1>3. /\ d \in DetailRec /\ d.told = node.data /\ d.latest = detail.latest
      /\ d.started = detail.started /\ d.watched = detail.watched /\ d.overview = detail.overview
      /\ d.turn = detail.turn /\ d.section = detail.section /\ d.requestedAt = detail.requestedAt
      /\ d.request = detail.request /\ d.pending = detail.pending /\ d.settledAt = detail.settledAt
      /\ d.reads = detail.reads /\ d.missed = detail.missed
      /\ d.hass = detail.hass /\ d.sig = detail.sig /\ d.fresh = detail.fresh
  BY <1>1 DEF DetailRec
<1> HIDE DEF d
<1>4. ReadsSound(d) /\ OverviewKnown(d) /\ SectionKnown(d) /\ InPage(d) /\ KeepsFigures(detail, d)
  BY <1>1, <1>2, <1>3 DEF Sound, ReadsSound, OverviewKnown, SectionKnown, InPage, SectionOut, Out, KeepsFigures
<1>5. /\ a \in DetailRec /\ Sound(a) /\ SectionNews(a) /\ KeepsFigures(d, a) /\ Out(a, "overview", a.turn)
  BY <1>1, <1>3, <1>4, OverviewAskedKeeps DEF Sound
<1>6. /\ d.overview.status = "ready" => a.sig = d.hass /\ a.overview = d.overview
      /\ d.overview.status # "ready" => a.overview.status = "loading"
      /\ a.hass = d.hass /\ a.latest = d.latest
  BY <1>1, <1>3, OverviewAsked
<1> HIDE DEF a
<1>7. OverviewShown(a)
  BY <1>1, <1>2, <1>3, <1>5, <1>6 DEF OverviewShown, InPage
<1>8. Onward(detail, a)
  BY <1>1, <1>4, <1>5, KeepsOn, KeptIsOnward
<1> QED
  BY <1>2, <1>5, <1>7, <1>8, DetailRenders

(* An answer behind which the section may have to be read again.                  *)
LEMMA DetailGoes ==
  ASSUME DetailInv, node' = node, NEW g \in BOOLEAN, NEW d \in DetailRec,
         detail' = IF g THEN Rendered(Reloaded(d)) ELSE d,
         Sound(d), OverviewShown(d), d.fresh = FALSE, g => InPage(d), ~g => SectionNews(d), Onward(detail, d)
  PROVE  DetailInv' /\ Onward(detail, detail')
<1>1. CASE g
  <2> DEFINE e == Rendered(Reloaded(d))
  <2>1. /\ e \in DetailRec /\ Sound(e) /\ OverviewShown(e) /\ SectionNews(e) /\ e.fresh = FALSE /\ KeepsFigures(d, e)
    BY <1>1, ReloadedKeeps DEF DetailInv
  <2>2. detail' = e
    BY <1>1
  <2> HIDE DEF e
  <2> QED
    BY <2>1, <2>2, OnwardAndKept, DetailEndsIn
<1>2. CASE ~g
  BY <1>2, DetailEndsIn
<1> QED
  BY <1>1, <1>2

LEMMA DetailOverviewAnswered ==
  ASSUME DetailInv, NEW r \in detail.reads, OverviewAnswered(r)
  PROVE  DetailInv' /\ Onward(detail, detail')
<1> DEFINE rest == [detail EXCEPT !.reads = detail.reads \ {r}]
           Goes(d) == IF r.reload /\ d.started THEN Rendered(Reloaded(d)) ELSE d
<1>1. /\ node \in NodeRec /\ detail \in DetailRec /\ Sound(detail) /\ SectionNews(detail) /\ OverviewShown(detail)
      /\ detail.fresh = FALSE
  BY DEF DetailInv
<1>2. /\ r.what = "overview" /\ r \in ReadOut /\ r.reload \in BOOLEAN /\ r.data \in Nat /\ node.data \in Nat
      /\ detail.started \in BOOLEAN /\ detail.reads \in SUBSET ReadOut /\ node' = node
      /\ detail.overview.data \in Nat /\ detail.overview.mode \in Nat /\ detail.told \in Nat /\ detail.latest \in Nat
  BY <1>1 DEF OverviewAnswered, DetailRec, ReadOut, NodeRec
<1>3. IF r.turn # detail.turn THEN detail' = Goes(rest)
      ELSE \/ \E data \in r.data..node.data : detail' = Goes(Rendered(OverviewRead(rest, r, data)))
           \/ detail' = Goes(OverviewFailed(rest))
  BY DEF OverviewAnswered
<1>4. /\ rest \in DetailRec /\ rest.reads = detail.reads \ {r} /\ rest.started = detail.started
      /\ rest.latest = detail.latest /\ rest.watched = detail.watched /\ rest.overview = detail.overview
      /\ rest.turn = detail.turn /\ rest.section = detail.section /\ rest.requestedAt = detail.requestedAt
      /\ rest.request = detail.request /\ rest.pending = detail.pending /\ rest.settledAt = detail.settledAt
      /\ rest.told = detail.told /\ rest.missed = detail.missed
      /\ rest.hass = detail.hass /\ rest.sig = detail.sig /\ rest.fresh = FALSE
  <2>1. detail.reads \ {r} \in SUBSET ReadOut
    BY <1>2
  <2> QED
    BY <1>1, <2>1 DEF DetailRec
<1> HIDE DEF rest
<1>5. /\ ReadsSound(rest) /\ OverviewKnown(rest) /\ SectionKnown(rest)
      /\ \A q \in rest.reads : q.what = "overview" /\ q.turn = rest.turn =>
           q.data >= rest.overview.data /\ q.data >= rest.told
      /\ ~InPage(rest) => ~Out(rest, "overview", rest.turn)
      /\ ~(r.reload /\ rest.started) => SectionNews(rest)
      /\ KeepsFigures(detail, rest)
  <2>1. ReadsSound(rest) /\ OverviewKnown(rest)
    BY <1>1, <1>4 DEF Sound, ReadsSound, OverviewKnown
  <2>2. \A turn : Out(rest, "section", turn) <=> Out(detail, "section", turn)
    BY <1>2, <1>4 DEF Out
  <2>3. SectionKnown(rest)
    BY <1>1, <1>4, <2>2 DEF Sound, SectionKnown, InPage, SectionOut
  <2>4. ASSUME ~(r.reload /\ rest.started) PROVE SectionNews(rest)
    <3>1. InPage(rest) => (NewsOut(detail) <=> NewsOut(rest))
      BY <1>2, <1>4, <2>4 DEF NewsOut, InPage
    <3>2. SectionOut(rest) => InPage(rest)
      BY <2>3 DEF SectionKnown
    <3> QED
      BY <1>1, <1>4, <3>1, <3>2 DEF SectionNews, SectionOut, InPage
  <2> QED
    BY <1>1, <1>4, <2>1, <2>3, <2>4 DEF Sound, OverviewAwaited, InPage, Out, KeepsFigures
<1>6. CASE r.turn # detail.turn
  <2>1. Out(detail, "overview", detail.turn) => Out(rest, "overview", rest.turn)
    BY <1>4, <1>6 DEF Out
  <2>2. OverviewAwaited(rest)
    BY <1>1, <1>4, <1>5, <2>1 DEF Sound, OverviewAwaited, InPage
  <2>3. OverviewShown(rest)
    BY <1>1, <1>4, <2>1 DEF OverviewShown, InPage, Moved
  <2>4. detail' = Goes(rest)
    BY <1>3, <1>6
  <2>5. Onward(detail, rest)
    BY <1>1, <1>5, KeptIsOnward
  <2> DEFINE g == r.reload /\ rest.started
  <2>6. /\ g \in BOOLEAN /\ detail' = IF g THEN Rendered(Reloaded(rest)) ELSE rest
        /\ g => InPage(rest)
    BY <1>2, <1>4, <2>4 DEF InPage
  <2>7. ~g => SectionNews(rest)
    BY <1>5
  <2> HIDE DEF g, Goes
  <2> QED
    BY <1>2, <1>4, <1>5, <2>2, <2>3, <2>5, <2>6, <2>7, DetailGoes DEF Sound
<1>7. ASSUME r.turn = detail.turn
      PROVE  /\ InPage(detail) /\ InPage(rest)
             /\ \A q \in rest.reads : ~(q.what = "overview" /\ q.turn = rest.turn)
             /\ r.data >= detail.overview.data /\ r.data >= detail.told
  <2>1. Out(detail, "overview", detail.turn)
    BY <1>2, <1>7 DEF Out
  <2>2. \A q \in rest.reads : ~(q.what = "overview" /\ q.turn = rest.turn)
    BY <1>1, <1>2, <1>4, <1>7 DEF Sound, ReadsSound
  <2> QED
    BY <1>1, <1>2, <1>4, <1>7, <2>1, <2>2 DEF Sound, OverviewAwaited, InPage
<1>8. ASSUME r.turn = detail.turn, NEW data \in r.data..node.data,
             detail' = Goes(Rendered(OverviewRead(rest, r, data)))
      PROVE  DetailInv' /\ Onward(detail, detail')
  <2> DEFINE sig == IF r.first THEN rest.hass ELSE rest.sig
             o == [status |-> "ready", mode |-> rest.latest, data |-> data]
             missed == rest.missed \ {"overview"}
             d == [rest EXCEPT !.sig = sig, !.overview = o, !.watched = TRUE, !.hass = rest.latest, !.fresh = TRUE,
                               !.missed = missed]
             e == Rendered(d)
  <2>1. /\ data \in Nat /\ data <= node.data /\ data >= r.data
    BY <1>2
  <2>2. /\ o \in [status : {"loading", "ready", "error"}, mode : Nat, data : Nat]
        /\ o.status = "ready" /\ o.mode = detail.latest /\ o.data = data
        /\ sig \in Nat /\ missed \in SUBSET {"overview", "section", "news"} /\ rest.latest \in Nat
        /\ "overview" \notin missed
        /\ "section" \in missed <=> "section" \in detail.missed
        /\ "news" \in missed <=> "news" \in detail.missed
    BY <1>4, <2>1 DEF DetailRec
  <2>3. OverviewRead(rest, r, data) = d
    BY DEF OverviewRead
  <2> HIDE DEF sig, o, missed
  <2>4. /\ d \in DetailRec /\ d.reads = rest.reads /\ d.started = rest.started
        /\ d.latest = rest.latest /\ d.watched = TRUE /\ d.overview = o
        /\ d.turn = rest.turn /\ d.section = rest.section /\ d.requestedAt = rest.requestedAt
        /\ d.request = rest.request /\ d.pending = rest.pending /\ d.settledAt = rest.settledAt
        /\ d.told = rest.told /\ d.missed = missed
        /\ d.hass = rest.latest /\ d.fresh = TRUE
    BY <1>4, <2>2 DEF DetailRec
  <2> HIDE DEF d
  <2>5. InPage(rest) /\ \A q \in rest.reads : ~(q.what = "overview" /\ q.turn = rest.turn)
    BY <1>7, <1>8
  <2>6. Sound(d)
    <3>1. ReadsSound(d)
      BY <1>5, <2>4 DEF ReadsSound
    <3>2. OverviewKnown(d)
      BY <1>2, <1>4, <1>5, <2>1, <2>2, <2>4 DEF OverviewKnown
    <3>3. OverviewAwaited(d)
      BY <2>2, <2>4, <2>5 DEF OverviewAwaited, InPage
    <3>4. SectionKnown(d)
      BY <1>4, <1>5, <2>2, <2>4 DEF SectionKnown, SectionOut, InPage, Out
    <3> QED
      BY <3>1, <3>2, <3>3, <3>4 DEF Sound
  <2>7. OverviewShown(d)
    <3>1. data >= detail.told
      BY <1>2, <1>7, <1>8, <2>1
    <3> QED
      BY <1>4, <2>2, <2>4, <3>1 DEF OverviewShown, Moved
  <2>8. SectionNews(rest) => SectionNews(d)
    BY <1>4, <2>2, <2>4 DEF SectionNews, InPage, SectionOut, NewsOut
  <2>9. Onward(detail, d)
    <3>1. data >= detail.overview.data /\ detail.latest >= detail.overview.mode
      BY <1>1, <1>2, <1>7, <1>8, <2>1 DEF Sound, OverviewKnown
    <3>2. detail.section.data \in Nat /\ detail.section.readAt \in Nat
      BY <1>1 DEF DetailRec
    <3> QED
      BY <1>4, <2>2, <2>4, <3>1, <3>2 DEF Onward
  <2>10. /\ e \in DetailRec /\ Sound(e) /\ OverviewShown(e) /\ e.fresh = FALSE /\ e.started = d.started
         /\ SectionNews(d) => SectionNews(e)
         /\ KeepsFigures(d, e)
    BY <1>1, <2>4, <2>6, <2>7, RenderedKeeps
  <2>11. detail' = Goes(e)
    BY <1>8, <2>3
  <2> HIDE DEF e
  <2>12. Onward(detail, e)
    BY <2>9, <2>10, OnwardAndKept
  <2> DEFINE g == r.reload /\ e.started
  <2>13. /\ g \in BOOLEAN /\ detail' = IF g THEN Rendered(Reloaded(e)) ELSE e
         /\ g => InPage(e)
    BY <1>2, <1>4, <2>4, <2>10, <2>11 DEF InPage
  <2>14. ~g => SectionNews(e)
    BY <1>5, <2>4, <2>8, <2>10
  <2> HIDE DEF g, Goes
  <2> QED
    BY <1>2, <2>10, <2>12, <2>13, <2>14, DetailGoes
<1>9. ASSUME r.turn = detail.turn, detail' = Goes(OverviewFailed(rest))
      PROVE  DetailInv' /\ Onward(detail, detail')
  <2> DEFINE missed == rest.missed \union {"overview"}
             d == [rest EXCEPT !.missed = missed]
             o == [d.overview EXCEPT !.status = "error"]
             f == [d EXCEPT !.overview = o]
             e == OverviewFailed(rest)
  <2>1. /\ missed \in SUBSET {"overview", "section", "news"} /\ "overview" \in missed
        /\ "section" \in missed <=> "section" \in detail.missed
        /\ "news" \in missed <=> "news" \in detail.missed
    BY <1>4 DEF DetailRec
  <2>2. e = IF d.overview.status = "ready" THEN d ELSE Rendered(f)
    BY DEF OverviewFailed
  <2> HIDE DEF missed, e
  <2>3. /\ d \in DetailRec /\ d.reads = rest.reads /\ d.started = rest.started
        /\ d.latest = rest.latest /\ d.watched = rest.watched /\ d.overview = rest.overview
        /\ d.turn = rest.turn /\ d.section = rest.section /\ d.requestedAt = rest.requestedAt
        /\ d.request = rest.request /\ d.pending = rest.pending /\ d.settledAt = rest.settledAt
        /\ d.told = rest.told /\ d.missed = missed
        /\ d.hass = rest.hass /\ d.sig = rest.sig /\ d.fresh = FALSE
    BY <1>4, <2>1 DEF DetailRec
  <2> HIDE DEF d
  <2>4. InPage(rest) /\ \A q \in rest.reads : ~(q.what = "overview" /\ q.turn = rest.turn)
    BY <1>7, <1>9
  <2>5. ReadsSound(d) /\ OverviewKnown(d) /\ SectionKnown(d) /\ (SectionNews(rest) => SectionNews(d))
    BY <1>4, <1>5, <2>1, <2>3 DEF ReadsSound, OverviewKnown, SectionKnown, SectionNews, InPage, SectionOut, NewsOut, Out
  <2>6. /\ e \in DetailRec /\ Sound(e) /\ OverviewShown(e) /\ e.fresh = FALSE /\ e.started = d.started
        /\ SectionNews(d) => SectionNews(e)
        /\ Onward(detail, e)
    <3>1. CASE d.overview.status = "ready"
      <4>1. e = d
        BY <2>2, <3>1
      <4>2. OverviewAwaited(d)
        BY <2>3, <2>4, <3>1 DEF OverviewAwaited, InPage
      <4>3. OverviewShown(d)
        BY <1>1, <1>4, <2>1, <2>3 DEF OverviewShown, InPage
      <4>4. Onward(detail, d)
        BY <1>1, <1>4, <2>3, KeptIsOnward DEF KeepsFigures
      <4> QED
        BY <2>3, <2>5, <4>1, <4>2, <4>3, <4>4 DEF Sound
    <3>2. CASE d.overview.status # "ready"
      <4>1. e = Rendered(f)
        BY <2>2, <3>2
      <4>2. /\ o \in [status : {"loading", "ready", "error"}, mode : Nat, data : Nat]
            /\ o.status = "error" /\ o.mode = rest.overview.mode /\ o.data = rest.overview.data
        BY <2>3 DEF DetailRec
      <4> HIDE DEF o
      <4>3. /\ f \in DetailRec /\ f.reads = d.reads /\ f.started = d.started
            /\ f.latest = d.latest /\ f.watched = d.watched /\ f.overview = o
            /\ f.turn = d.turn /\ f.section = d.section /\ f.requestedAt = d.requestedAt
            /\ f.request = d.request /\ f.pending = d.pending /\ f.settledAt = d.settledAt
            /\ f.told = d.told /\ f.missed = d.missed
        BY <2>3, <4>2 DEF DetailRec
      <4> HIDE DEF f
      <4>4. ReadsSound(f) /\ OverviewKnown(f) /\ SectionKnown(f) /\ (SectionNews(d) => SectionNews(f))
        BY <1>4, <2>3, <2>5, <4>2, <4>3
           DEF ReadsSound, OverviewKnown, SectionKnown, SectionNews, InPage, SectionOut, NewsOut, Out
      <4>5. OverviewAwaited(f) /\ OverviewShown(f)
        BY <2>3, <2>4, <4>2, <4>3 DEF OverviewAwaited, OverviewShown, InPage
      <4>6. Onward(detail, f)
        <5>1. detail.section.data \in Nat /\ detail.section.readAt \in Nat /\ detail.overview.status # "ready"
          BY <1>1, <1>4, <2>3, <3>2 DEF DetailRec
        <5> QED
          BY <1>4, <2>3, <4>3, <5>1 DEF Onward
      <4> QED
        BY <1>1, <4>1, <4>3, <4>4, <4>5, <4>6, RenderedKeeps, OnwardAndKept DEF Sound
    <3> QED
      BY <3>1, <3>2
  <2>7. detail' = Goes(e)
    BY <1>9 DEF e
  <2> DEFINE g == r.reload /\ e.started
  <2>8. /\ g \in BOOLEAN /\ detail' = IF g THEN Rendered(Reloaded(e)) ELSE e
        /\ g => InPage(e)
    BY <1>2, <1>4, <2>3, <2>6, <2>7 DEF InPage
  <2>9. ~g => SectionNews(e)
    BY <1>5, <2>3, <2>5, <2>6
  <2> HIDE DEF g, Goes
  <2> QED
    BY <1>2, <2>6, <2>8, <2>9, DetailGoes
<1> QED
  BY <1>3, <1>6, <1>8, <1>9

LEMMA DetailSectionAnswered ==
  ASSUME DetailInv, NEW r \in detail.reads, SectionAnswered(r)
  PROVE  DetailInv' /\ Onward(detail, detail')
<1> DEFINE rest == [detail EXCEPT !.reads = detail.reads \ {r}]
<1>1. /\ node \in NodeRec /\ detail \in DetailRec /\ Sound(detail) /\ SectionNews(detail) /\ OverviewShown(detail)
      /\ detail.fresh = FALSE
  BY DEF DetailInv
<1>2. /\ r.what = "section" /\ r \in ReadOut /\ r.data \in Nat /\ r.at \in Nat /\ r.turn \in Nat
      /\ node.data \in Nat /\ node.now \in Nat /\ detail.reads \in SUBSET ReadOut /\ node' = node
      /\ detail.section.data \in Nat /\ detail.section.readAt \in Nat /\ detail.told \in Nat
      /\ detail.requestedAt \in Nat
  BY <1>1 DEF SectionAnswered, DetailRec, ReadOut, NodeRec
<1>3. IF r.turn # detail.request THEN detail' = rest
      ELSE \/ \E data \in r.data..node.data, date \in Day(r.at)..Day(node.now) :
                detail' = Rendered(SectionRead(rest, r, data, date))
           \/ detail' = SectionFailed(rest)
  BY DEF SectionAnswered
<1>4. /\ rest \in DetailRec /\ rest.reads = detail.reads \ {r} /\ rest.started = detail.started
      /\ rest.latest = detail.latest /\ rest.watched = detail.watched /\ rest.overview = detail.overview
      /\ rest.turn = detail.turn /\ rest.section = detail.section /\ rest.requestedAt = detail.requestedAt
      /\ rest.request = detail.request /\ rest.pending = detail.pending /\ rest.settledAt = detail.settledAt
      /\ rest.told = detail.told /\ rest.missed = detail.missed /\ rest.kind = detail.kind
      /\ rest.hass = detail.hass /\ rest.sig = detail.sig /\ rest.fresh = FALSE
  <2>1. detail.reads \ {r} \in SUBSET ReadOut
    BY <1>2
  <2> QED
    BY <1>1, <2>1 DEF DetailRec
<1> HIDE DEF rest
<1>5. /\ ReadsSound(rest) /\ OverviewKnown(rest) /\ OverviewAwaited(rest) /\ OverviewShown(rest)
      /\ KeepsFigures(detail, rest)
      /\ NewsOut(rest) <=> NewsOut(detail)
  <2>1. ReadsSound(rest) /\ OverviewKnown(rest)
    BY <1>1, <1>4 DEF Sound, ReadsSound, OverviewKnown
  <2>2. \A turn : Out(rest, "overview", turn) <=> Out(detail, "overview", turn)
    BY <1>2, <1>4 DEF Out
  <2>3. OverviewAwaited(rest) /\ OverviewShown(rest)
    BY <1>1, <1>4, <2>2 DEF Sound, OverviewAwaited, OverviewShown, InPage, Moved
  <2>4. r.reload = FALSE
    BY <1>1, <1>2 DEF Sound, ReadsSound
  <2>5. NewsOut(rest) <=> NewsOut(detail)
    BY <1>4, <2>4 DEF NewsOut
  <2> QED
    BY <1>4, <2>1, <2>3, <2>5 DEF KeepsFigures
<1>6. CASE r.turn # detail.request
  <2>1. Out(detail, "section", detail.request) <=> Out(rest, "section", rest.request)
    BY <1>4, <1>6 DEF Out
  <2>2. SectionKnown(rest)
    BY <1>1, <1>4, <2>1 DEF Sound, SectionKnown, InPage, SectionOut
  <2>3. SectionNews(rest)
    BY <1>1, <1>4, <1>5 DEF SectionNews, InPage, SectionOut
  <2>4. Onward(detail, rest)
    BY <1>1, <1>5, KeptIsOnward
  <2>5. detail' = rest
    BY <1>3, <1>6
  <2> QED
    BY <1>2, <1>4, <1>5, <2>2, <2>3, <2>4, <2>5, DetailEndsIn DEF Sound
<1>7. ASSUME r.turn = detail.request
      PROVE  /\ InPage(rest) /\ rest.section.status \in {"loading", "ready"}
             /\ \A q \in rest.reads : ~(q.what = "section" /\ q.turn = rest.request)
             /\ r.data >= detail.section.data /\ r.at >= detail.section.readAt
             /\ r.at = detail.requestedAt /\ r.data <= node.data /\ r.at <= node.now
             /\ NewsOut(detail) \/ r.data >= detail.told
  <2>1. Out(detail, "section", detail.request)
    BY <1>2, <1>7 DEF Out
  <2>2. SectionOut(detail)
    BY <1>1, <2>1 DEF Sound, SectionKnown
  <2>3. InPage(detail) /\ detail.section.status \in {"loading", "ready"}
    BY <1>1, <2>2 DEF Sound, SectionKnown
  <2>4. \A q \in rest.reads : ~(q.what = "section" /\ q.turn = rest.request)
    BY <1>1, <1>2, <1>4, <1>7 DEF Sound, ReadsSound
  <2>5. /\ r.data >= detail.section.data /\ r.at >= detail.section.readAt /\ r.at = detail.requestedAt
        /\ r.data <= node.data /\ r.at <= node.now
    BY <1>1, <1>2, <1>7 DEF Sound, SectionKnown, ReadsSound
  <2>6. NewsOut(detail) \/ r.data >= detail.told
    BY <1>1, <1>2, <1>7, <2>2 DEF SectionNews
  <2> QED
    BY <1>4, <2>3, <2>4, <2>5, <2>6 DEF InPage
<1> DEFINE set == [rest EXCEPT !.pending = FALSE, !.settledAt = rest.requestedAt]
<1>8. /\ Settled(rest) = set
      /\ set \in DetailRec /\ set.reads = rest.reads /\ set.started = rest.started
      /\ set.latest = rest.latest /\ set.watched = rest.watched /\ set.overview = rest.overview
      /\ set.turn = rest.turn /\ set.section = rest.section /\ set.requestedAt = rest.requestedAt
      /\ set.request = rest.request /\ set.pending = FALSE /\ set.settledAt = rest.requestedAt
      /\ set.told = rest.told /\ set.missed = rest.missed /\ set.kind = rest.kind
      /\ set.hass = rest.hass /\ set.sig = rest.sig /\ set.fresh = FALSE
  BY <1>4 DEF DetailRec, Settled
<1> HIDE DEF set
<1>9. ASSUME r.turn = detail.request, NEW data \in r.data..node.data, NEW date \in Day(r.at)..Day(node.now),
             detail' = Rendered(SectionRead(rest, r, data, date))
      PROVE  DetailInv' /\ Onward(detail, detail')
  <2> DEFINE c == [status |-> "ready", data |-> data, day |-> date, readAt |-> r.at]
             missed == set.missed \ {"section", "news"}
             d == [set EXCEPT !.section = c, !.missed = missed]
  <2>1. Day(r.at) \in Nat /\ Day(node.now) \in Nat
    BY DEF Day
  <2>2. /\ data \in Nat /\ data <= node.data /\ data >= r.data /\ date \in Nat
    BY <1>2, <2>1
  <2>3. /\ c \in [status : {"none", "loading", "ready", "error"}, data : Nat, day : Nat, readAt : Nat]
        /\ c.status = "ready" /\ c.data = data /\ c.readAt = r.at
        /\ missed \in SUBSET {"overview", "section", "news"}
        /\ "section" \notin missed
        /\ "overview" \in missed <=> "overview" \in rest.missed
    BY <1>2, <1>8, <2>2 DEF DetailRec
  <2>4. SectionRead(rest, r, data, date) = d
    BY <1>8 DEF SectionRead
  <2> HIDE DEF c, missed
  <2>5. /\ d \in DetailRec /\ d.reads = rest.reads /\ d.started = rest.started
        /\ d.latest = rest.latest /\ d.watched = rest.watched /\ d.overview = rest.overview
        /\ d.turn = rest.turn /\ d.section = c /\ d.requestedAt = rest.requestedAt
        /\ d.request = rest.request /\ d.pending = FALSE /\ d.settledAt = rest.requestedAt
        /\ d.told = rest.told /\ d.missed = missed
        /\ d.hass = rest.hass /\ d.sig = rest.sig /\ d.fresh = FALSE
    BY <1>8, <2>3 DEF DetailRec
  <2> HIDE DEF d
  <2>6. /\ InPage(rest)
        /\ \A q \in rest.reads : ~(q.what = "section" /\ q.turn = rest.request)
        /\ r.data >= detail.section.data /\ r.at >= detail.section.readAt
        /\ r.at = detail.requestedAt /\ r.data <= node.data /\ r.at <= node.now
        /\ NewsOut(detail) \/ r.data >= detail.told
    BY <1>7, <1>9
  <2>7. data >= detail.section.data /\ (NewsOut(detail) \/ data >= detail.told)
    BY <1>2, <2>2, <2>6
  <2>8. ReadsSound(d) /\ OverviewKnown(d) /\ OverviewAwaited(d) /\ OverviewShown(d)
    <3>1. ReadsSound(d) /\ OverviewKnown(d)
      BY <1>5, <2>5 DEF ReadsSound, OverviewKnown
    <3>2. OverviewAwaited(d)
      BY <1>5, <2>5 DEF OverviewAwaited, InPage, Out
    <3>3. OverviewShown(d)
      BY <1>4, <1>5, <2>3, <2>5 DEF OverviewShown, InPage, Moved, Out
    <3> QED
      BY <3>1, <3>2, <3>3
  <2>9. SectionKnown(d)
    BY <1>4, <2>2, <2>3, <2>5, <2>6 DEF SectionKnown, SectionOut, InPage, Out
  <2>10. SectionNews(d)
    BY <1>4, <1>5, <2>3, <2>5, <2>6, <2>7 DEF SectionNews, SectionOut, InPage, NewsOut
  <2>11. Onward(detail, d)
    <3>1. detail.overview.mode \in Nat /\ detail.overview.data \in Nat
      BY <1>1 DEF DetailRec
    <3> QED
      BY <1>4, <2>3, <2>5, <2>6, <2>7, <3>1 DEF Onward
  <2> QED
    BY <1>2, <1>9, <2>4, <2>5, <2>8, <2>9, <2>10, <2>11, DetailRenders DEF Sound
<1>10. ASSUME r.turn = detail.request, detail' = SectionFailed(rest)
       PROVE  DetailInv' /\ Onward(detail, detail')
  <2> DEFINE missed == set.missed \union {"section"}
             d == [set EXCEPT !.missed = missed]
             c == [NoSection EXCEPT !.status = "error"]
             f == [d EXCEPT !.section = c]
  <2>1. /\ missed \in SUBSET {"overview", "section", "news"} /\ "section" \in missed
        /\ "overview" \in missed <=> "overview" \in rest.missed
    BY <1>8 DEF DetailRec
  <2>2. detail' = IF set.kind # "plan" /\ set.section.status = "ready" THEN d ELSE Rendered(f)
    <3>1. /\ d = [set EXCEPT !.missed = @ \union {"section"}] /\ f = [d EXCEPT !.section = c]
          /\ d.kind = set.kind /\ d.section = set.section
      BY <1>8 DEF DetailRec
    <3> HIDE DEF d, f, c, missed
    <3>2. SectionFailed(rest) = IF d.kind # "plan" /\ d.section.status = "ready" THEN d
                                ELSE Rendered([d EXCEPT !.section = c])
      BY <1>8, <3>1 DEF SectionFailed, c
    <3> QED
      BY <1>10, <3>1, <3>2
  <2> HIDE DEF missed
  <2>3. /\ d \in DetailRec /\ d.reads = rest.reads /\ d.started = rest.started
        /\ d.latest = rest.latest /\ d.watched = rest.watched /\ d.overview = rest.overview
        /\ d.turn = rest.turn /\ d.section = rest.section /\ d.requestedAt = rest.requestedAt
        /\ d.request = rest.request /\ d.pending = FALSE /\ d.settledAt = rest.requestedAt
        /\ d.told = rest.told /\ d.missed = missed /\ d.kind = set.kind /\ set.section = rest.section
        /\ d.hass = rest.hass /\ d.sig = rest.sig /\ d.fresh = FALSE
    BY <1>8, <2>1 DEF DetailRec
  <2> HIDE DEF d
  <2>4. /\ InPage(rest) /\ \A q \in rest.reads : ~(q.what = "section" /\ q.turn = rest.request)
    BY <1>7, <1>10
  <2>5. ReadsSound(d) /\ OverviewKnown(d) /\ OverviewAwaited(d) /\ OverviewShown(d)
    <3>1. ReadsSound(d) /\ OverviewKnown(d)
      BY <1>5, <2>3 DEF ReadsSound, OverviewKnown
    <3>2. OverviewAwaited(d)
      BY <1>5, <2>3 DEF OverviewAwaited, InPage, Out
    <3>3. OverviewShown(d)
      BY <1>4, <1>5, <2>1, <2>3 DEF OverviewShown, InPage, Moved, Out
    <3> QED
      BY <3>1, <3>2, <3>3
  <2>6. CASE d.kind # "plan" /\ d.section.status = "ready"
    <3>1. detail' = d
      BY <2>2, <2>3, <2>6
    <3>2. SectionKnown(d) /\ SectionNews(d)
      BY <1>1, <1>4, <2>1, <2>3, <2>4, <2>6 DEF Sound, SectionKnown, SectionNews, SectionOut, InPage, Out
    <3>3. Onward(detail, d)
      BY <1>1, <1>4, <2>3, KeptIsOnward DEF KeepsFigures
    <3> QED
      BY <1>2, <2>3, <2>5, <3>1, <3>2, <3>3, DetailEndsIn DEF Sound
  <2>7. CASE ~(d.kind # "plan" /\ d.section.status = "ready")
    <3>1. detail' = Rendered(f)
      BY <2>2, <2>3, <2>7
    <3>2. /\ c \in [status : {"none", "loading", "ready", "error"}, data : Nat, day : Nat, readAt : Nat]
          /\ c.status = "error" /\ c.data = 0 /\ c.readAt = 0
      BY DEF NoSection
    <3> HIDE DEF c
    <3>3. /\ f \in DetailRec /\ f.reads = d.reads /\ f.started = d.started
          /\ f.latest = d.latest /\ f.watched = d.watched /\ f.overview = d.overview
          /\ f.turn = d.turn /\ f.section = c /\ f.requestedAt = d.requestedAt
          /\ f.request = d.request /\ f.pending = FALSE /\ f.settledAt = d.settledAt
          /\ f.told = d.told /\ f.missed = d.missed /\ f.hass = d.hass /\ f.sig = d.sig /\ f.fresh = d.fresh
      BY <2>3, <3>2 DEF DetailRec
    <3> HIDE DEF f
    <3>4. ReadsSound(f) /\ OverviewKnown(f) /\ OverviewAwaited(f) /\ OverviewShown(f)
      BY <2>3, <2>5, <3>3 DEF ReadsSound, OverviewKnown, OverviewAwaited, OverviewShown, InPage, Moved, Out
    <3>5. SectionKnown(f) /\ SectionNews(f)
      BY <1>2, <2>3, <2>4, <3>2, <3>3 DEF SectionKnown, SectionNews, SectionOut, InPage, Out
    <3>6. Onward(detail, f)
      <4>1. detail.overview.mode \in Nat /\ detail.overview.data \in Nat
        BY <1>1 DEF DetailRec
      <4> QED
        BY <1>4, <2>3, <3>2, <3>3, <4>1 DEF Onward
    <3> QED
      BY <1>2, <3>1, <3>3, <3>4, <3>5, <3>6, DetailRenders DEF Sound
  <2> QED
    BY <2>6, <2>7
<1> QED
  BY <1>3, <1>6, <1>9, <1>10

LEMMA DetailStarts ==
  ASSUME DetailInit
  PROVE  DetailInv
<1>1. node \in NodeRec /\ node.mode = 0 /\ node.data = 0 /\ node.now = 0
  BY DEF DetailInit, NodeRec
<1>2. PICK kind \in {"today", "rolling", "plan"} :
         detail = [kind |-> kind, started |-> FALSE, visible |-> TRUE, open |-> FALSE,
                   latest |-> 0, hass |-> 0, fresh |-> FALSE, watched |-> FALSE,
                   overview |-> [status |-> "loading", mode |-> 0, data |-> 0],
                   sig |-> 0, turn |-> 0,
                   section |-> NoSection, requestedAt |-> 0, request |-> 0, pending |-> FALSE,
                   settledAt |-> 0, boundary |-> 0, reads |-> {}, told |-> 0, missed |-> {}]
  BY DEF DetailInit
<1>3. /\ NoSection \in [status : {"none", "loading", "ready", "error"}, data : Nat, day : Nat, readAt : Nat]
      /\ NoSection.status = "none" /\ NoSection.data = 0 /\ NoSection.readAt = 0
  BY DEF NoSection
<1>4. /\ detail \in DetailRec /\ detail.started = FALSE /\ detail.latest = 0 /\ detail.fresh = FALSE
      /\ detail.watched = FALSE /\ detail.overview.status = "loading" /\ detail.overview.mode = 0
      /\ detail.overview.data = 0 /\ detail.section = NoSection /\ detail.pending = FALSE
      /\ detail.reads = {} /\ detail.told = 0
  BY <1>2, <1>3 DEF DetailRec
<1>5. ReadsSound(detail) /\ OverviewKnown(detail) /\ OverviewAwaited(detail)
  BY <1>1, <1>4 DEF ReadsSound, OverviewKnown, OverviewAwaited, InPage, Out
<1>6. SectionKnown(detail) /\ SectionNews(detail) /\ OverviewShown(detail)
  BY <1>1, <1>3, <1>4 DEF SectionKnown, SectionNews, OverviewShown, InPage, SectionOut, Out
<1> QED
  BY <1>1, <1>4, <1>5, <1>6 DEF DetailInv, Sound

LEMMA DetailGoesOn ==
  ASSUME DetailInv, [DetailNext]_detailVars
  PROVE  DetailInv' /\ Onward(detail, detail')
<1>1. CASE UNCHANGED detailVars
  <2>1. node \in NodeRec /\ node' = node /\ detail' = detail
    BY <1>1 DEF detailVars, DetailInv
  <2>2. node.mode <= node'.mode /\ node.data <= node'.data /\ node.now <= node'.now
    BY <2>1 DEF NodeRec
  <2> QED
    BY <2>1, <2>2, NodeGrows
<1>2. CASE DetailNext
  BY <1>2, DetailEnters, DetailLeaves, DetailToggles, DetailRetriesOverview, DetailRetriesSection, DetailWaits,
     DetailTold, DetailTicks, DetailTurnsPage, DetailPushed, DetailOverviewAnswered, DetailSectionAnswered
     DEF DetailNext
<1> QED
  BY <1>1, <1>2

LEMMA DetailInvGives ==
  ASSUME DetailInv
  PROVE  DetailInvariant
<1>1. DetailTypeOK
  BY DEF DetailInv, DetailRec, DetailTypeOK
<1>2. NeverStuck
  BY DEF DetailInv, Sound, OverviewAwaited, SectionKnown, InPage, SectionOut, Out, NeverStuck, Awaited, DetailRec
<1>3. DetailCatchesUp
  <2> SUFFICES ASSUME detail.started, detail.reads = {}
               PROVE  /\ detail.overview.status = "ready" /\ "overview" \notin detail.missed
                           => detail.overview.mode = detail.latest /\ detail.overview.data >= detail.told
                      /\ detail.section.status = "ready" /\ {"section", "news"} \cap detail.missed = {}
                           => detail.section.data >= detail.told
    BY DEF DetailCatchesUp
  <2>1. InPage(detail) /\ ~NewsOut(detail) /\ \A what, turn : ~Out(detail, what, turn)
    BY DEF InPage, NewsOut, Out, DetailInv, DetailRec
  <2>2. ~SectionOut(detail)
    BY <2>1 DEF DetailInv, Sound, SectionKnown
  <2> QED
    BY <2>1, <2>2 DEF DetailInv, SectionNews, OverviewShown, Moved
<1>4. AgeIsKnown
  BY DEF DetailInv, Sound, SectionKnown, SectionOut, AgeIsKnown, DetailRec
<1> QED
  BY <1>1, <1>2, <1>3, <1>4 DEF DetailInvariant

----------------------------------------------------------------------------
(* The solar inspector.                                                           *)

(* A set of slots that ends has a last one.                                       *)
LEMMA LastIsPicked ==
  ASSUME NEW last \in Nat, NEW slots \in SUBSET (0..last), slots # {}
  PROVE  LastOf(slots) \in slots
<1> DEFINE below == {last - s : s \in slots}
<1>1. below \in SUBSET Nat /\ below # {}
  <2>1. \A s \in slots : last - s \in Nat
    OBVIOUS
  <2> QED
    BY <2>1
<1>2. PICK least \in below : \A other \in below : ~(other < least)
  <2>1. \E x \in below : \A y \in below : ~(<<y, x>> \in OpToRel(<, Nat))
    BY <1>1, WFMin, NatLessThanWellFounded
  <2> HIDE DEF below
  <2> QED
    BY <1>1, <2>1 DEF OpToRel
<1>3. PICK top \in slots : least = last - top
  BY <1>2
<1>4. \A s \in slots : last - s \in below
  OBVIOUS
<1> HIDE DEF below
<1>5. \A s \in slots : top >= s
  BY <1>2, <1>3, <1>4
<1>6. Max(slots) \in slots
  BY <1>3, <1>5 DEF Max
<1> QED
  BY <1>6 DEF LastOf

LEMMA RestIsLess ==
  ASSUME NEW a \in Nat, NEW m \in Nat \ {0}
  PROVE  a % m \in 0..a
<1>1. a = m * (a \div m) + (a % m) /\ a % m \in Nat /\ a % m < m /\ a \div m \in Int
  OBVIOUS
<1>2. a \div m >= 0
  BY <1>1
<1>3. m * (a \div m) >= 0
  BY <1>1, <1>2
<1> QED
  BY <1>1, <1>3

LEMMA NilIsNoSlot ==
  ASSUME NEW last \in Nat, NEW slots \in SUBSET (0..last)
  PROVE  Nil \notin slots /\ Nil \notin 0..last
<1>1. \A s \in 0..last : s \in Int
  OBVIOUS
<1>2. Nil \notin 0..last
  BY <1>1, NilAssumption
<1> QED
  BY <1>2

(* What is picked out of a row.                                                   *)
Picks(last) == [slots : SUBSET (0..last), focus : 0..last \union {Nil}, anchor : 0..last \union {Nil}]

LEMMA PickedHolds ==
  ASSUME NEW last \in Nat, NEW row \in SUBSET (0..last), NEW picked \in Picks(last), SelectionHolds(picked),
         NEW slot \in Int, NEW how
  PROVE  LET e == Picked(row, picked, slot, how)
         IN  e \in Picks(last) /\ SelectionHolds(e) /\ e.slots \subseteq picked.slots \union row
<1> DEFINE e == Picked(row, picked, slot, how)
<1>1. /\ picked.slots \in SUBSET (0..last) /\ picked.focus \in 0..last \union {Nil}
      /\ picked.anchor \in 0..last \union {Nil}
  BY DEF Picks
<1>2. CASE slot \notin row
  BY <1>2 DEF Picked
<1>3. CASE slot \in row
  <2>0. slot \in 0..last /\ slot # Nil
    BY <1>3, NilAssumption
  <2>1. CASE how = "extend" /\ picked.anchor \in row
    <3> DEFINE slots == picked.slots \union {s \in row : \/ picked.anchor <= s /\ s <= slot
                                                         \/ slot <= s /\ s <= picked.anchor}
    <3>1. e = [picked EXCEPT !.slots = slots, !.focus = slot]
      BY <1>3, <2>1 DEF Picked, Extended
    <3>2. picked.anchor # Nil /\ picked.anchor \in 0..last
      BY <2>1, NilAssumption
    <3>3. /\ slots \in SUBSET (0..last) /\ slot \in slots /\ picked.anchor \in slots
          /\ slots \subseteq picked.slots \union row
      <4>1. picked.anchor \in picked.slots
        BY <3>2 DEF SelectionHolds
      <4>2. slot \in Int /\ picked.anchor \in Int
        BY <3>2
      <4>3. slot \in slots
        BY <1>3, <4>2
      <4> QED
        BY <1>1, <4>1, <4>3
    <3> HIDE DEF slots
    <3>4. /\ e \in Picks(last) /\ e.slots = slots /\ e.focus = slot /\ e.anchor = picked.anchor
      BY <1>1, <2>0, <3>1, <3>3 DEF Picks
    <3> QED
      BY <2>0, <3>2, <3>3, <3>4 DEF SelectionHolds
  <2>2. CASE ~(how = "extend" /\ picked.anchor \in row) /\ how = "toggle" /\ slot \in picked.slots
    <3> DEFINE rest == picked.slots \ {slot}
               focus == IF picked.focus = slot THEN LastOf(rest) ELSE picked.focus
               anchor == IF rest = {} THEN Nil ELSE focus
    <3>1. e = [slots |-> rest, focus |-> focus, anchor |-> anchor]
      BY <1>3, <2>2 DEF Picked, Toggled
    <3>2. rest \in SUBSET (0..last) /\ rest \subseteq picked.slots
      BY <1>1
    <3>3. rest # {} => focus \in rest
      BY <1>1, <2>2, <3>2, LastIsPicked DEF SelectionHolds
    <3>4. rest = {} => focus = Nil
      BY <1>1, <2>2 DEF SelectionHolds, LastOf
    <3> HIDE DEF rest, focus
    <3>5. rest # {} => focus # Nil /\ focus \in 0..last
      BY <3>2, <3>3, NilIsNoSlot
    <3> QED
      BY <3>1, <3>2, <3>3, <3>4, <3>5 DEF Picks, SelectionHolds
  <2>3. CASE ~(how = "extend" /\ picked.anchor \in row) /\ how = "toggle" /\ slot \notin picked.slots
    <3>1. e = [slots |-> picked.slots \union {slot}, focus |-> slot, anchor |-> slot]
      BY <1>3, <2>3 DEF Picked, Toggled
    <3> HIDE DEF e
    <3>2. picked.slots \union {slot} \in SUBSET (0..last)
      BY <1>1, <2>0
    <3>3. e \in Picks(last)
      BY <2>0, <3>1, <3>2 DEF Picks
    <3>4. e.slots = picked.slots \union {slot} /\ e.focus = slot /\ e.anchor = slot
      BY <3>1
    <3> QED
      BY <1>3, <2>0, <3>3, <3>4 DEF SelectionHolds, e
  <2>4. CASE ~(how = "extend" /\ picked.anchor \in row) /\ how # "toggle"
    <3>1. e = [slots |-> {slot}, focus |-> slot, anchor |-> slot]
      BY <1>3, <2>4 DEF Picked, Only
    <3> HIDE DEF e
    <3>2. e \in Picks(last)
      BY <2>0, <3>1 DEF Picks
    <3>3. e.slots = {slot} /\ e.focus = slot /\ e.anchor = slot
      BY <3>1
    <3> QED
      BY <1>3, <2>0, <3>2, <3>3 DEF SelectionHolds, e
  <2> QED
    BY <2>1, <2>2, <2>3, <2>4
<1> QED
  BY <1>2, <1>3

LEMMA RegriddedHolds ==
  ASSUME NEW last \in Nat, NEW row \in SUBSET (0..last), NEW picked, NEW width
  PROVE  LET e == Regridded(row, picked, width)
         IN  e \in Picks(last) /\ SelectionHolds(e) /\ e.slots \subseteq row
<1> DEFINE moved(s) == s - (s % width)
           slots == {moved(s) : s \in picked.slots} \intersect row
           Kept(s) == s # Nil /\ moved(s) \in slots
           focus == IF Kept(picked.focus) THEN moved(picked.focus) ELSE LastOf(slots)
           anchor == IF Kept(picked.anchor) THEN moved(picked.anchor) ELSE focus
           e == [slots |-> slots, focus |-> focus, anchor |-> anchor]
<1>1. Regridded(row, picked, width) = e
  BY DEF Regridded
<1>2. slots \in SUBSET (0..last) /\ slots \subseteq row
  OBVIOUS
<1>3. slots # {} => LastOf(slots) \in slots
  <2> HIDE DEF slots
  <2> QED
    BY <1>2, LastIsPicked
<1>4. slots = {} => LastOf(slots) = Nil
  BY DEF LastOf
<1> HIDE DEF moved, slots
<1>5. /\ slots # {} => focus \in slots /\ anchor \in slots
      /\ slots = {} => focus = Nil /\ anchor = Nil
  BY <1>3, <1>4
<1> HIDE DEF focus, anchor, Kept
<1>6. Nil \notin slots
  BY <1>2, NilIsNoSlot
<1>7. e \in Picks(last) /\ e.slots = slots /\ e.focus = focus /\ e.anchor = anchor
  BY <1>2, <1>5 DEF Picks
<1> HIDE DEF e
<1> QED
  BY <1>1, <1>2, <1>5, <1>6, <1>7 DEF SelectionHolds

LEMMA NowhereHolds == \A last \in Nat : Nowhere \in Picks(last) /\ SelectionHolds(Nowhere) /\ Nowhere.slots = {}
BY DEF Nowhere, Picks, SelectionHolds

LEMMA OnlyHolds ==
  ASSUME NEW last \in Nat, NEW slot \in 0..last
  PROVE  Only(slot) \in Picks(last) /\ SelectionHolds(Only(slot)) /\ Only(slot).slots = {slot}
BY NilAssumption DEF Only, Picks, SelectionHolds

(* The calendar.                                                                  *)
Days == 1..Horizon

LEMMA DaysAre ==
  /\ Horizon \in Nat /\ Today \in Nat /\ HistoryFloor \in Nat /\ MonthLen \in Nat \ {0} /\ YearLen \in Nat \ {0}
  /\ Units \in Nat \ {0}
  /\ Today \in Days /\ HistoryFloor \in Days /\ Horizon \in Days
BY DaysAssumption DEF Days

LEMMA MonthsAreDays ==
  ASSUME NEW d \in Days
  PROVE  Month(d) \in Days /\ Year(d) \in Days /\ Month(d) <= d /\ Year(d) <= d
<1>1. d \in Nat /\ d - 1 \in Nat /\ 1 <= d /\ d <= Horizon /\ Horizon \in Nat
  BY DaysAre DEF Days
<1>2. (d - 1) % MonthLen \in 0..(d - 1) /\ (d - 1) % YearLen \in 0..(d - 1)
  BY <1>1, DaysAre, RestIsLess
<1> HIDE DEF Days
<1>3. d - ((d - 1) % MonthLen) \in 1..Horizon /\ d - ((d - 1) % YearLen) \in 1..Horizon
      /\ d - ((d - 1) % MonthLen) <= d /\ d - ((d - 1) % YearLen) <= d
  BY <1>1, <1>2
<1> QED
  BY <1>3 DEF Month, Year, Days

LEMMA SpansAre ==
  ASSUME NEW mode \in {"day", "month", "year"}, NEW d \in Days
  PROVE  /\ SpanOf(mode, d) \in SpanKeys
         /\ SpanOf(mode, d).bucket = "slot" <=> mode = "day"
BY MonthsAreDays DEF SpanOf, SpanKeys, Days

LEMMA GridIs == \A width \in {1, 2} : Grid(width) \in SUBSET (0..Units)
BY DaysAre DEF Grid

(* The view, the reads under way, and what holds each of their answers.           *)
Views == [mode : {"day", "month", "year"}, date : Days, width : {1, 2}, slots : Picks(Units), buckets : Picks(Horizon)]
Flights == [key : SpanKeys, id : Nat, at : Nat]
Requests == [key : SpanKeys, id : Nat]
DayPayloads == [date : Days, version : Nat]
SpanPayloads == [bucket : {"day", "month"}, start : Days, version : Nat]
DayHolders == [payload : DayPayloads \union {Nil}, stale : BOOLEAN, loading : BOOLEAN, error : BOOLEAN,
               request : Requests \union {Nil}]
SpanHolders == [shown : SpanPayloads \union {Nil}, loading : BOOLEAN, error : BOOLEAN, request : Requests \union {Nil}]

ViewHolds(v) ==
  /\ v \in Views
  /\ v.slots.slots \subseteq Grid(v.width) /\ SelectionHolds(v.slots)
  /\ v.buckets.slots \subseteq Days /\ SelectionHolds(v.buckets)

(* Each read has a number of its own, and is of the house as it was.              *)
FlyingHolds(f, l, h) ==
  /\ f \subseteq Flights
  /\ \A r \in f : 1 <= r.id /\ r.id <= l /\ r.at <= h
  /\ \A q, r \in f : q.id = r.id => q = r

Expected(holder, f) == \E r \in f : IsCurrent(holder, r)
Failed(holder) == holder.error = TRUE

(* The read whose answer will be shown was asked for after what is shown came.    *)
DayHolds(d, f, l, h) ==
  /\ d \in DayHolders
  /\ d.payload # Nil => d.payload.version <= h /\ \A r \in f : IsCurrent(d, r) => d.payload.version <= r.at
  /\ d.request # Nil => d.request.id <= l

(* A span asked for is on its way, is said to have failed, or is the one shown.   *)
SpanHolds(s, f, l, h) ==
  /\ s \in SpanHolders
  /\ s.shown # Nil => s.shown.version <= h /\ \A r \in f : IsCurrent(s, r) => s.shown.version <= r.at
  /\ s.request # Nil => s.request.id <= l /\ s.request.key.bucket # "slot"
  /\ s.request # Nil /\ ~Failed(s) /\ ~Expected(s, f) =>
       s.shown # Nil /\ s.request.key = [bucket |-> s.shown.bucket, start |-> s.shown.start]

DayShown(v, d) ==
  v.mode = "day" /\ ~Failed(d) /\ d.request = Nil => d.payload # Nil /\ d.payload.date = v.date

SpanShown(v, s, f) ==
  v.mode # "day" =>
    /\ s.request # Nil /\ s.request.key = SpanOf(v.mode, v.date)
    /\ ~Failed(s) /\ ~Expected(s, f) => v.buckets.slots \subseteq Columns(s.shown)

InspectorInv ==
  /\ house \in Nat /\ loads \in Nat
  /\ ViewHolds(view) /\ FlyingHolds(flying, loads, house)
  /\ DayHolds(day, flying, loads, house) /\ SpanHolds(span, flying, loads, house)
  /\ DayShown(view, day) /\ SpanShown(view, span, flying)

(* What is shown gives way to nothing older.                                      *)
PaintsForward(d, e, s, t) ==
  /\ d.payload # Nil => e.payload.version >= d.payload.version
  /\ s.shown # Nil => t.shown.version >= s.shown.version

LEMMA NilIsNoRecord ==
  /\ \A k \in SpanKeys, i \in Nat : Nil # [key |-> k, id |-> i]
  /\ Nil \notin Requests /\ Nil \notin DayPayloads /\ Nil \notin SpanPayloads
<1>1. Nil \notin Requests /\ Nil \notin DayPayloads /\ Nil \notin SpanPayloads
  BY NilAssumption DEF Requests, DayPayloads, SpanPayloads, Days
<1>2. \A k \in SpanKeys, i \in Nat : [key |-> k, id |-> i] \in Requests
  BY DEF Requests
<1> QED
  BY <1>1, <1>2

(* The reads.                                                                     *)
SendsOrNot == NothingSent \/ \E key \in SpanKeys : Sent(key)

LEMMA FlyingGrows ==
  ASSUME loads \in Nat, house \in Nat, FlyingHolds(flying, loads, house), SendsOrNot
  PROVE  /\ FlyingHolds(flying', loads', house) /\ loads' \in Nat /\ loads <= loads'
         /\ flying \subseteq flying'
         /\ \A r \in flying' : r \in flying \/ r.id = loads + 1
<1>1. CASE NothingSent
  BY <1>1 DEF NothingSent, FlyingHolds
<1>2. CASE \E key \in SpanKeys : Sent(key)
  <2>1. PICK key \in SpanKeys : Sent(key)
    BY <1>2
  <2> DEFINE m == [key |-> key, id |-> loads + 1, at |-> house]
  <2>2. /\ flying' = flying \union {m} /\ loads' = loads + 1
        /\ m \in Flights /\ m.id = loads + 1 /\ m.at = house
    BY <2>1 DEF Sent, Flights
  <2> HIDE DEF m
  <2>3. \A r \in flying : r \in Flights /\ r.id \in Nat /\ r.id <= loads /\ 1 <= r.id /\ r.at <= house
    BY DEF FlyingHolds, Flights
  <2>4. \A r \in flying' : 1 <= r.id /\ r.id <= loads' /\ r.at <= house
    BY <2>2, <2>3
  <2>5. \A q, r \in flying' : q.id = r.id => q = r
    BY <2>2, <2>3 DEF FlyingHolds
  <2> QED
    BY <2>2, <2>3, <2>4, <2>5 DEF FlyingHolds
<1> QED
  BY <1>1, <1>2 DEF SendsOrNot

LEMMA OthersAreNotCurrent ==
  ASSUME loads \in Nat, house \in Nat, FlyingHolds(flying, loads, house), SendsOrNot,
         NEW holder, holder.request # Nil => holder.request.id <= loads,
         NEW r \in flying', IsCurrent(holder, r)
  PROVE  r \in flying
<1>1. r \in Flights
  BY FlyingGrows DEF FlyingHolds
<1>2. holder.request # Nil /\ holder.request.id = r.id
  BY <1>1, NilIsNoRecord DEF IsCurrent, Flights
<1>3. r.id # loads + 1
  BY <1>1, <1>2 DEF Flights
<1> QED
  BY <1>3, FlyingGrows

LEMMA DayKept ==
  ASSUME loads \in Nat, house \in Nat, FlyingHolds(flying, loads, house), SendsOrNot,
         NEW d, DayHolds(d, flying, loads, house)
  PROVE  DayHolds(d, flying', loads', house)
<1>1. \A r \in flying' : IsCurrent(d, r) => r \in flying
  BY OthersAreNotCurrent DEF DayHolds
<1>2. d.request # Nil => d.request.id \in Nat
  BY DEF DayHolds, DayHolders, Requests
<1> QED
  BY <1>1, <1>2, FlyingGrows DEF DayHolds

LEMMA SpanKept ==
  ASSUME loads \in Nat, house \in Nat, FlyingHolds(flying, loads, house), SendsOrNot,
         NEW s, SpanHolds(s, flying, loads, house)
  PROVE  /\ SpanHolds(s, flying', loads', house)
         /\ \A v : SpanShown(v, s, flying) => SpanShown(v, s, flying')
<1>1. \A r \in flying' : IsCurrent(s, r) => r \in flying
  BY OthersAreNotCurrent DEF SpanHolds
<1>2. s.request # Nil => s.request.id \in Nat
  BY DEF SpanHolds, SpanHolders, Requests
<1>3. Expected(s, flying) => Expected(s, flying')
  BY FlyingGrows DEF Expected
<1> QED
  BY <1>1, <1>2, <1>3, FlyingGrows DEF SpanHolds, SpanShown

LEMMA DayLoads ==
  ASSUME loads \in Nat, house \in Nat, FlyingHolds(flying, loads, house),
         NEW d, DayHolds(d, flying, loads, house), NEW date \in Days, NEW silent \in BOOLEAN, LoadsDay(d, date, silent)
  PROVE  /\ SendsOrNot /\ DayHolds(day', flying', loads', house)
         /\ day'.request # Nil /\ day'.payload = d.payload
<1> DEFINE key == DayOf(date)
<1>1. key \in SpanKeys
  BY SpansAre DEF DayOf
<1> HIDE DEF key
<1>2. CASE Standing(d.request, key)
  <2>1. day' = d /\ NothingSent
    BY <1>2 DEF LoadsDay, key
  <2>2. SendsOrNot
    BY <2>1 DEF SendsOrNot
  <2> QED
    BY <1>2, <2>1, <2>2, DayKept DEF Standing
<1>3. CASE ~Standing(d.request, key)
  <2> DEFINE request == [key |-> key, id |-> loads + 1]
             e == [d EXCEPT !.request = request, !.error = FALSE, !.loading = d.loading \/ ~silent]
  <2>1. day' = e /\ Sent(key)
    BY <1>3 DEF LoadsDay, key
  <2>2. SendsOrNot
    BY <1>1, <2>1 DEF SendsOrNot
  <2>3. request \in Requests /\ request # Nil /\ request.id = loads + 1
    BY <1>1, NilIsNoRecord DEF Requests
  <2>4. (d.loading \/ ~silent) \in BOOLEAN
    OBVIOUS
  <2>5. /\ e \in DayHolders /\ e.request = request /\ e.payload = d.payload
    BY <2>3, <2>4 DEF DayHolds, DayHolders
  <2>6. loads' = loads + 1 /\ \A r \in flying' : r.id = loads + 1 => r.at = house
    <3>1. \A r \in flying : r.id # loads + 1
      BY DEF FlyingHolds, Flights
    <3> QED
      BY <2>1, <3>1 DEF Sent
  <2>7. \A r \in flying' : IsCurrent(e, r) => r.at = house
    BY <2>3, <2>5, <2>6 DEF IsCurrent
  <2> HIDE DEF e, request
  <2> QED
    BY <2>1, <2>2, <2>3, <2>5, <2>6, <2>7 DEF DayHolds
<1> QED
  BY <1>2, <1>3

LEMMA ColumnsAreDays ==
  ASSUME NEW s \in SpanPayloads \union {Nil}
  PROVE  Columns(s) \subseteq Days
<1>1. CASE s = Nil
  BY <1>1 DEF Columns
<1>2. CASE s # Nil
  <2>1. s.start \in Nat /\ 1 <= s.start /\ Today \in Nat /\ Today <= Horizon /\ Horizon \in Nat
    BY <1>2, DaysAre DEF SpanPayloads, Days
  <2>2. \A d \in s.start..Today : d \in Days
    BY <2>1 DEF Days
  <2> QED
    BY <1>2, <2>2 DEF Columns
<1> QED
  BY <1>1, <1>2

(* The picks of a view, in their own rows.                                        *)
LEMMA ViewHasPicks ==
  ASSUME NEW v, ViewHolds(v)
  PROVE  /\ v.date \in Days /\ v.width \in {1, 2} /\ v.mode \in {"day", "month", "year"}
         /\ v.slots \in Picks(Units) /\ v.buckets \in Picks(Horizon)
         /\ v.buckets.focus # Nil => v.buckets.focus \in Days
BY DEF ViewHolds, Views, SelectionHolds

LEMMA SlotsPicked ==
  ASSUME NEW v, ViewHolds(v), NEW picked \in Picks(Units), SelectionHolds(picked), picked.slots \subseteq Grid(v.width)
  PROVE  LET e == [v EXCEPT !.slots = picked]
         IN  ViewHolds(e) /\ e.mode = v.mode /\ e.date = v.date /\ e.buckets = v.buckets /\ e.width = v.width
BY DEF ViewHolds, Views

LEMMA BucketsPicked ==
  ASSUME NEW v, ViewHolds(v), NEW picked \in Picks(Horizon), SelectionHolds(picked), picked.slots \subseteq Days
  PROVE  LET e == [v EXCEPT !.buckets = picked]
         IN  ViewHolds(e) /\ e.mode = v.mode /\ e.date = v.date /\ e.buckets = picked /\ e.width = v.width
BY DEF ViewHolds, Views

LEMMA BucketsReconciled ==
  ASSUME NEW v, ViewHolds(v), NEW s \in SpanPayloads \union {Nil}
  PROVE  LET e == [v EXCEPT !.buckets = Reconciled(Columns(s), v.buckets)]
         IN  /\ ViewHolds(e) /\ e.mode = v.mode /\ e.date = v.date /\ e.width = v.width
             /\ e.buckets.slots \subseteq Columns(s)
<1> DEFINE picked == Reconciled(Columns(s), v.buckets)
<1>1. Columns(s) \subseteq Days /\ Columns(s) \in SUBSET (0..Horizon) /\ Horizon \in Nat
  BY ColumnsAreDays, DaysAre DEF Days
<1>2. picked \in Picks(Horizon) /\ SelectionHolds(picked) /\ picked.slots \subseteq Columns(s)
  BY <1>1, RegriddedHolds DEF Reconciled
<1> HIDE DEF picked
<1> QED
  BY <1>1, <1>2, BucketsPicked DEF picked

LEMMA MinutesStop ==
  ASSUME NEW v, ViewHolds(v), NEW width \in {1, 2}
  PROVE  LET e == WithWidth(v, width)
         IN  ViewHolds(e) /\ e.mode = v.mode /\ e.date = v.date /\ e.buckets = v.buckets /\ e.width = width
<1>1. CASE v.width = width
  BY <1>1 DEF WithWidth
<1>2. CASE v.width # width
  <2> DEFINE picked == Regridded(Grid(width), v.slots, width)
             e == [v EXCEPT !.width = width, !.slots = picked]
  <2>1. WithWidth(v, width) = e
    BY <1>2 DEF WithWidth
  <2>2. picked \in Picks(Units) /\ SelectionHolds(picked) /\ picked.slots \subseteq Grid(width)
    BY DaysAre, GridIs, RegriddedHolds
  <2> HIDE DEF picked
  <2>3. ViewHolds(e) /\ e.mode = v.mode /\ e.date = v.date /\ e.buckets = v.buckets /\ e.width = width
    BY <2>2 DEF ViewHolds, Views
  <2> QED
    BY <2>1, <2>3
<1> QED
  BY <1>1, <1>2

LEMMA SpanLoads ==
  ASSUME loads \in Nat, house \in Nat, FlyingHolds(flying, loads, house),
         NEW s, SpanHolds(s, flying, loads, house), NEW v, ViewHolds(v), v.mode # "day",
         NEW silent \in BOOLEAN, LoadsSpan(s, v, silent)
  PROVE  /\ SendsOrNot /\ ViewHolds(view') /\ view'.mode # "day"
         /\ SpanHolds(span', flying', loads', house) /\ SpanShown(view', span', flying')
         /\ span'.shown = s.shown
<1> DEFINE key == SpanOf(v.mode, v.date)
<1>1. key \in SpanKeys /\ key.bucket # "slot"
  BY SpansAre, ViewHasPicks
<1>2. s.shown \in SpanPayloads \union {Nil}
  BY DEF SpanHolds, SpanHolders
<1> HIDE DEF key
<1>3. CASE Standing(s.request, key)
  <2>1. /\ view' = [v EXCEPT !.buckets = Reconciled(Columns(s.shown), v.buckets)]
        /\ span' = s /\ NothingSent
    BY <1>3 DEF LoadsSpan, key
  <2>2. SendsOrNot
    BY <2>1 DEF SendsOrNot
  <2>3. ViewHolds(view') /\ view'.mode = v.mode /\ view'.date = v.date /\ view'.buckets.slots \subseteq Columns(s.shown)
    BY <1>2, <2>1, BucketsReconciled
  <2>4. SpanHolds(s, flying', loads', house)
    BY <2>2, SpanKept
  <2>5. SpanShown(view', s, flying')
    BY <1>3, <2>3 DEF SpanShown, Standing, key
  <2> QED
    BY <2>1, <2>2, <2>3, <2>4, <2>5
<1>4. CASE ~Standing(s.request, key)
  <2> DEFINE request == [key |-> key, id |-> loads + 1]
             e == [s EXCEPT !.request = request, !.error = FALSE, !.loading = s.loading \/ ~silent]
             m == [key |-> key, id |-> loads + 1, at |-> house]
  <2>1. view' = v /\ span' = e /\ Sent(key)
    BY <1>4 DEF LoadsSpan, key
  <2>2. SendsOrNot
    BY <1>1, <2>1 DEF SendsOrNot
  <2>3. /\ request \in Requests /\ request # Nil /\ request.id = loads + 1 /\ request.key = key
    BY <1>1, NilIsNoRecord DEF Requests
  <2>4. (s.loading \/ ~silent) \in BOOLEAN
    OBVIOUS
  <2>5. e \in SpanHolders /\ e.request = request /\ e.shown = s.shown
    BY <2>3, <2>4 DEF SpanHolds, SpanHolders
  <2>6. loads' = loads + 1 /\ \A r \in flying' : r.id = loads + 1 => r.at = house
    <3>1. \A r \in flying : r.id # loads + 1
      BY DEF FlyingHolds, Flights
    <3> QED
      BY <2>1, <3>1 DEF Sent
  <2>7. \A r \in flying' : IsCurrent(e, r) => r.at = house
    BY <2>3, <2>5, <2>6 DEF IsCurrent
  <2>8. Expected(e, flying')
    <3>1. m \in flying' /\ IsCurrent(e, m)
      BY <2>1, <2>5 DEF Sent, IsCurrent
    <3> QED
      BY <3>1 DEF Expected
  <2> HIDE DEF e, request
  <2>9. SpanHolds(e, flying', loads', house)
    BY <1>1, <2>3, <2>5, <2>6, <2>7, <2>8 DEF SpanHolds
  <2>10. SpanShown(v, e, flying')
    BY <2>3, <2>5, <2>8 DEF SpanShown, key
  <2> QED
    BY <2>1, <2>2, <2>5, <2>9, <2>10
<1> QED
  BY <1>3, <1>4

----------------------------------------------------------------------------
(* The inspector's steps.                                                         *)

LEMMA PaintsKept ==
  ASSUME InspectorInv, NEW e, NEW t, e.payload = day.payload, t.shown = span.shown
  PROVE  PaintsForward(day, e, span, t)
<1>1. day.payload # Nil => day.payload.version \in Nat
  BY DEF InspectorInv, DayHolds, DayHolders, DayPayloads
<1>2. span.shown # Nil => span.shown.version \in Nat
  BY DEF InspectorInv, SpanHolds, SpanHolders, SpanPayloads
<1> QED
  BY <1>1, <1>2 DEF PaintsForward

(* A step that shows nothing new of the house.                                    *)
LEMMA InspectorEnds ==
  ASSUME InspectorInv, house' = house, SendsOrNot, ViewHolds(view'),
         DayHolds(day', flying', loads', house), SpanHolds(span', flying', loads', house),
         DayShown(view', day'), SpanShown(view', span', flying'),
         day'.payload = day.payload, span'.shown = span.shown
  PROVE  InspectorInv' /\ PaintsForward(day, day', span, span')
<1>1. FlyingHolds(flying', loads', house) /\ loads' \in Nat
  BY FlyingGrows DEF InspectorInv
<1>2. PaintsForward(day, day', span, span')
  BY PaintsKept
<1> QED
  BY <1>1, <1>2 DEF InspectorInv

(* The view alone changes.                                                        *)
LEMMA ViewMoves ==
  ASSUME InspectorInv, house' = house, UNCHANGED <<day, span>>, NothingSent, ViewHolds(view'),
         DayShown(view', day), SpanShown(view', span, flying)
  PROVE  InspectorInv' /\ PaintsForward(day, day', span, span')
<1>1. SendsOrNot
  BY DEF SendsOrNot
<1>2. DayHolds(day', flying', loads', house)
  BY <1>1, DayKept DEF InspectorInv
<1>3. SpanHolds(span', flying', loads', house) /\ SpanShown(view', span', flying')
  BY <1>1, SpanKept DEF InspectorInv
<1> QED
  BY <1>1, <1>2, <1>3, InspectorEnds

LEMMA InspectorRefreshes ==
  ASSUME InspectorInv, NEW silent \in BOOLEAN, Refreshes(silent), house' = house
  PROVE  InspectorInv' /\ PaintsForward(day, day', span, span')
<1> DEFINE s == [span EXCEPT !.request = Nil]
<1>1. /\ loads \in Nat /\ house \in Nat /\ FlyingHolds(flying, loads, house) /\ ViewHolds(view)
      /\ DayHolds(day, flying, loads, house) /\ SpanHolds(span, flying, loads, house)
  BY DEF InspectorInv
<1>2. s \in SpanHolders /\ s.request = Nil /\ s.shown = span.shown
  BY <1>1 DEF SpanHolds, SpanHolders
<1>3. SpanHolds(s, flying, loads, house)
  <2>1. \A r \in flying : ~IsCurrent(s, r)
    BY <1>1, <1>2, NilIsNoRecord DEF IsCurrent, FlyingHolds, Flights
  <2> QED
    BY <1>1, <1>2, <2>1 DEF SpanHolds
<1>4. CASE view.mode = "day"
  <2>1. span' = s /\ LoadsDay(day, view.date, silent) /\ view' = view
    BY <1>4 DEF Refreshes
  <2> HIDE DEF s
  <2>2. /\ SendsOrNot /\ DayHolds(day', flying', loads', house)
        /\ day'.request # Nil /\ day'.payload = day.payload
    BY <1>1, <2>1, DayLoads, ViewHasPicks
  <2>3. SpanHolds(span', flying', loads', house)
    BY <1>1, <1>3, <2>1, <2>2, SpanKept
  <2>4. DayShown(view', day') /\ SpanShown(view', span', flying')
    BY <1>4, <2>1, <2>2 DEF DayShown, SpanShown
  <2> QED
    BY <1>1, <1>2, <2>1, <2>2, <2>3, <2>4, InspectorEnds
<1>5. CASE view.mode # "day"
  <2> DEFINE d == [day EXCEPT !.stale = TRUE]
  <2>1. day' = d /\ LoadsSpan(s, view, silent)
    BY <1>5 DEF Refreshes
  <2> HIDE DEF s
  <2>2. d \in DayHolders /\ d.payload = day.payload /\ d.request = day.request
    BY <1>1 DEF DayHolds, DayHolders
  <2>3. DayHolds(d, flying, loads, house)
    BY <1>1, <2>2 DEF DayHolds, IsCurrent
  <2> HIDE DEF d
  <2>4. /\ SendsOrNot /\ ViewHolds(view') /\ view'.mode # "day"
        /\ SpanHolds(span', flying', loads', house) /\ SpanShown(view', span', flying')
        /\ span'.shown = s.shown
    BY <1>1, <1>3, <1>5, <2>1, SpanLoads
  <2>5. DayHolds(day', flying', loads', house)
    BY <1>1, <2>1, <2>3, <2>4, DayKept
  <2>6. DayShown(view', day')
    BY <2>4 DEF DayShown
  <2> QED
    BY <1>2, <2>1, <2>2, <2>4, <2>5, <2>6, InspectorEnds
<1> QED
  BY <1>4, <1>5

LEMMA DayIsOpened ==
  ASSUME InspectorInv, house' = house, NEW v, ViewHolds(v), NEW width \in {1, 2}, OpensDay(v, width)
  PROVE  InspectorInv' /\ PaintsForward(day, day', span, span')
<1> DEFINE date == DayForMinutesStop(v)
           e == [v EXCEPT !.mode = "day", !.date = date, !.buckets = Nowhere]
<1>1. date \in Days
  <2> DEFINE focus == v.buckets.focus
             wanted == IF focus = Nil \/ v.mode = "day" THEN v.date
                       ELSE IF v.mode = "month" \/ Month(v.date) # focus THEN focus ELSE v.date
  <2>1. wanted \in Days
    BY ViewHasPicks
  <2>2. date = IF RangeKnown THEN Clamped(wanted, HistoryFloor, Horizon) ELSE wanted
    BY DEF DayForMinutesStop
  <2> HIDE DEF wanted, date
  <2> QED
    BY <2>1, <2>2, DaysAre DEF Clamped, Days
<1>2. /\ view' = WithWidth(e, width) /\ EnsuresDay(date) /\ span' = span
  BY DEF OpensDay
<1> HIDE DEF date
<1>3. ViewHolds(e) /\ e.mode = "day" /\ e.date = date
  BY <1>1, DaysAre, NowhereHolds DEF ViewHolds, Views
<1> HIDE DEF e
<1>4. ViewHolds(view') /\ view'.mode = "day" /\ view'.date = date
  BY <1>2, <1>3, MinutesStop
<1>5. SpanShown(view', span', flying')
  BY <1>4 DEF SpanShown
<1>6. CASE day.stale \/ day.payload = Nil \/ day.payload.date # date
  <2>1. LoadsDay(day, date, FALSE)
    BY <1>2, <1>6 DEF EnsuresDay
  <2>2. /\ SendsOrNot /\ DayHolds(day', flying', loads', house)
        /\ day'.request # Nil /\ day'.payload = day.payload
    BY <1>1, <2>1, DayLoads DEF InspectorInv
  <2>3. SpanHolds(span', flying', loads', house)
    BY <1>2, <2>2, SpanKept DEF InspectorInv
  <2>4. DayShown(view', day')
    BY <2>2 DEF DayShown
  <2> QED
    BY <1>2, <1>4, <1>5, <2>2, <2>3, <2>4, InspectorEnds
<1>7. CASE ~(day.stale \/ day.payload = Nil \/ day.payload.date # date)
  <2>1. UNCHANGED day /\ NothingSent
    BY <1>2, <1>7 DEF EnsuresDay
  <2>2. DayShown(view', day)
    BY <1>4, <1>7 DEF DayShown
  <2>3. SpanShown(view', span, flying)
    BY <1>4 DEF SpanShown
  <2> QED
    BY <1>2, <1>4, <2>1, <2>2, <2>3, ViewMoves
<1> QED
  BY <1>6, <1>7

(* A view of a span is moved to.                                                  *)
LEMMA SpanIsOpened ==
  ASSUME InspectorInv, house' = house, NEW v, ViewHolds(v), v.mode # "day", LoadsSpan(span, v, FALSE), UNCHANGED day
  PROVE  InspectorInv' /\ PaintsForward(day, day', span, span')
<1>1. /\ SendsOrNot /\ ViewHolds(view') /\ view'.mode # "day"
      /\ SpanHolds(span', flying', loads', house) /\ SpanShown(view', span', flying')
      /\ span'.shown = span.shown
  BY SpanLoads DEF InspectorInv
<1>2. DayHolds(day', flying', loads', house)
  BY <1>1, DayKept DEF InspectorInv
<1>3. DayShown(view', day')
  BY <1>1 DEF DayShown
<1> QED
  BY <1>1, <1>2, <1>3, InspectorEnds

LEMMA StopPressed ==
  ASSUME InspectorInv, house' = house, NEW mode \in {"month", "year"}, PressesSpanStop(mode)
  PROVE  InspectorInv' /\ PaintsForward(day, day', span, span')
<1> DEFINE anchor == IF view.buckets.focus = Nil THEN view.date ELSE view.buckets.focus
           only == IF mode = "month" THEN anchor ELSE Month(anchor)
           carried == IF mode = "month" /\ view.mode = "year"
                      THEN [view EXCEPT !.date = Month(anchor), !.buckets = Nowhere]
                      ELSE [view EXCEPT !.date = anchor, !.buckets = Only(only)]
           v == [carried EXCEPT !.mode = mode]
<1>1. LoadsSpan(span, v, FALSE) /\ UNCHANGED day
  BY DEF PressesSpanStop
<1>2. ViewHolds(view) /\ view \in Views
  BY DEF InspectorInv, ViewHolds
<1>3. anchor \in Days
  BY <1>2, ViewHasPicks
<1> HIDE DEF anchor
<1>4. Month(anchor) \in Days /\ only \in Days
  BY <1>3, MonthsAreDays
<1> HIDE DEF only
<1>5. /\ Nowhere \in Picks(Horizon) /\ SelectionHolds(Nowhere) /\ Nowhere.slots = {}
      /\ Only(only) \in Picks(Horizon) /\ SelectionHolds(Only(only)) /\ Only(only).slots = {only}
  <2>1. only \in 0..Horizon /\ Horizon \in Nat
    BY <1>4, DaysAre DEF Days
  <2> QED
    BY <2>1, NowhereHolds, OnlyHolds
<1>6. ViewHolds(carried)
  <2>1. CASE mode = "month" /\ view.mode = "year"
    BY <1>2, <1>4, <1>5, <2>1 DEF ViewHolds, Views
  <2>2. CASE ~(mode = "month" /\ view.mode = "year")
    <3> DEFINE e == [view EXCEPT !.date = anchor, !.buckets = Only(only)]
    <3>1. /\ e \in Views /\ e.slots = view.slots /\ e.width = view.width /\ e.buckets = Only(only)
      BY <1>2, <1>3, <1>5 DEF Views
    <3>2. carried = e
      BY <2>2
    <3> HIDE DEF e, carried
    <3> QED
      BY <1>2, <1>4, <1>5, <3>1, <3>2 DEF ViewHolds
  <2> QED
    BY <2>1, <2>2
<1> HIDE DEF carried
<1>7. ViewHolds(v) /\ v.mode = mode
  BY <1>6 DEF ViewHolds, Views
<1> HIDE DEF v
<1> QED
  BY <1>1, <1>7, SpanIsOpened

LEMMA SpanMovedTo ==
  ASSUME InspectorInv, house' = house, NEW start \in Days, NEW mode \in {"month", "year"}, ShowsSpan(start, mode)
  PROVE  InspectorInv' /\ PaintsForward(day, day', span, span')
<1> DEFINE v == [view EXCEPT !.mode = mode, !.date = start, !.buckets = Nowhere]
<1>1. LoadsSpan(span, v, FALSE) /\ UNCHANGED day
  BY DEF ShowsSpan
<1>2. Nowhere \in Picks(Horizon) /\ SelectionHolds(Nowhere) /\ Nowhere.slots = {}
  BY DaysAre, NowhereHolds
<1>3. ViewHolds(v) /\ v.mode = mode
  BY <1>2 DEF InspectorInv, ViewHolds, Views
<1> HIDE DEF v
<1> QED
  BY <1>1, <1>3, SpanIsOpened

LEMMA ColumnPicked ==
  ASSUME InspectorInv, NEW column \in Int, NEW how
  PROVE  LET picked == Picked(Columns(span.shown), view.buckets, column, how)
             e == [view EXCEPT !.buckets = picked]
         IN  /\ ViewHolds(e) /\ e.mode = view.mode /\ e.date = view.date
             /\ DayShown(e, day) /\ SpanShown(e, span, flying)
<1> DEFINE row == Columns(span.shown)
           picked == Picked(row, view.buckets, column, how)
           e == [view EXCEPT !.buckets = picked]
<1>1. ViewHolds(view) /\ view.buckets \in Picks(Horizon) /\ SelectionHolds(view.buckets) /\ view.buckets.slots \subseteq Days
  BY ViewHasPicks DEF InspectorInv, ViewHolds
<1>2. row \subseteq Days /\ row \in SUBSET (0..Horizon) /\ Horizon \in Nat
  <2>1. span.shown \in SpanPayloads \union {Nil}
    BY DEF InspectorInv, SpanHolds, SpanHolders
  <2> QED
    BY <2>1, ColumnsAreDays, DaysAre DEF Days
<1> HIDE DEF row
<1>3. picked \in Picks(Horizon) /\ SelectionHolds(picked) /\ picked.slots \subseteq view.buckets.slots \union row
  BY <1>1, <1>2, PickedHolds
<1> HIDE DEF picked
<1>4. ViewHolds(e) /\ e.mode = view.mode /\ e.date = view.date /\ e.buckets = picked
  BY <1>1, <1>2, <1>3, BucketsPicked
<1> HIDE DEF e
<1>5. DayShown(e, day)
  BY <1>4 DEF InspectorInv, DayShown
<1>6. SpanShown(e, span, flying)
  BY <1>3, <1>4 DEF InspectorInv, SpanShown, row
<1> QED
  BY <1>4, <1>5, <1>6 DEF e, picked, row

LEMMA BucketPressed ==
  ASSUME InspectorInv, house' = house, NEW column \in Int, NEW how, PicksBucket(column, how)
  PROVE  InspectorInv' /\ PaintsForward(day, day', span, span')
BY ColumnPicked, ViewMoves DEF PicksBucket

(* Another day is turned to.                                                      *)
LEMMA DayTurnedTo ==
  ASSUME InspectorInv, house' = house, NEW d \in Days, view.mode = "day", view' = [view EXCEPT !.date = d],
         LoadsDay(day, d, FALSE), UNCHANGED span
  PROVE  InspectorInv' /\ PaintsForward(day, day', span, span')
<1>1. ViewHolds(view') /\ view'.mode = "day"
  BY DEF InspectorInv, ViewHolds, Views
<1>2. /\ SendsOrNot /\ DayHolds(day', flying', loads', house)
      /\ day'.request # Nil /\ day'.payload = day.payload
  BY DayLoads DEF InspectorInv
<1>3. SpanHolds(span', flying', loads', house)
  BY <1>2, SpanKept DEF InspectorInv
<1>4. DayShown(view', day') /\ SpanShown(view', span', flying')
  BY <1>1, <1>2 DEF DayShown, SpanShown
<1> QED
  BY <1>1, <1>2, <1>3, <1>4, InspectorEnds

LEMMA SlotPressed ==
  ASSUME InspectorInv, house' = house, NEW slot \in Grid(view.width), NEW how, PressesSlot(slot, how)
  PROVE  InspectorInv' /\ PaintsForward(day, day', span, span')
<1> DEFINE row == Grid(view.width)
           picked == Picked(row, view.slots, slot, how)
<1>1. /\ ViewHolds(view) /\ view.slots \in Picks(Units) /\ SelectionHolds(view.slots) /\ view.slots.slots \subseteq row
      /\ view.width \in {1, 2}
  BY ViewHasPicks DEF InspectorInv, ViewHolds
<1>2. row \in SUBSET (0..Units) /\ Units \in Nat
  BY <1>1, GridIs, DaysAre
<1>3. slot \in Int
  BY DEF Grid
<1>4. view' = [view EXCEPT !.slots = picked] /\ UNCHANGED <<day, span>> /\ NothingSent
  BY DEF PressesSlot
<1>5. picked \in Picks(Units) /\ SelectionHolds(picked) /\ picked.slots \subseteq row
  <2> HIDE DEF row
  <2> QED
    BY <1>1, <1>2, <1>3, PickedHolds
<1> HIDE DEF picked
<1>6. ViewHolds(view') /\ view'.mode = view.mode /\ view'.date = view.date /\ view'.buckets = view.buckets
  BY <1>1, <1>4, <1>5, SlotsPicked
<1>7. DayShown(view', day) /\ SpanShown(view', span, flying)
  BY <1>6 DEF InspectorInv, DayShown, SpanShown
<1> QED
  BY <1>4, <1>6, <1>7, ViewMoves

LEMMA BesidesPressed ==
  ASSUME InspectorInv, house' = house, PressesBesides
  PROVE  InspectorInv' /\ PaintsForward(day, day', span, span')
<1>1. UNCHANGED <<day, span>> /\ NothingSent /\ ViewHolds(view)
  BY DEF PressesBesides, InspectorInv
<1>2. /\ Nowhere \in Picks(Units) /\ Nowhere \in Picks(Horizon) /\ SelectionHolds(Nowhere) /\ Nowhere.slots = {}
  BY DaysAre, NowhereHolds
<1>3. CASE view' = [view EXCEPT !.slots = Nowhere]
  <2>1. ViewHolds(view') /\ view'.mode = view.mode /\ view'.date = view.date /\ view'.buckets = view.buckets
    BY <1>1, <1>2, <1>3, SlotsPicked
  <2>2. DayShown(view', day) /\ SpanShown(view', span, flying)
    BY <2>1 DEF InspectorInv, DayShown, SpanShown
  <2> QED
    BY <1>1, <2>1, <2>2, ViewMoves
<1>4. CASE view' = [view EXCEPT !.buckets = Nowhere]
  <2>1. ViewHolds(view') /\ view'.mode = view.mode /\ view'.date = view.date /\ view'.buckets.slots = {}
    BY <1>1, <1>2, <1>4, BucketsPicked
  <2>2. DayShown(view', day) /\ SpanShown(view', span, flying)
    BY <2>1 DEF InspectorInv, DayShown, SpanShown
  <2> QED
    BY <1>1, <2>1, <2>2, ViewMoves
<1> QED
  BY <1>3, <1>4 DEF PressesBesides

LEMMA PillsAreDays ==
  ASSUME InspectorInv
  PROVE  /\ MonthPills \subseteq Days /\ YearPills \subseteq Days
         /\ \A y \in YearPills : SpanKeyForYear(y) \in Days
<1>1. /\ view.date \in Days /\ NavFloor \in Days
      /\ Month(Today) \in Days /\ Year(Today) \in Days /\ Year(view.date) \in Days /\ Month(view.date) \in Days
      /\ Month(NavFloor) \in Days /\ Year(NavFloor) \in Days
  BY ViewHasPicks, DaysAre, MonthsAreDays DEF InspectorInv, NavFloor
<1>2. \A low, high \in Days : low..high \subseteq Days
  BY DaysAre DEF Days
<1>3. MonthPills \subseteq Days /\ YearPills \subseteq Days
  BY <1>1, <1>2 DEF MonthPills, YearPills
<1>4. ASSUME NEW y \in YearPills PROVE SpanKeyForYear(y) \in Days
  <2>1. y \in Days
    BY <1>3
  <2>2. ASSUME NEW low \in Days, NEW high \in Days, NEW d \in Int PROVE Clamped(d, low, high) \in Days
    BY DaysAre DEF Clamped, Days
  <2>3. y + Month(view.date) - Year(view.date) \in Int
    BY <1>1, <2>1, DaysAre DEF Days
  <2> QED
    BY <1>1, <2>1, <2>2, <2>3 DEF SpanKeyForYear
<1> QED
  BY <1>3, <1>4

LEMMA InspectorPressed ==
  ASSUME InspectorInv, InspectorUser
  PROVE  InspectorInv' /\ PaintsForward(day, day', span, span')
<1>1. house' = house
  BY DEF InspectorUser, InspectorPress
<1>2. \A d \in 1..Horizon : d \in Days /\ d \in Int
  BY DaysAre DEF Days
<1>3. ViewHolds(view)
  BY DEF InspectorInv
<1>4. CASE PressesRefresh
  BY <1>1, <1>4, InspectorRefreshes DEF PressesRefresh
<1>5. ASSUME NEW width \in {1, 2}, PressesMinutes(width)
      PROVE  InspectorInv' /\ PaintsForward(day, day', span, span')
  BY <1>1, <1>3, <1>5, DayIsOpened DEF PressesMinutes
<1>6. ASSUME NEW mode \in {"month", "year"}, PressesSpanStop(mode)
      PROVE  InspectorInv' /\ PaintsForward(day, day', span, span')
  BY <1>1, <1>6, StopPressed
<1>7. ASSUME NEW d \in 1..Horizon, PressesDayPill(d)
      PROVE  InspectorInv' /\ PaintsForward(day, day', span, span')
  <2>1. CASE view.mode = "month"
    BY <1>1, <1>2, <1>7, <2>1, BucketPressed DEF PressesDayPill
  <2>2. CASE view.mode # "month"
    <3>1. view.mode = "day"
      BY <1>3, <1>7, <2>2, ViewHasPicks DEF PressesDayPill, DayPills
    <3> QED
      BY <1>1, <1>2, <1>7, <2>2, <3>1, DayTurnedTo DEF PressesDayPill
  <2> QED
    BY <2>1, <2>2
<1>8. ASSUME NEW d \in 1..Horizon, PressesMonthPill(d)
      PROVE  InspectorInv' /\ PaintsForward(day, day', span, span')
  BY <1>1, <1>2, <1>8, BucketPressed, SpanMovedTo DEF PressesMonthPill
<1>9. ASSUME NEW d \in 1..Horizon, PressesYearPill(d)
      PROVE  InspectorInv' /\ PaintsForward(day, day', span, span')
  <2>1. /\ SpanKeyForYear(d) \in Days /\ view.mode \in {"month", "year"}
        /\ ShowsSpan(SpanKeyForYear(d), view.mode)
    BY <1>3, <1>9, PillsAreDays, ViewHasPicks DEF PressesYearPill
  <2> QED
    BY <1>1, <2>1, SpanMovedTo
<1>10. ASSUME NEW d \in 1..Horizon, OpensBucket(d)
       PROVE  InspectorInv' /\ PaintsForward(day, day', span, span')
  <2> DEFINE picked == [view EXCEPT !.buckets = Picked(Columns(span.shown), view.buckets, d, "replace")]
  <2>1. CASE view.mode = "year" /\ ShowsSpan(d, "month")
    BY <1>1, <1>2, <2>1, SpanMovedTo
  <2>2. CASE OpensDay(picked, view.width)
    <3>1. ViewHolds(picked) /\ view.width \in {1, 2}
      BY <1>2, <1>3, ColumnPicked, ViewHasPicks
    <3> HIDE DEF picked
    <3> QED
      BY <1>1, <2>2, <3>1, DayIsOpened
  <2>3. CASE view' = picked /\ UNCHANGED <<day, span>> /\ NothingSent
    <3>1. ViewHolds(picked) /\ DayShown(picked, day) /\ SpanShown(picked, span, flying)
      BY <1>2, ColumnPicked
    <3> HIDE DEF picked
    <3> QED
      BY <1>1, <2>3, <3>1, ViewMoves
  <2> QED
    BY <1>10, <2>1, <2>2, <2>3 DEF OpensBucket
<1>11. ASSUME NEW d \in 1..Horizon, NEW how, PressesColumn(d, how)
       PROVE  InspectorInv' /\ PaintsForward(day, day', span, span')
  BY <1>1, <1>2, <1>11, BucketPressed DEF PressesColumn
<1>12. ASSUME NEW d \in 1..Horizon, SelectsTrainingDate(d)
       PROVE  InspectorInv' /\ PaintsForward(day, day', span, span')
  BY <1>1, <1>2, <1>12, DayTurnedTo DEF SelectsTrainingDate, DayLives
<1>13. ASSUME NEW slot \in Grid(view.width), NEW how, PressesSlot(slot, how)
       PROVE  InspectorInv' /\ PaintsForward(day, day', span, span')
  BY <1>1, <1>13, SlotPressed
<1>14. CASE PressesBesides
  BY <1>1, <1>14, BesidesPressed
<1> QED
  BY <1>4, <1>5, <1>6, <1>7, <1>8, <1>9, <1>10, <1>11, <1>12, <1>13, <1>14 DEF InspectorUser

(* The house's data moves on, before it is announced.                             *)
LEMMA HouseMovesOn ==
  ASSUME InspectorInv, HouseMoves
  PROVE  InspectorInv' /\ PaintsForward(day, day', span, span')
<1>1. /\ house \in Nat /\ house' = house + 1 /\ UNCHANGED <<view, day, span, flying, loads>>
      /\ FlyingHolds(flying, loads, house) /\ DayHolds(day, flying, loads, house) /\ SpanHolds(span, flying, loads, house)
  BY DEF HouseMoves, InspectorInv
<1>2. /\ day.payload # Nil => day.payload.version \in Nat
      /\ span.shown # Nil => span.shown.version \in Nat
      /\ \A r \in flying : r.at \in Nat
  BY <1>1 DEF DayHolds, DayHolders, DayPayloads, SpanHolds, SpanHolders, SpanPayloads, FlyingHolds, Flights
<1>3. FlyingHolds(flying, loads, house') /\ DayHolds(day, flying, loads, house') /\ SpanHolds(span, flying, loads, house')
  BY <1>1, <1>2 DEF FlyingHolds, DayHolds, SpanHolds
<1>4. PaintsForward(day, day', span, span')
  BY <1>1, <1>2 DEF PaintsForward
<1> QED
  BY <1>1, <1>3, <1>4 DEF InspectorInv

LEMMA AnswerTaken ==
  ASSUME InspectorInv, NEW r \in flying
  PROVE  /\ r \in Flights /\ r.key \in SpanKeys /\ r.at \in Nat /\ house \in Nat
         /\ FlyingHolds(flying \ {r}, loads, house)
         /\ DayHolds(day, flying \ {r}, loads, house)
         /\ ~IsCurrent(span, r) => SpanHolds(span, flying \ {r}, loads, house) /\ SpanShown(view, span, flying \ {r})
         /\ ~Expected(span, flying \ {r}) \/ ~IsCurrent(span, r)
<1>1. /\ FlyingHolds(flying, loads, house) /\ DayHolds(day, flying, loads, house) /\ SpanHolds(span, flying, loads, house)
      /\ SpanShown(view, span, flying) /\ house \in Nat
  BY DEF InspectorInv
<1>2. r \in Flights /\ r.key \in SpanKeys /\ r.at \in Nat
  BY <1>1 DEF FlyingHolds, Flights
<1>3. FlyingHolds(flying \ {r}, loads, house) /\ DayHolds(day, flying \ {r}, loads, house)
  BY <1>1 DEF FlyingHolds, DayHolds
<1>4. ~IsCurrent(span, r) => (Expected(span, flying) <=> Expected(span, flying \ {r}))
  BY DEF Expected
<1>5. ~IsCurrent(span, r) => SpanHolds(span, flying \ {r}, loads, house) /\ SpanShown(view, span, flying \ {r})
  BY <1>1, <1>4 DEF SpanHolds, SpanShown
<1>6. ~Expected(span, flying \ {r}) \/ ~IsCurrent(span, r)
  <2> SUFFICES ASSUME IsCurrent(span, r), NEW q \in flying \ {r}, IsCurrent(span, q) PROVE FALSE
    BY DEF Expected
  <2>1. q.id = r.id
    BY DEF IsCurrent
  <2> QED
    BY <1>1, <2>1 DEF FlyingHolds
<1> QED
  BY <1>1, <1>2, <1>3, <1>5, <1>6

LEMMA DayIsAnswered ==
  ASSUME InspectorInv, NEW r \in flying, NEW ok \in BOOLEAN, NEW version \in r.at..house, DayAnswered(r, ok, version),
         flying' = flying \ {r}, UNCHANGED <<house, loads>>
  PROVE  InspectorInv' /\ PaintsForward(day, day', span, span')
<1> DEFINE date == r.key.start
           mine == IsCurrent(day, r) /\ date = view.date
           wide == IF Granularity(date) > view.width THEN WithWidth(view, Granularity(date)) ELSE view
           slots == Reconciled(Grid(wide.width), wide.slots)
           read == [day EXCEPT !.payload = [date |-> date, version |-> version],
                               !.stale = FALSE, !.loading = FALSE, !.request = Nil]
           failed == [day EXCEPT !.error = TRUE, !.loading = FALSE, !.request = Nil]
<1>1. /\ ViewHolds(view) /\ DayHolds(day, flying, loads, house) /\ loads \in Nat
      /\ DayShown(view, day) /\ SpanShown(view, span, flying)
  BY DEF InspectorInv
<1>2. /\ r \in Flights /\ r.key \in SpanKeys /\ r.at \in Nat /\ house \in Nat
      /\ FlyingHolds(flying \ {r}, loads, house) /\ DayHolds(day, flying \ {r}, loads, house)
  BY AnswerTaken
<1>3. /\ r.key.bucket = "slot" /\ span' = span
      /\ day' = IF ~mine THEN day ELSE IF ok THEN read ELSE failed
      /\ view' = IF mine /\ ok THEN [wide EXCEPT !.slots = slots] ELSE view
  BY DEF DayAnswered
<1>4. ~IsCurrent(span, r)
  BY <1>2, <1>3, NilIsNoRecord DEF InspectorInv, SpanHolds, IsCurrent, Flights
<1>5. SpanHolds(span, flying \ {r}, loads, house) /\ SpanShown(view, span, flying \ {r})
  BY <1>4, AnswerTaken
<1>6. span.shown # Nil => span.shown.version \in Nat
  BY DEF InspectorInv, SpanHolds, SpanHolders, SpanPayloads
<1>7. day.payload # Nil => day.payload.version \in Nat
  BY DEF InspectorInv, DayHolds, DayHolders, DayPayloads
<1>8. version \in Nat /\ r.at <= version /\ version <= house
  BY <1>2
<1> HIDE DEF wide, slots
<1>9. CASE ~mine
  <2>1. day' = day /\ view' = view
    BY <1>3, <1>9
  <2>2. PaintsForward(day, day', span, span')
    BY <1>3, <2>1, PaintsKept
  <2> QED
    BY <1>1, <1>2, <1>3, <1>5, <2>1, <2>2 DEF InspectorInv
<1>10. CASE mine /\ ok
  <2>1. /\ view' = [wide EXCEPT !.slots = slots] /\ day' = read
    BY <1>3, <1>10
  <2>2. ViewHolds(wide) /\ wide.mode = view.mode /\ wide.date = view.date /\ wide.buckets = view.buckets
        /\ wide.width \in {1, 2}
    <3>1. Granularity(date) \in {1, 2}
      BY DEF Granularity
    <3>2. view.width \in {1, 2}
      BY <1>1, ViewHasPicks
    <3> QED
      BY <1>1, <3>1, <3>2, MinutesStop DEF wide
  <2>3. slots \in Picks(Units) /\ SelectionHolds(slots) /\ slots.slots \subseteq Grid(wide.width)
    BY <2>2, GridIs, DaysAre, RegriddedHolds DEF slots, Reconciled
  <2>4. ViewHolds(view') /\ view'.mode = view.mode /\ view'.date = view.date /\ view'.buckets = view.buckets
    BY <2>1, <2>2, <2>3, SlotsPicked
  <2>5. /\ read \in DayHolders /\ read.payload = [date |-> date, version |-> version] /\ read.request = Nil
        /\ read.payload \in DayPayloads /\ date = view.date
    BY <1>1, <1>8, <1>10, ViewHasPicks DEF DayHolds, DayHolders, DayPayloads
  <2> HIDE DEF read
  <2>6. \A q \in flying \ {r} : ~IsCurrent(read, q)
    BY <1>2, <2>5, NilIsNoRecord DEF IsCurrent, FlyingHolds, Flights
  <2>7. DayHolds(read, flying \ {r}, loads, house)
    BY <1>8, <2>5, <2>6 DEF DayHolds
  <2>8. DayShown(view', read)
    BY <2>4, <2>5, NilIsNoRecord DEF DayShown
  <2>9. SpanShown(view', span, flying \ {r})
    BY <1>5, <2>4 DEF SpanShown
  <2>10. PaintsForward(day, day', span, span')
    <3>1. day.payload # Nil => day.payload.version <= r.at
      BY <1>1, <1>10 DEF DayHolds
    <3>2. day'.payload.version = version
      BY <2>1, <2>5
    <3>3. day.payload # Nil => day'.payload.version >= day.payload.version
      BY <1>2, <1>7, <1>8, <3>1, <3>2
    <3> QED
      BY <1>3, <1>6, <3>3 DEF PaintsForward
  <2> QED
    BY <1>1, <1>2, <1>3, <1>5, <2>1, <2>4, <2>7, <2>8, <2>9, <2>10 DEF InspectorInv
<1>11. CASE mine /\ ~ok
  <2>1. view' = view /\ day' = failed
    BY <1>3, <1>11
  <2>2. /\ failed \in DayHolders /\ failed.payload = day.payload /\ failed.request = Nil /\ failed.error = TRUE
    BY <1>1 DEF DayHolds, DayHolders
  <2> HIDE DEF failed
  <2>3. \A q \in flying \ {r} : ~IsCurrent(failed, q)
    BY <1>2, <2>2, NilIsNoRecord DEF IsCurrent, FlyingHolds, Flights
  <2>4. DayHolds(failed, flying \ {r}, loads, house) /\ DayShown(view, failed)
    BY <1>1, <2>2, <2>3 DEF DayHolds, DayShown, Failed
  <2>5. PaintsForward(day, day', span, span')
    BY <1>3, <2>1, <2>2, PaintsKept
  <2> QED
    BY <1>1, <1>2, <1>3, <1>5, <2>1, <2>4, <2>5 DEF InspectorInv
<1> QED
  BY <1>9, <1>10, <1>11

LEMMA SpanIsAnswered ==
  ASSUME InspectorInv, NEW r \in flying, NEW ok \in BOOLEAN, NEW version \in r.at..house, SpanAnswered(r, ok, version),
         flying' = flying \ {r}, UNCHANGED <<house, loads>>
  PROVE  InspectorInv' /\ PaintsForward(day, day', span, span')
<1> DEFINE mine == IsCurrent(span, r)
           shown == [bucket |-> r.key.bucket, start |-> r.key.start, version |-> version]
           read == [span EXCEPT !.shown = shown, !.loading = FALSE]
           failed == [span EXCEPT !.error = TRUE, !.loading = FALSE]
<1>1. /\ ViewHolds(view) /\ SpanHolds(span, flying, loads, house) /\ loads \in Nat
      /\ DayShown(view, day) /\ SpanShown(view, span, flying)
  BY DEF InspectorInv
<1>2. /\ r \in Flights /\ r.key \in SpanKeys /\ r.at \in Nat /\ house \in Nat
      /\ FlyingHolds(flying \ {r}, loads, house) /\ DayHolds(day, flying \ {r}, loads, house)
  BY AnswerTaken
<1>3. /\ r.key.bucket # "slot" /\ day' = day
      /\ span' = IF ~mine THEN span ELSE IF ok THEN read ELSE failed
      /\ view' = IF mine /\ ok THEN [view EXCEPT !.buckets = Reconciled(Columns(shown), view.buckets)] ELSE view
  BY DEF SpanAnswered
<1>4. span.shown # Nil => span.shown.version \in Nat
  BY <1>1 DEF SpanHolds, SpanHolders, SpanPayloads
<1>5. day.payload # Nil => day.payload.version \in Nat
  BY DEF InspectorInv, DayHolds, DayHolders, DayPayloads
<1>6. version \in Nat /\ r.at <= version /\ version <= house
  BY <1>2
<1>7. CASE ~mine
  <2>1. span' = span /\ view' = view
    BY <1>3, <1>7
  <2>2. SpanHolds(span, flying \ {r}, loads, house) /\ SpanShown(view, span, flying \ {r})
    BY <1>7, AnswerTaken
  <2>3. PaintsForward(day, day', span, span')
    BY <1>3, <2>1, PaintsKept
  <2> QED
    BY <1>1, <1>2, <1>3, <2>1, <2>2, <2>3 DEF InspectorInv
<1>8. CASE mine
  <2>0. \A q \in flying \ {r} : ~IsCurrent(span, q)
    BY <1>8, AnswerTaken DEF Expected
  <2>1. /\ span.request # Nil /\ span.request.key = r.key
    BY <1>2, <1>8, NilIsNoRecord DEF IsCurrent, Flights
  <2>2. CASE ok
    <3>1. /\ shown \in SpanPayloads /\ shown # Nil /\ shown.version = version
          /\ r.key = [bucket |-> shown.bucket, start |-> shown.start]
      BY <1>2, <1>3, <1>6, NilIsNoRecord DEF SpanKeys, SpanPayloads, Days
    <3>2. view' = [view EXCEPT !.buckets = Reconciled(Columns(shown), view.buckets)] /\ span' = read
      BY <1>3, <1>8, <2>2
    <3> HIDE DEF shown
    <3>3. /\ ViewHolds(view') /\ view'.mode = view.mode /\ view'.date = view.date
          /\ view'.buckets.slots \subseteq Columns(shown)
      BY <1>1, <3>1, <3>2, BucketsReconciled
    <3>4. /\ read \in SpanHolders /\ read.shown = shown /\ read.request = span.request /\ read.error = span.error
      BY <1>1, <3>1 DEF SpanHolds, SpanHolders
    <3> HIDE DEF read
    <3>5. \A q \in flying \ {r} : ~IsCurrent(read, q)
      BY <2>0, <3>4 DEF IsCurrent
    <3>6. SpanHolds(read, flying \ {r}, loads, house)
      BY <1>1, <1>6, <2>1, <3>1, <3>4, <3>5 DEF SpanHolds
    <3>7. SpanShown(view', read, flying \ {r})
      BY <1>1, <3>3, <3>4 DEF SpanShown
    <3>8. DayShown(view', day)
      BY <1>1, <3>3 DEF DayShown
    <3>9. PaintsForward(day, day', span, span')
      <4>1. span.shown # Nil => span.shown.version <= r.at
        BY <1>1, <1>8 DEF SpanHolds
      <4>2. span.shown # Nil => span'.shown.version >= span.shown.version
        BY <1>2, <1>4, <1>6, <3>1, <3>2, <3>4, <4>1
      <4> QED
        BY <1>3, <1>5, <4>2 DEF PaintsForward
    <3> QED
      BY <1>1, <1>2, <1>3, <3>2, <3>3, <3>6, <3>7, <3>8, <3>9 DEF InspectorInv
  <2>3. CASE ~ok
    <3>1. view' = view /\ span' = failed
      BY <1>3, <1>8, <2>3
    <3>2. /\ failed \in SpanHolders /\ failed.shown = span.shown /\ failed.request = span.request /\ failed.error = TRUE
      BY <1>1 DEF SpanHolds, SpanHolders
    <3> HIDE DEF failed
    <3>3. \A q \in flying \ {r} : ~IsCurrent(failed, q)
      BY <2>0, <3>2 DEF IsCurrent
    <3>4. SpanHolds(failed, flying \ {r}, loads, house) /\ SpanShown(view, failed, flying \ {r})
      BY <1>1, <3>2, <3>3 DEF SpanHolds, SpanShown, Failed
    <3>5. PaintsForward(day, day', span, span')
      BY <1>3, <3>1, <3>2, PaintsKept
    <3> QED
      BY <1>1, <1>2, <1>3, <3>1, <3>4, <3>5 DEF InspectorInv
  <2> QED
    BY <2>2, <2>3
<1> QED
  BY <1>7, <1>8

LEMMA InspectorStarts ==
  ASSUME InspectorInit
  PROVE  InspectorInv
<1> DEFINE key == DayOf(Today)
           request == [key |-> key, id |-> 1]
           m == [key |-> key, id |-> 1, at |-> 0]
<1>1. Today \in Days /\ key \in SpanKeys
  BY DaysAre, SpansAre DEF DayOf
<1>2. /\ request \in Requests /\ request # Nil /\ request.id = 1
      /\ m \in Flights /\ m.id = 1 /\ m.at = 0
  BY <1>1, NilIsNoRecord DEF Requests, Flights
<1>3. /\ Nowhere \in Picks(Units) /\ Nowhere \in Picks(Horizon) /\ SelectionHolds(Nowhere) /\ Nowhere.slots = {}
  BY DaysAre, NowhereHolds
<1>4. /\ view = [mode |-> "day", date |-> Today, width |-> 1, slots |-> Nowhere, buckets |-> Nowhere]
      /\ day = [payload |-> Nil, stale |-> FALSE, loading |-> TRUE, error |-> FALSE, request |-> request]
      /\ span = [shown |-> Nil, loading |-> FALSE, error |-> FALSE, request |-> Nil]
      /\ flying = {m} /\ house = 0 /\ loads = 1
  BY DEF InspectorInit
<1> HIDE DEF key, request, m
<1>5. ViewHolds(view) /\ view.mode = "day"
  BY <1>1, <1>3, <1>4 DEF ViewHolds, Views
<1>6. FlyingHolds(flying, loads, house)
  BY <1>2, <1>4 DEF FlyingHolds
<1>7. day \in DayHolders /\ day.payload = Nil /\ day.request = request
  BY <1>2, <1>4 DEF DayHolders
<1>8. span \in SpanHolders /\ span.shown = Nil /\ span.request = Nil
  BY <1>4 DEF SpanHolders
<1>9. DayHolds(day, flying, loads, house) /\ SpanHolds(span, flying, loads, house)
  BY <1>2, <1>4, <1>7, <1>8 DEF DayHolds, SpanHolds
<1>10. DayShown(view, day) /\ SpanShown(view, span, flying)
  BY <1>2, <1>5, <1>7 DEF DayShown, SpanShown
<1> QED
  BY <1>4, <1>5, <1>6, <1>9, <1>10 DEF InspectorInv

LEMMA InspectorGoesOn ==
  ASSUME InspectorInv, [InspectorNext]_inspectorVars
  PROVE  InspectorInv' /\ PaintsForward(day, day', span, span')
<1>1. CASE UNCHANGED inspectorVars
  BY <1>1, ViewMoves DEF inspectorVars, InspectorInv, NothingSent
<1>2. CASE InspectorUser
  BY <1>2, InspectorPressed
<1>3. CASE HouseMoves
  BY <1>3, HouseMovesOn
<1>4. CASE HouseTold
  BY <1>4, InspectorRefreshes DEF HouseTold
<1>5. ASSUME NEW r \in flying, InspectorAnswered(r)
      PROVE  InspectorInv' /\ PaintsForward(day, day', span, span')
  <2>1. flying' = flying \ {r} /\ UNCHANGED <<house, loads>>
    BY <1>5 DEF InspectorAnswered
  <2>2. PICK ok \in BOOLEAN, version \in r.at..house : DayAnswered(r, ok, version) \/ SpanAnswered(r, ok, version)
    BY <1>5 DEF InspectorAnswered
  <2> QED
    BY <2>1, <2>2, DayIsAnswered, SpanIsAnswered
<1> QED
  BY <1>1, <1>2, <1>3, <1>4, <1>5 DEF InspectorNext

LEMMA InspectorInvGives ==
  ASSUME InspectorInv
  PROVE  InspectorInvariant
<1>1. InspectorTypeOK
  <2>1. \A r \in flying : r.id \in 1..loads /\ r.at \in 0..house
    BY DEF InspectorInv, FlyingHolds, Flights
  <2> QED
    BY <2>1 DEF InspectorInv, ViewHolds, Views, Days, InspectorTypeOK
<1>2. PickedIsLit
  BY DEF InspectorInv, ViewHolds, PickedIsLit
<1>3. ShowsWhatIsBrowsed
  <2>1. ASSUME view.mode = "day", ~day.error, day.request = Nil
        PROVE  day.payload # Nil /\ day.payload.date = view.date
    BY <2>1 DEF InspectorInv, DayShown, Failed
  <2>2. ASSUME view.mode # "day", ~span.error, \A r \in flying : ~IsCurrent(span, r)
        PROVE  /\ span.shown # Nil
               /\ SpanOf(view.mode, view.date) = [bucket |-> span.shown.bucket, start |-> span.shown.start]
               /\ view.buckets.slots \subseteq Columns(span.shown)
    BY <2>2 DEF InspectorInv, SpanShown, SpanHolds, Failed, Expected
  <2> QED
    BY <2>1, <2>2 DEF ShowsWhatIsBrowsed
<1> QED
  BY <1>1, <1>2, <1>3 DEF InspectorInvariant

----------------------------------------------------------------------------
(* The surfaces side by side.                                                     *)

(* A surface that is not the behaviour's stays as it was; a panel that does is    *)
(* still one whose badge and mark can be relied on.                               *)
ConfigInv ==
  /\ WireTyped /\ panel \in PanelRec /\ PanelLinks(panel)
  /\ surface = "panel" => PanelAll
  /\ surface = "dialog" => DialogAll
  /\ surface = "admin" => AdminAll
  /\ DraftInv

LEMMA ConfigStarts == Init => ConfigInv
<1> SUFFICES ASSUME Init PROVE ConfigInv
  OBVIOUS
<1>1. PanelAll /\ DialogAll /\ AdminAll /\ DraftInv
  BY PanelStarts, DialogStarts, AdminStarts, DraftStarts DEF Init
<1> QED
  BY <1>1 DEF ConfigInv, PanelAll, PanelInv

(* Nothing but the server touches the stored document.                            *)
LEMMA OnlyServerStores ==
  ASSUME PanelNext \/ DialogNext \/ AdminNext, store' # store
  PROVE  Server
<1>1. ASSUME PanelNext, ~Server PROVE store' = store
  BY <1>1 DEF PanelNext, Opens, PanelReads, Loads, LoadFails, Edits, TypesBadYaml, TogglesYaml, ClicksReload,
              ClicksValidate, Reported, ClicksSave, SaveAnswered, SaveEnds, PanelTold, wireVars
<1>2. ASSUME DialogNext, ~Server PROVE store' = store
  BY <1>2 DEF DialogNext, Opened, DialogReads, Shows, EditsDevice, EditsOptimizer, SetsEnabled, DialogSaves,
              DialogAnswered, DialogReloads, DialogCloses, DialogTold, wireVars
<1>3. ASSUME AdminNext, ~Server PROVE store' = store
  BY <1>3 DEF AdminNext, Starts, Answered, Presses, PressReads, PressAnswered, AdminTold
<1> QED
  BY <1>1, <1>2, <1>3

LEMMA ConfigRests ==
  ASSUME ConfigInv, UNCHANGED <<configVars, surface>>
  PROVE  ConfigInv'
<1>1. UNCHANGED <<store, serving, reloading, overlapped, asks, answers, heard, asked, edits, panel, dialog, admin,
                  draft, inspection, vendors, surface>>
  BY DEF configVars, wireVars, draftVars
<1>2. WireTyped'
  BY <1>1 DEF ConfigInv, WireTyped
<1>3. (panel \in PanelRec /\ PanelLinks(panel))'
  BY <1>1 DEF ConfigInv
<1>4. surface' = "panel" => PanelAll'
  BY <1>1, <1>2 DEF ConfigInv, PanelAll
<1>5. surface' = "dialog" => DialogAll'
  BY <1>1, <1>2 DEF ConfigInv, DialogAll
<1>6. surface' = "admin" => AdminAll'
  BY <1>1, <1>2 DEF ConfigInv, AdminAll
<1>7. DraftInv'
  BY <1>1 DEF ConfigInv, DraftInv
<1> QED
  BY <1>2, <1>3, <1>4, <1>5, <1>6, <1>7 DEF ConfigInv

DialogClosing ==
  dialog'.closed /\ ~dialog.closed =>
    IF dialog.saving THEN overlapped \/ dialog.sent = SentDoc(dialog)
    ELSE dialog.dirty => dialog'.agreed

AdminShowing ==
  admin.config # None => admin'.config # None /\ admin'.config.others >= admin.config.others

OthersKept == ~overlapped => store'.others >= store.others

LEMMA ConfigGoesOn ==
  ASSUME ConfigInv, [Next]_surfaceVars
  PROVE  /\ ConfigInv'
         /\ [OthersKept]_store
         /\ [DialogClosing]_dialog
         /\ [AdminShowing]_admin
         /\ [OnlyNewerReadings]_inspection
<1>0. WireTyped /\ DraftInv
  BY DEF ConfigInv
<1>1. ASSUME SavesSafe(asks) \/ overlapped, PanelNext \/ DialogNext \/ AdminNext
      PROVE  [OthersKept]_store
  BY <1>0, <1>1, OnlyServerStores, ServerSavesSafe DEF OthersKept
<1>2. CASE surface = "panel" /\ PanelNext /\ UNCHANGED <<dialog, admin, draftVars, surface>>
  <2>1. PanelAll /\ PanelAll'
    BY <1>2, PanelGoesOn DEF ConfigInv
  <2>2. DraftInv' /\ inspection' = inspection
    BY <1>0, <1>2 DEF DraftInv, draftVars
  <2>3. SavesSafe(asks) \/ overlapped
    BY <2>1, <1>0, PanelInvGives DEF WireTyped
  <2> QED
    BY <1>1, <1>2, <2>1, <2>2, <2>3 DEF ConfigInv, PanelAll, PanelInv
<1>3. CASE surface = "dialog" /\ DialogNext /\ UNCHANGED <<panel, admin, draftVars, surface>>
  <2>1. DialogAll /\ DialogAll'
    BY <1>3, DialogGoesOn DEF ConfigInv
  <2>2. DraftInv' /\ inspection' = inspection
    BY <1>0, <1>3 DEF DraftInv, draftVars
  <2>3. SavesSafe(asks) \/ overlapped
    BY <2>1, <1>0, DialogInvGives DEF WireTyped
  <2>4. DialogClosing
    BY <1>3, <2>1, DialogCloseIs DEF DialogClosing
  <2>5. (panel \in PanelRec /\ PanelLinks(panel))'
    BY <1>3 DEF ConfigInv
  <2> QED
    BY <1>1, <1>3, <2>1, <2>2, <2>3, <2>4, <2>5 DEF ConfigInv, DialogAll
<1>4. CASE surface = "admin" /\ AdminNext /\ UNCHANGED <<panel, dialog, draftVars, surface>>
  <2>1. AdminAll /\ AdminAll' /\ NoneLost
    BY <1>4, AdminGoesOn DEF ConfigInv
  <2>2. DraftInv' /\ inspection' = inspection
    BY <1>0, <1>4 DEF DraftInv, draftVars
  <2>3. SavesSafe(asks) \/ overlapped
    BY <2>1, AdminInvGives
  <2>4. AdminShowing
    <3>1. admin.config \in Docs \union {None}
      BY <2>1 DEF AdminAll, AdminInv, AdminRec
    <3> QED
      BY <2>1, <3>1, NoneAssumption DEF AdminShowing, NoneLost
  <2>5. (panel \in PanelRec /\ PanelLinks(panel))'
    BY <1>4 DEF ConfigInv
  <2> QED
    BY <1>1, <1>4, <2>1, <2>2, <2>3, <2>4, <2>5 DEF ConfigInv, AdminAll
<1>5. CASE surface = "draft" /\ DraftNext /\ UNCHANGED <<wireVars, edits, panel, dialog, admin, surface>>
  <2>1. DraftInv' /\ OnlyNewerReadings
    BY <1>0, <1>5, DraftGoesOn
  <2>2. WireTyped' /\ store' = store
    BY <1>0, <1>5 DEF WireTyped, wireVars
  <2>3. (panel \in PanelRec /\ PanelLinks(panel))'
    BY <1>5 DEF ConfigInv
  <2> QED
    BY <1>5, <2>1, <2>2, <2>3 DEF ConfigInv
<1>6. CASE UNCHANGED <<configVars, surface>>
  <2>1. UNCHANGED <<store, dialog, admin, inspection>>
    BY <1>6 DEF configVars, wireVars, draftVars
  <2> QED
    BY <1>6, <2>1, ConfigRests
<1> QED
  BY <1>2, <1>3, <1>4, <1>5, <1>6 DEF Next, Config, surfaceVars

(* The panel's badge and its mark of unsaved edits can be relied on, whatever is  *)
(* edited, read, checked, saved and announced in which order, and what an editor  *)
(* shows beside a draft is about that draft (helman-config-editor.ts,             *)
(* entity-inspection-controller.ts, hardware-profile.ts).                         *)
THEOREM ConfigHolds == Spec => []ConfigInvariant
<1>1. Init => ConfigInv
  BY ConfigStarts
<1>2. ConfigInv /\ [Next]_surfaceVars => ConfigInv'
  BY ConfigGoesOn
<1>3. ConfigInv => ConfigInvariant
  <2> SUFFICES ASSUME ConfigInv PROVE ConfigInvariant
    OBVIOUS
  <2>1. WireTypeOK
    BY DEF ConfigInv, WireTyped, WireTypeOK, Serving
  <2>2. panel \in PanelRec /\ PanelLinks(panel)
    BY DEF ConfigInv
  <2>3. PanelTypeOK
    BY <2>1, <2>2 DEF PanelTypeOK, PanelRec
  <2>4. CleanMeansStored /\ BadgeIsAboutTheDraft
    BY <2>2 DEF PanelLinks, Clean, PanelRec, CleanMeansStored, BadgeIsAboutTheDraft
  <2> QED
    BY <2>3, <2>4, DraftInvAnswers DEF ConfigInvariant, PanelInvariant, ConfigInv
<1> QED
  BY <1>1, <1>2, <1>3, PTL DEF Spec

(* No save of this client's loses what another one saved: not the panel's, not a  *)
(* dialog's, not a switch's, but for the two overlaps the property names          *)
(* (config-session.ts, ws_save_config of websockets.py).                          *)
THEOREM OthersWorkSurvives == Spec => OthersWorkIsKept
<1>1. Init => ConfigInv
  BY ConfigStarts
<1>2. ConfigInv /\ [Next]_surfaceVars => ConfigInv'
  BY ConfigGoesOn
<1>3. ConfigInv /\ [Next]_surfaceVars => [OthersKept]_store
  BY ConfigGoesOn
<1> QED
  BY <1>1, <1>2, <1>3, PTL DEF Spec, OthersWorkIsKept, OthersKept

(* A dialog closes on a save of the draft with every edit in it, or on the user's *)
(* word that the edits may go (helman-device-edit-dialog.ts,                      *)
(* helman-optimizer-edit-dialog.ts).                                              *)
THEOREM DialogClosesOnTheDraft == Spec => ClosesOnWhatIsSaved
<1>1. Init => ConfigInv
  BY ConfigStarts
<1>2. ConfigInv /\ [Next]_surfaceVars => ConfigInv'
  BY ConfigGoesOn
<1>3. ConfigInv /\ [Next]_surfaceVars => [DialogClosing]_dialog
  BY ConfigGoesOn
<1> QED
  BY <1>1, <1>2, <1>3, PTL DEF Spec, ClosesOnWhatIsSaved, DialogClosing

(* The detail of a node and the inspector are each a surface of their own.        *)
FiguresGoOn ==
  /\ detail.overview.status = "ready" =>
       /\ detail'.overview.status = "ready"
       /\ detail'.overview.mode >= detail.overview.mode /\ detail'.overview.data >= detail.overview.data
  /\ detail.section.status = "ready" /\ detail'.section.status = "ready"
       => detail'.section.data >= detail.section.data /\ detail'.section.readAt >= detail.section.readAt

InspectorPaints ==
  /\ day.payload # Nil /\ day'.payload.date = day.payload.date
       => day'.payload.version >= day.payload.version
  /\ span.shown # Nil /\ [span'.shown EXCEPT !.version = 0] = [span.shown EXCEPT !.version = 0]
       => span'.shown.version >= span.shown.version

LEMMA DetailStaysSound ==
  ASSUME DetailInv, [Next]_surfaceVars
  PROVE  DetailInv' /\ FiguresGoOn
<1>1. [DetailNext]_detailVars
  BY DEF Next, Config, surfaceVars, besideVars
<1>2. DetailInv' /\ Onward(detail, detail')
  BY <1>1, DetailGoesOn
<1> QED
  BY <1>2 DEF Onward, FiguresGoOn

LEMMA InspectorStaysSound ==
  ASSUME InspectorInv, [Next]_surfaceVars
  PROVE  InspectorInv' /\ InspectorPaints
<1>1. [InspectorNext]_inspectorVars
  BY DEF Next, Config, surfaceVars, besideVars
<1>2. InspectorInv' /\ PaintsForward(day, day', span, span')
  BY <1>1, InspectorGoesOn
<1> QED
  BY <1>2 DEF PaintsForward, InspectorPaints

(* A node's detail, whatever is pushed, announced, opened, left and answered in   *)
(* which order: what shows as loading is being read, the age of its figures is    *)
(* known, and once nothing is on its way what it shows is of the mode and the     *)
(* data it was told of, but for a read that failed or was called off              *)
(* (node-detail-base.ts, section-resource.ts).                                    *)
THEOREM DetailHolds == Spec => []DetailInvariant
<1>1. Init => DetailInv
  BY DetailStarts DEF Init
<1>2. DetailInv /\ [Next]_surfaceVars => DetailInv'
  BY DetailStaysSound
<1>3. DetailInv => DetailInvariant
  BY DetailInvGives
<1> QED
  BY <1>1, <1>2, <1>3, PTL DEF Spec

(* The inspector, whatever is pressed and answered in which order: with nothing   *)
(* under way the view is of what is browsed, no column is picked that it does not *)
(* draw, and the panels are about a slot that is lit (helman-solar-inspector.ts,  *)
(* slot-selection.ts).                                                            *)
THEOREM InspectorHolds == Spec => []InspectorInvariant
<1>1. Init => InspectorInv
  BY InspectorStarts DEF Init
<1>2. InspectorInv /\ [Next]_surfaceVars => InspectorInv'
  BY InspectorStaysSound
<1>3. InspectorInv => InspectorInvariant
  BY InspectorInvGives
<1> QED
  BY <1>1, <1>2, <1>3, PTL DEF Spec

(* What a view shows never gives way to something older, in whatever order the    *)
(* answers arrive: the switches of a Control view, the readings beside a draft,   *)
(* the inspector's days and spans, the figures of a node's detail                 *)
(* (admin-config-controller.ts, entity-inspection-controller.ts,                  *)
(* helman-solar-inspector.ts, node-detail-base.ts, section-resource.ts).          *)
THEOREM NothingShownGoesBack == Spec => ShownNeverGoesBack
<1> DEFINE Inv == ConfigInv /\ DetailInv /\ InspectorInv
<1>1. Init => Inv
  BY ConfigStarts, DetailStarts, InspectorStarts DEF Init
<1>2. Inv /\ [Next]_surfaceVars => Inv'
  BY ConfigGoesOn, DetailStaysSound, InspectorStaysSound
<1>3. Inv /\ [Next]_surfaceVars => [AdminShowing]_admin /\ [OnlyNewerReadings]_inspection
  BY ConfigGoesOn
<1>4. Inv /\ [Next]_surfaceVars => [InspectorPaints]_inspectorState /\ [FiguresGoOn]_detailVars
  BY DetailStaysSound, InspectorStaysSound
<1> HIDE DEF Inv
<1>5. Spec => []Inv
  BY <1>1, <1>2, PTL DEF Spec
<1>6. Spec => SwitchesNeverGoBack /\ ReadingsNeverGoBack
  BY <1>3, <1>5, PTL DEF Spec, SwitchesNeverGoBack, ReadingsNeverGoBack, AdminShowing, OnlyNewerReadings
<1>7. Spec => PaintsOnlyNewer
  BY <1>4, <1>5, PTL DEF Spec, PaintsOnlyNewer, InspectorPaints
<1>8. Spec => FiguresNeverGoBack
  BY <1>4, <1>5, PTL DEF Spec, FiguresNeverGoBack, FiguresGoOn
<1> QED
  BY <1>6, <1>7, <1>8, PTL DEF ShownNeverGoesBack

(* A behaviour of a tab is, for the dialogs on the browser's history, one of       *)
(* theirs alone: no other surface touches what DialogHistory keeps, so what is     *)
(* shown of it by itself holds of the tab (dialog-history-controller.ts).          *)
THEOREM DialogsAreTheirOwn == Spec => HistorySpec
<1>1. Init => HistoryInit
  BY DEF Init
<1>2. [Next]_surfaceVars => [HistoryNext]_historyVars
  BY DEF Next, Config, surfaceVars, besideVars
<1> QED
  BY <1>1, <1>2, PTL DEF Spec, HistorySpec
==============================================================================
