-------------------------- MODULE DialogHistoryProofs --------------------------
(***************************************************************************)
(* The dialogs of a card on the browser's history, for any nodes and any   *)
(* number of touches.  What may lie over what is one of seven stacks; the  *)
(* Path says which key of which dialog each entry up to the one landed on  *)
(* holds, and the Book that every id was given out once and that nobody    *)
(* answers for what lies beyond.  A tab is Sound up to an entry when its   *)
(* dialogs, lists and trail fit that, and Calm when it is so where it      *)
(* stands and no dialog sleeps.  The inductive invariant Orderly has one   *)
(* case for each way traversals can be under way (Underway): none or only  *)
(* the user's, a Forward, a dialog's own steps back, the detail's from     *)
(* where a Forward found an entry left behind, and the two releases.       *)
(***************************************************************************)
EXTENDS DialogHistory, SequenceTheorems, TLAPS
----------------------------------------------------------------------------
(* Short sequences of keys.                                                  *)

LEMMA OneOf == ASSUME NEW s \in Seq(Keys), NEW a, Len(s) = 1, s[1] = a PROVE s = <<a>>
OBVIOUS
LEMMA TwoOf == ASSUME NEW s \in Seq(Keys), NEW a, NEW b, Len(s) = 2, s[1] = a, s[2] = b PROVE s = <<a, b>>
OBVIOUS

LEMMA RemovesAt ==
  ASSUME NEW s \in Seq(Keys), NEW k \in Keys, NEW i \in 1..Len(s), s[i] = k, \A j \in 1..Len(s) : s[j] = k => j = i
  PROVE  RemoveFirst(s, k) = SubSeq(s, 1, i - 1) \o SubSeq(s, i + 1, Len(s))
<1> DEFINE I == {j \in 1..Len(s) : s[j] = k}
<1>1. I = {i}
  OBVIOUS
<1>2. Min({i}) = i
  BY DEF Min
<1>3. SelectInSeq(s, LAMBDA v : v = k) = IF I # {} THEN Min(I) ELSE 0
  BY Zenon DEF SelectInSeq
<1>4. RemoveFirst(s, k) = RemoveAt(s, SelectInSeq(s, LAMBDA v : v = k))
  BY Zenon DEF RemoveFirst
<1> HIDE DEF I
<1> QED
  BY <1>1, <1>2, <1>3, <1>4 DEF RemoveAt

LEMMA RemovesNone ==
  ASSUME NEW s, NEW k, \A j \in 1..Len(s) : s[j] # k
  PROVE  RemoveFirst(s, k) = s
BY Zenon DEF RemoveFirst

LEMMA RemovesTop ==
  ASSUME NEW s \in Seq(Keys), NEW k \in Keys, Len(s) > 0, s[Len(s)] = k, \A j \in 1..(Len(s) - 1) : s[j] # k
  PROVE  RemoveFirst(s, k) = SubSeq(s, 1, Len(s) - 1)
<1>1. Len(s) \in 1..Len(s) /\ \A j \in 1..Len(s) : s[j] = k => j = Len(s)
  OBVIOUS
<1>2. RemoveFirst(s, k) = SubSeq(s, 1, Len(s) - 1) \o SubSeq(s, Len(s) + 1, Len(s))
  BY <1>1, RemovesAt
<1>3. SubSeq(s, Len(s) + 1, Len(s)) = <<>>
  OBVIOUS
<1> QED
  BY <1>2, <1>3

LEMMA RemovesBottom ==
  ASSUME NEW s \in Seq(Keys), NEW k \in Keys, Len(s) > 0, s[1] = k, \A j \in 2..Len(s) : s[j] # k
  PROVE  RemoveFirst(s, k) = SubSeq(s, 2, Len(s))
<1>1. 1 \in 1..Len(s) /\ \A j \in 1..Len(s) : s[j] = k => j = 1
  OBVIOUS
<1>2. RemoveFirst(s, k) = SubSeq(s, 1, 1 - 1) \o SubSeq(s, 1 + 1, Len(s))
  BY <1>1, RemovesAt
<1>3. SubSeq(s, 1, 1 - 1) = <<>> /\ 1 + 1 = 2
  OBVIOUS
<1> QED
  BY <1>2, <1>3

(* The dialogs that may lie over one another, from the bottom.               *)
Alone == <<"detail">>
WithControl == <<"detail", "control">>
OnDetail == <<"detail", "editor">>
Editing == <<"editor">>
OnEditor == <<"editor", "detail">>
Full == <<"editor", "detail", "control">>
Stacks == {<<>>, Alone, WithControl, OnDetail, Editing, OnEditor, Full}

LEMMA KeysAre == "detail" \in Keys /\ "control" \in Keys /\ "editor" \in Keys
BY DEF Keys

LEMMA StacksAre ==
  /\ <<>> \in Seq(Keys) /\ Len(<<>>) = 0
  /\ Alone \in Seq(Keys) /\ Len(Alone) = 1 /\ Alone[1] = "detail"
  /\ WithControl \in Seq(Keys) /\ Len(WithControl) = 2 /\ WithControl[1] = "detail" /\ WithControl[2] = "control"
  /\ OnDetail \in Seq(Keys) /\ Len(OnDetail) = 2 /\ OnDetail[1] = "detail" /\ OnDetail[2] = "editor"
  /\ Editing \in Seq(Keys) /\ Len(Editing) = 1 /\ Editing[1] = "editor"
  /\ OnEditor \in Seq(Keys) /\ Len(OnEditor) = 2 /\ OnEditor[1] = "editor" /\ OnEditor[2] = "detail"
  /\ Full \in Seq(Keys) /\ Len(Full) = 3 /\ Full[1] = "editor" /\ Full[2] = "detail" /\ Full[3] = "control"
BY KeysAre DEF Alone, WithControl, OnDetail, Editing, OnEditor, Full

LEMMA StacksDiffer ==
  /\ <<>> # Alone /\ <<>> # WithControl /\ <<>> # OnDetail /\ <<>> # Editing /\ <<>> # OnEditor /\ <<>> # Full
  /\ Alone # WithControl /\ Alone # OnDetail /\ Alone # Editing /\ Alone # OnEditor /\ Alone # Full
  /\ WithControl # OnDetail /\ WithControl # Editing /\ WithControl # OnEditor /\ WithControl # Full
  /\ OnDetail # Editing /\ OnDetail # OnEditor /\ OnDetail # Full
  /\ Editing # OnEditor /\ Editing # Full /\ OnEditor # Full
<1>1. <<>> # Alone /\ <<>> # WithControl /\ <<>> # OnDetail /\ <<>> # Editing /\ <<>> # OnEditor /\ <<>> # Full
  BY StacksAre
<1>2. Alone # WithControl /\ Alone # OnDetail /\ Alone # Editing /\ Alone # OnEditor /\ Alone # Full
  BY StacksAre
<1>3. WithControl # OnDetail /\ WithControl # Editing /\ WithControl # OnEditor /\ WithControl # Full
  BY StacksAre
<1>4. OnDetail # Editing /\ OnDetail # OnEditor /\ OnDetail # Full
  BY StacksAre
<1>5. Editing # OnEditor /\ Editing # Full /\ OnEditor # Full
  BY StacksAre
<1> QED
  BY <1>1, <1>2, <1>3, <1>4, <1>5

LEMMA Holding ==
  /\ ToSet(<<>>) = {} /\ ToSet(Alone) = {"detail"} /\ ToSet(Editing) = {"editor"}
  /\ ToSet(WithControl) = {"detail", "control"}
  /\ ToSet(OnDetail) = {"detail", "editor"} /\ ToSet(OnEditor) = {"detail", "editor"}
  /\ ToSet(Full) = {"detail", "control", "editor"}
<1>1. ToSet(<<>>) = {} /\ ToSet(Alone) = {"detail"} /\ ToSet(Editing) = {"editor"}
  BY DEF ToSet, Alone, Editing
<1>2. ToSet(WithControl) = {"detail", "control"}
  BY DEF ToSet, WithControl
<1>4. ToSet(OnDetail) = {"detail", "editor"} /\ ToSet(OnEditor) = {"detail", "editor"}
  BY DEF ToSet, OnDetail, OnEditor
<1>5. ToSet(Full) = {"detail", "control", "editor"}
  BY DEF ToSet, Full
<1> QED
  BY <1>1, <1>2, <1>4, <1>5

LEMMA Stacking ==
  /\ Append(<<>>, "detail") = Alone /\ Append(<<>>, "editor") = Editing
  /\ Append(Alone, "control") = WithControl /\ Append(Alone, "editor") = OnDetail
  /\ Append(Editing, "detail") = OnEditor /\ Append(OnEditor, "control") = Full
<1>1. Append(<<>>, "detail") = Alone /\ Append(<<>>, "editor") = Editing
  BY DEF Alone, Editing
<1>2. Append(Alone, "control") = WithControl
  <2>1. Append(Alone, "control") \in Seq(Keys) /\ Len(Append(Alone, "control")) = 2
        /\ Append(Alone, "control")[1] = "detail" /\ Append(Alone, "control")[2] = "control"
    BY StacksAre, KeysAre
  <2> QED
    BY <2>1, TwoOf DEF WithControl
<1>3. Append(Alone, "editor") = OnDetail
  <2>1. Append(Alone, "editor") \in Seq(Keys) /\ Len(Append(Alone, "editor")) = 2
        /\ Append(Alone, "editor")[1] = "detail" /\ Append(Alone, "editor")[2] = "editor"
    BY StacksAre, KeysAre
  <2> QED
    BY <2>1, TwoOf DEF OnDetail
<1>4. Append(Editing, "detail") = OnEditor
  <2>1. Append(Editing, "detail") \in Seq(Keys) /\ Len(Append(Editing, "detail")) = 2
        /\ Append(Editing, "detail")[1] = "editor" /\ Append(Editing, "detail")[2] = "detail"
    BY StacksAre, KeysAre
  <2> QED
    BY <2>1, TwoOf DEF OnEditor
<1>5. Append(OnEditor, "control") = Full
  <2>0. OnEditor \in Seq(Keys) /\ Len(OnEditor) = 2 /\ OnEditor[1] = "editor" /\ OnEditor[2] = "detail"
    BY StacksAre
  <2>10. \A s \in Seq(Keys), k \in Keys :
          Append(s, k) \in Seq(Keys) /\ Len(Append(s, k)) = Len(s) + 1 /\ Append(s, k)[Len(s) + 1] = k
          /\ \A i \in 1..Len(s) : Append(s, k)[i] = s[i]
    OBVIOUS
  <2>1. /\ Append(OnEditor, "control") \in Seq(Keys) /\ Len(Append(OnEditor, "control")) = Len(OnEditor) + 1
        /\ Append(OnEditor, "control")[Len(OnEditor) + 1] = "control"
        /\ \A i \in 1..Len(OnEditor) : Append(OnEditor, "control")[i] = OnEditor[i]
    BY <2>0, <2>10, KeysAre, Zenon
  <2>2. 1 \in 1..2 /\ 2 \in 1..2 /\ 2 + 1 = 3
    OBVIOUS
  <2>3. ASSUME NEW s \in Seq(Keys), Len(s) = 3, s[1] = "editor", s[2] = "detail", s[3] = "control" PROVE s = Full
    BY <2>3 DEF Full
  <2>4. /\ Append(OnEditor, "control")[1] = "editor" /\ Append(OnEditor, "control")[2] = "detail"
        /\ Append(OnEditor, "control")[3] = "control" /\ Len(Append(OnEditor, "control")) = 3
    BY <2>0, <2>1, <2>2
  <2> QED
    BY <2>1, <2>3, <2>4
<1> QED
  BY <1>1, <1>2, <1>3, <1>4, <1>5

LEMMA Unstacking ==
  /\ SubSeq(Alone, 1, 0) = <<>> /\ SubSeq(Editing, 1, 0) = <<>>
  /\ SubSeq(WithControl, 1, 1) = Alone /\ SubSeq(OnDetail, 1, 1) = Alone /\ SubSeq(OnEditor, 1, 1) = Editing
  /\ SubSeq(Full, 1, 2) = OnEditor
  /\ SubSeq(OnDetail, 2, 2) = Editing /\ SubSeq(OnEditor, 2, 2) = Alone /\ SubSeq(Full, 2, 3) = WithControl
<1>1. SubSeq(Alone, 1, 0) = <<>> /\ SubSeq(Editing, 1, 0) = <<>>
  BY StacksAre
<1>2. SubSeq(WithControl, 1, 1) = Alone /\ SubSeq(OnDetail, 1, 1) = Alone /\ SubSeq(OnDetail, 2, 2) = Editing
  <2>1. \A s \in {WithControl, OnDetail}, i \in 1..2 :
          SubSeq(s, i, i) \in Seq(Keys) /\ Len(SubSeq(s, i, i)) = 1 /\ SubSeq(s, i, i)[1] = s[i]
    BY StacksAre
  <2>2. \A s \in {WithControl, OnDetail}, i \in 1..2 : SubSeq(s, i, i) = <<s[i]>>
    BY <2>1, OneOf
  <2> QED
    BY <2>2, StacksAre DEF Alone, Editing
<1>3. SubSeq(OnEditor, 1, 1) = Editing /\ SubSeq(OnEditor, 2, 2) = Alone
  <2>1. \A i \in 1..2 : SubSeq(OnEditor, i, i) \in Seq(Keys) /\ Len(SubSeq(OnEditor, i, i)) = 1
                        /\ SubSeq(OnEditor, i, i)[1] = OnEditor[i]
    BY StacksAre
  <2>2. \A i \in 1..2 : SubSeq(OnEditor, i, i) = <<OnEditor[i]>>
    BY <2>1, OneOf
  <2> QED
    BY <2>2, StacksAre DEF Alone, Editing
<1>4. SubSeq(Full, 1, 2) = OnEditor
  <2>1. SubSeq(Full, 1, 2) \in Seq(Keys) /\ Len(SubSeq(Full, 1, 2)) = 2
        /\ SubSeq(Full, 1, 2)[1] = "editor" /\ SubSeq(Full, 1, 2)[2] = "detail"
    BY StacksAre
  <2> QED
    BY <2>1, TwoOf DEF OnEditor
<1>5. SubSeq(Full, 2, 3) = WithControl
  <2>1. SubSeq(Full, 2, 3) \in Seq(Keys) /\ Len(SubSeq(Full, 2, 3)) = 2
        /\ SubSeq(Full, 2, 3)[1] = "detail" /\ SubSeq(Full, 2, 3)[2] = "control"
    BY StacksAre
  <2> QED
    BY <2>1, TwoOf DEF WithControl
<1> QED
  BY <1>1, <1>2, <1>3, <1>4, <1>5

LEMMA WithoutControl ==
  /\ RemoveFirst(WithControl, "control") = Alone /\ RemoveFirst(Full, "control") = OnEditor
  /\ \A s \in {<<>>, Alone, OnDetail, Editing, OnEditor} : RemoveFirst(s, "control") = s
<1>1. RemoveFirst(WithControl, "control") = SubSeq(WithControl, 1, 1)
  <2>1. Len(WithControl) > 0 /\ WithControl[Len(WithControl)] = "control" /\ \A j \in 1..(Len(WithControl) - 1) : WithControl[j] # "control"
    BY StacksAre
  <2>2. WithControl \in Seq(Keys) /\ "control" \in Keys
    BY StacksAre, KeysAre
  <2>3. RemoveFirst(WithControl, "control") = SubSeq(WithControl, 1, Len(WithControl) - 1)
    BY <2>1, <2>2, RemovesTop, Zenon
  <2> QED
    BY <2>3, StacksAre
<1>2. RemoveFirst(Full, "control") = SubSeq(Full, 1, 2)
  <2>1. Len(Full) > 0 /\ Full[Len(Full)] = "control" /\ \A j \in 1..(Len(Full) - 1) : Full[j] # "control"
    BY StacksAre
  <2>2. Full \in Seq(Keys) /\ "control" \in Keys
    BY StacksAre, KeysAre
  <2>3. RemoveFirst(Full, "control") = SubSeq(Full, 1, Len(Full) - 1)
    BY <2>1, <2>2, RemovesTop, Zenon
  <2> QED
    BY <2>3, StacksAre
<1>3. \A s \in {<<>>, Alone, OnDetail, Editing, OnEditor} : \A j \in 1..Len(s) : s[j] # "control"
  BY StacksAre
<1> QED
  BY <1>1, <1>2, <1>3, Unstacking, RemovesNone

LEMMA WithoutDetail ==
  /\ RemoveFirst(Alone, "detail") = <<>> /\ RemoveFirst(OnEditor, "detail") = Editing
  /\ RemoveFirst(OnDetail, "detail") = Editing
  /\ \A s \in {<<>>, Editing} : RemoveFirst(s, "detail") = s
<1>1. RemoveFirst(Alone, "detail") = SubSeq(Alone, 1, 0)
  <2>1. Len(Alone) > 0 /\ Alone[Len(Alone)] = "detail" /\ \A j \in 1..(Len(Alone) - 1) : Alone[j] # "detail"
    BY StacksAre
  <2>2. Alone \in Seq(Keys) /\ "detail" \in Keys
    BY StacksAre, KeysAre
  <2>3. RemoveFirst(Alone, "detail") = SubSeq(Alone, 1, Len(Alone) - 1)
    BY <2>1, <2>2, RemovesTop, Zenon
  <2> QED
    BY <2>3, StacksAre
<1>2. RemoveFirst(OnEditor, "detail") = SubSeq(OnEditor, 1, 1)
  <2>1. Len(OnEditor) > 0 /\ OnEditor[Len(OnEditor)] = "detail" /\ \A j \in 1..(Len(OnEditor) - 1) : OnEditor[j] # "detail"
    BY StacksAre
  <2>2. OnEditor \in Seq(Keys) /\ "detail" \in Keys
    BY StacksAre, KeysAre
  <2>3. RemoveFirst(OnEditor, "detail") = SubSeq(OnEditor, 1, Len(OnEditor) - 1)
    BY <2>1, <2>2, RemovesTop, Zenon
  <2> QED
    BY <2>3, StacksAre
<1>3. RemoveFirst(OnDetail, "detail") = SubSeq(OnDetail, 2, 2)
  <2>1. Len(OnDetail) > 0 /\ OnDetail[1] = "detail" /\ \A j \in 2..Len(OnDetail) : OnDetail[j] # "detail"
    BY StacksAre
  <2>2. OnDetail \in Seq(Keys) /\ "detail" \in Keys
    BY StacksAre, KeysAre
  <2>3. RemoveFirst(OnDetail, "detail") = SubSeq(OnDetail, 2, Len(OnDetail))
    BY <2>1, <2>2, RemovesBottom, Zenon
  <2> QED
    BY <2>3, StacksAre
<1>4. \A s \in {<<>>, Editing} : \A j \in 1..Len(s) : s[j] # "detail"
  BY StacksAre
<1> QED
  BY <1>1, <1>2, <1>3, <1>4, Unstacking, RemovesNone

LEMMA WithoutEditor ==
  /\ RemoveFirst(Editing, "editor") = <<>> /\ RemoveFirst(OnEditor, "editor") = Alone
  /\ RemoveFirst(OnDetail, "editor") = Alone /\ RemoveFirst(Full, "editor") = WithControl
  /\ \A s \in {<<>>, Alone, WithControl} : RemoveFirst(s, "editor") = s
<1>1. RemoveFirst(Editing, "editor") = SubSeq(Editing, 1, 0)
  <2>1. Len(Editing) > 0 /\ Editing[Len(Editing)] = "editor" /\ \A j \in 1..(Len(Editing) - 1) : Editing[j] # "editor"
    BY StacksAre
  <2>2. Editing \in Seq(Keys) /\ "editor" \in Keys
    BY StacksAre, KeysAre
  <2>3. RemoveFirst(Editing, "editor") = SubSeq(Editing, 1, Len(Editing) - 1)
    BY <2>1, <2>2, RemovesTop, Zenon
  <2> QED
    BY <2>3, StacksAre
<1>2. RemoveFirst(OnEditor, "editor") = SubSeq(OnEditor, 2, 2)
  <2>1. Len(OnEditor) > 0 /\ OnEditor[1] = "editor" /\ \A j \in 2..Len(OnEditor) : OnEditor[j] # "editor"
    BY StacksAre
  <2>2. OnEditor \in Seq(Keys) /\ "editor" \in Keys
    BY StacksAre, KeysAre
  <2>3. RemoveFirst(OnEditor, "editor") = SubSeq(OnEditor, 2, Len(OnEditor))
    BY <2>1, <2>2, RemovesBottom, Zenon
  <2> QED
    BY <2>3, StacksAre
<1>3. RemoveFirst(OnDetail, "editor") = SubSeq(OnDetail, 1, 1)
  <2>1. Len(OnDetail) > 0 /\ OnDetail[Len(OnDetail)] = "editor" /\ \A j \in 1..(Len(OnDetail) - 1) : OnDetail[j] # "editor"
    BY StacksAre
  <2>2. OnDetail \in Seq(Keys) /\ "editor" \in Keys
    BY StacksAre, KeysAre
  <2>3. RemoveFirst(OnDetail, "editor") = SubSeq(OnDetail, 1, Len(OnDetail) - 1)
    BY <2>1, <2>2, RemovesTop, Zenon
  <2> QED
    BY <2>3, StacksAre
<1>4. RemoveFirst(Full, "editor") = SubSeq(Full, 2, 3)
  <2>1. Len(Full) > 0 /\ Full[1] = "editor" /\ \A j \in 2..Len(Full) : Full[j] # "editor"
    BY StacksAre
  <2>2. Full \in Seq(Keys) /\ "editor" \in Keys
    BY StacksAre, KeysAre
  <2>3. RemoveFirst(Full, "editor") = SubSeq(Full, 2, Len(Full))
    BY <2>1, <2>2, RemovesBottom, Zenon
  <2> QED
    BY <2>3, StacksAre
<1>5. \A s \in {<<>>, Alone, WithControl} : \A j \in 1..Len(s) : s[j] # "editor"
  BY StacksAre
<1> QED
  BY <1>1, <1>2, <1>3, <1>4, <1>5, Unstacking, RemovesNone
----------------------------------------------------------------------------
(* The path: what the entries up to p hold, from the dialogs' own lists of    *)
(* ids f, with the dialogs s over one another.                              *)

Lists == [Keys -> Seq(Nat)]
Pages == Seq([Keys -> Nat])
Size(f, k) == Len(f[k])
Total(f) == Size(f, "detail") + Size(f, "control") + Size(f, "editor")
Under(f, s, k) ==
    IF k = "editor" THEN IF s = OnDetail THEN Size(f, "detail") ELSE 0
    ELSE (IF s = OnDetail THEN 0 ELSE Size(f, "editor")) + (IF k = "control" THEN Size(f, "detail") ELSE 0)
KeyAt(f, s, k, j) ==
    LET i == j - 1 - Under(f, s, k)
    IN  IF Size(f, k) = 0 \/ i <= 0 THEN 0 ELSE f[k][IF i <= Size(f, k) THEN i ELSE Size(f, k)]
Path(e, f, s, p) ==
    /\ p \in 1..Len(e) /\ p - 1 = Total(f)
    /\ \A j \in 1..p, k \in Keys : e[j][k] = KeyAt(f, s, k, j)
Topmost(f, s, k) == Under(f, s, k) + Size(f, k) = Total(f)

(* A list that grew by x, one cut to m; the entries with a new one after p.   *)
Lengthened(f, k, x) == [f EXCEPT ![k] = Append(f[k], x)]
Shortened(f, k, m) == [f EXCEPT ![k] = SubSeq(f[k], 1, m)]
Turned(e, p, k, x) == Append(SubSeq(e, 1, p), [e[p] EXCEPT ![k] = x])
Marked(w, k, b) == [w EXCEPT ![k] = b]

LEMMA KeysOnly == \A k \in Keys : k = "detail" \/ k = "control" \/ k = "editor"
BY DEF Keys

LEMMA OverDetail ==
  ASSUME NEW f, NEW s, s = OnDetail
  PROVE  /\ Under(f, s, "detail") = 0 + 0 /\ Under(f, s, "control") = 0 + Size(f, "detail")
         /\ Under(f, s, "editor") = Size(f, "detail")
BY DEF Under

LEMMA UnderDetail ==
  ASSUME NEW f, NEW s, s # OnDetail
  PROVE  /\ Under(f, s, "detail") = Size(f, "editor") + 0
         /\ Under(f, s, "control") = Size(f, "editor") + Size(f, "detail")
         /\ Under(f, s, "editor") = 0
BY DEF Under

LEMMA LengthsAre ==
  ASSUME NEW f \in Lists
  PROVE  /\ \A k \in Keys : f[k] \in Seq(Nat) /\ Size(f, k) \in Nat
         /\ Size(f, "detail") \in Nat /\ Size(f, "control") \in Nat /\ Size(f, "editor") \in Nat
         /\ Total(f) \in Nat
<1>1. \A k \in Keys : f[k] \in Seq(Nat) /\ Size(f, k) \in Nat
  BY DEF Lists, Size
<1> QED
  BY <1>1, KeysAre DEF Total

LEMMA ListsAre ==
  ASSUME NEW f \in Lists, NEW s
  PROVE  /\ \A k \in Keys : f[k] \in Seq(Nat) /\ Size(f, k) \in Nat /\ Under(f, s, k) \in Nat
         /\ Total(f) \in Nat
         /\ \A k \in Keys : Size(f, k) > 0 => Under(f, s, k) + Size(f, k) <= Total(f)
<1>1. ASSUME NEW k \in Keys
      PROVE  Under(f, s, k) \in Nat /\ (Size(f, k) > 0 => Under(f, s, k) + Size(f, k) <= Total(f))
  <2>1. CASE s = OnDetail
    BY <2>1, OverDetail, LengthsAre, KeysOnly DEF Total
  <2>2. CASE s # OnDetail
    BY <2>2, UnderDetail, LengthsAre, KeysOnly DEF Total
  <2> QED
    BY <2>1, <2>2
<1> QED
  BY <1>1, LengthsAre

LEMMA Beneath ==
  ASSUME NEW f \in Lists, NEW g \in Lists, NEW s, NEW k \in Keys, Topmost(f, s, k),
         \A l \in Keys : l # k => Size(g, l) = Size(f, l),
         NEW l \in Keys, l # k
  PROVE  Size(f, l) = 0 \/ (Under(g, s, l) = Under(f, s, l) /\ Under(f, s, l) + Size(f, l) <= Under(f, s, k))
<1>1. /\ Size(f, "detail") \in Nat /\ Size(f, "control") \in Nat /\ Size(f, "editor") \in Nat
      /\ Size(g, "detail") \in Nat /\ Size(g, "control") \in Nat /\ Size(g, "editor") \in Nat
  BY LengthsAre
<1>2. Under(f, s, k) + Size(f, k) = Size(f, "detail") + Size(f, "control") + Size(f, "editor")
  BY DEF Topmost, Total
<1>3. "detail" # "control" /\ "detail" # "editor" /\ "control" # "editor"
  OBVIOUS
<1>4. CASE s = OnDetail
  <2>1. CASE k = "detail"
    BY <1>1, <1>2, <1>3, <1>4, <2>1, OverDetail, KeysAre, KeysOnly
  <2>2. CASE k = "control"
    BY <1>1, <1>2, <1>3, <1>4, <2>2, OverDetail, KeysAre, KeysOnly
  <2>3. CASE k = "editor"
    BY <1>1, <1>2, <1>3, <1>4, <2>3, OverDetail, KeysAre, KeysOnly
  <2> QED
    BY <2>1, <2>2, <2>3, KeysOnly
<1>5. CASE s # OnDetail
  <2>1. CASE k = "detail"
    BY <1>1, <1>2, <1>3, <1>5, <2>1, UnderDetail, KeysAre, KeysOnly
  <2>2. CASE k = "control"
    BY <1>1, <1>2, <1>3, <1>5, <2>2, UnderDetail, KeysAre, KeysOnly
  <2>3. CASE k = "editor"
    BY <1>1, <1>2, <1>3, <1>5, <2>3, UnderDetail, KeysAre, KeysOnly
  <2> QED
    BY <2>1, <2>2, <2>3, KeysOnly
<1> QED
  BY <1>4, <1>5

LEMMA OwnUnder ==
  ASSUME NEW f \in Lists, NEW g \in Lists, NEW s, NEW k \in Keys, \A l \in Keys : l # k => Size(g, l) = Size(f, l)
  PROVE  Under(g, s, k) = Under(f, s, k) /\ Total(g) + Size(f, k) = Total(f) + Size(g, k)
<1>1. /\ Size(f, "detail") \in Nat /\ Size(f, "control") \in Nat /\ Size(f, "editor") \in Nat
      /\ Size(g, "detail") \in Nat /\ Size(g, "control") \in Nat /\ Size(g, "editor") \in Nat
  BY LengthsAre
<1>2. "detail" # "control" /\ "detail" # "editor" /\ "control" # "editor"
  OBVIOUS
<1>3. Total(g) + Size(f, k) = Total(f) + Size(g, k)
  BY <1>1, <1>2, KeysAre, KeysOnly DEF Total
<1>4. CASE s = OnDetail
  <2>1. CASE k = "detail"
    BY <1>1, <1>2, <1>3, <1>4, <2>1, OverDetail, KeysAre
  <2>2. CASE k = "control"
    BY <1>1, <1>2, <1>3, <1>4, <2>2, OverDetail, KeysAre
  <2>3. CASE k = "editor"
    BY <1>1, <1>2, <1>3, <1>4, <2>3, OverDetail, KeysAre
  <2> QED
    BY <2>1, <2>2, <2>3, KeysOnly
<1>5. CASE s # OnDetail
  <2>1. CASE k = "detail"
    BY <1>1, <1>2, <1>3, <1>5, <2>1, UnderDetail, KeysAre
  <2>2. CASE k = "control"
    BY <1>1, <1>2, <1>3, <1>5, <2>2, UnderDetail, KeysAre
  <2>3. CASE k = "editor"
    BY <1>1, <1>2, <1>3, <1>5, <2>3, UnderDetail, KeysAre
  <2> QED
    BY <2>1, <2>2, <2>3, KeysOnly
<1> QED
  BY <1>3, <1>4, <1>5

LEMMA PathTop ==
  ASSUME NEW e \in Pages, NEW f \in Lists, NEW s, NEW p, Path(e, f, s, p), NEW k \in Keys
  PROVE  e[p][k] = IF Size(f, k) = 0 THEN 0 ELSE f[k][Size(f, k)]
<1>1. p \in Nat /\ p \in 1..p /\ p - 1 = Total(f) /\ e[p][k] = KeyAt(f, s, k, p)
  BY DEF Path, Pages
<1> QED
  BY <1>1, ListsAre DEF KeyAt

LEMMA PathGrows ==
  ASSUME NEW e \in Pages, NEW f \in Lists, NEW s, NEW p, Path(e, f, s, p),
         NEW k \in Keys, Topmost(f, s, k), NEW x \in Nat,
         NEW g, g = Lengthened(f, k, x), NEW d, d = Turned(e, p, k, x)
  PROVE  Path(d, g, s, p + 1) /\ Topmost(g, s, k) /\ Len(d) = p + 1 /\ d \in Pages /\ g \in Lists
<1>1. p \in 1..Len(e) /\ p - 1 = Total(f) /\ p \in Nat /\ e[p] \in [Keys -> Nat]
      /\ \A j \in 1..p, l \in Keys : e[j][l] = KeyAt(f, s, l, j)
  BY DEF Path, Pages
<1>2. /\ g \in Lists /\ Size(g, k) = Size(f, k) + 1 /\ \A i \in 1..Size(f, k) : g[k][i] = f[k][i]
      /\ g[k][Size(f, k) + 1] = x /\ \A l \in Keys : l # k => g[l] = f[l] /\ Size(g, l) = Size(f, l)
  BY LengthsAre DEF Lists, Size, Lengthened, Shortened
<1>3. /\ d \in Pages /\ Len(d) = p + 1 /\ \A j \in 1..p : d[j] = e[j]
      /\ d[p + 1] = [e[p] EXCEPT ![k] = x]
  <2>1. [e[p] EXCEPT ![k] = x] \in [Keys -> Nat]
    BY <1>1
  <2>2. SubSeq(e, 1, p) \in Pages /\ Len(SubSeq(e, 1, p)) = p /\ \A j \in 1..p : SubSeq(e, 1, p)[j] = e[j]
    BY <1>1 DEF Pages
  <2> QED
    BY <1>1, <2>1, <2>2 DEF Pages, Turned
<1>4. d[p + 1][k] = x /\ \A l \in Keys : l # k => d[p + 1][l] = e[p][l]
  BY <1>1, <1>3
<1>5. Under(g, s, k) = Under(f, s, k) /\ Total(g) = Total(f) + 1 /\ Under(f, s, k) + Size(f, k) = p - 1
      /\ Under(f, s, k) \in Nat /\ Size(f, k) \in Nat /\ Total(f) \in Nat /\ Total(g) \in Nat
  <2>1. Under(g, s, k) = Under(f, s, k) /\ Total(g) + Size(f, k) = Total(f) + Size(g, k)
    BY <1>2, OwnUnder
  <2>2. Under(f, s, k) \in Nat /\ Size(f, k) \in Nat /\ Total(f) \in Nat /\ Total(g) \in Nat
    BY <1>2, ListsAre
  <2>3. Under(f, s, k) + Size(f, k) = Total(f)
    BY DEF Topmost
  <2> QED
    BY <1>1, <1>2, <2>1, <2>2, <2>3
<1>6. Topmost(g, s, k)
  BY <1>1, <1>2, <1>5 DEF Topmost
<1>7. ASSUME NEW j \in 1..(p + 1), NEW l \in Keys PROVE d[j][l] = KeyAt(g, s, l, j)
  <2>1. CASE l = k
    <3>1. CASE j <= p
      <4>1. j \in 1..p /\ d[j][k] = KeyAt(f, s, k, j)
        BY <1>1, <1>3, <3>1
      <4> QED
        <5> DEFINE i == j - 1 - Under(f, s, k)
        <5>1. i \in Int /\ i <= Size(f, k) /\ Size(g, k) > 0
          BY <1>1, <1>2, <1>5, <4>1
        <5>2. KeyAt(g, s, k, j) = IF i <= 0 THEN 0 ELSE f[k][i]
          BY <1>2, <1>5, <5>1 DEF KeyAt
        <5>3. KeyAt(f, s, k, j) = IF i <= 0 THEN 0 ELSE f[k][i]
          BY <1>5, <5>1 DEF KeyAt
        <5> QED
          BY <2>1, <4>1, <5>2, <5>3
    <3>2. CASE j = p + 1
      <4>1. KeyAt(g, s, k, j) = g[k][Size(f, k) + 1]
        BY <1>1, <1>2, <1>5, <3>2 DEF KeyAt
      <4> QED
        BY <1>2, <1>4, <2>1, <3>2, <4>1
    <3> QED
      BY <1>1, <3>1, <3>2
  <2>2. CASE l # k
    <3>1. Size(f, l) = 0 \/ (Under(g, s, l) = Under(f, s, l) /\ Under(f, s, l) + Size(f, l) <= p - 1)
      <4>1. Size(f, l) = 0 \/ (Under(g, s, l) = Under(f, s, l) /\ Under(f, s, l) + Size(f, l) <= Under(f, s, k))
        BY <1>2, <2>2, Beneath
      <4> QED
        BY <1>1, <1>5, <4>1, ListsAre
    <3>2. g[l] = f[l] /\ Size(g, l) = Size(f, l) /\ Size(f, l) \in Nat /\ Under(f, s, l) \in Nat
      BY <1>2, <2>2, ListsAre
    <3>3. CASE j <= p
      <4>1. j \in 1..p /\ d[j][l] = KeyAt(f, s, l, j)
        BY <1>1, <1>3, <3>3
      <4> QED
        BY <3>1, <3>2, <4>1 DEF KeyAt
    <3>4. CASE j = p + 1
      <4>1. d[j][l] = KeyAt(f, s, l, p)
        BY <1>1, <1>4, <2>2, <3>4
      <4> QED
        BY <1>1, <3>1, <3>2, <3>4, <4>1 DEF KeyAt
    <3> QED
      BY <1>1, <3>3, <3>4
  <2> QED
    BY <2>1, <2>2
<1>8. Path(d, g, s, p + 1)
  BY <1>1, <1>3, <1>5, <1>7 DEF Path
<1> QED
  BY <1>2, <1>3, <1>6, <1>8

LEMMA PathShrinks ==
  ASSUME NEW e \in Pages, NEW f \in Lists, NEW s, NEW p, Path(e, f, s, p),
         NEW k \in Keys, Topmost(f, s, k), NEW n \in 0..Size(f, k),
         NEW g, g = Shortened(f, k, n)
  PROVE  Path(e, g, s, p - (Size(f, k) - n)) /\ Topmost(g, s, k) /\ g \in Lists
<1> DEFINE q == p - (Size(f, k) - n)
<1>1. p \in 1..Len(e) /\ p - 1 = Total(f) /\ p \in Nat
      /\ \A j \in 1..p, l \in Keys : e[j][l] = KeyAt(f, s, l, j)
  BY DEF Path, Pages
<1>2. /\ g \in Lists /\ Size(g, k) = n /\ \A i \in 1..n : g[k][i] = f[k][i]
      /\ \A l \in Keys : l # k => g[l] = f[l] /\ Size(g, l) = Size(f, l)
  BY LengthsAre DEF Lists, Size, Lengthened, Shortened
<1>3. /\ Under(g, s, k) = Under(f, s, k) /\ Total(g) + Size(f, k) = Total(f) + n
      /\ Under(f, s, k) \in Nat /\ Size(f, k) \in Nat /\ n \in Nat /\ Total(f) \in Nat /\ Total(g) \in Nat
      /\ Under(f, s, k) + Size(f, k) = Total(f) /\ Len(e) \in Nat
  <2>1. Under(g, s, k) = Under(f, s, k) /\ Total(g) + Size(f, k) = Total(f) + Size(g, k)
    BY <1>2, OwnUnder
  <2>2. Under(f, s, k) \in Nat /\ Size(f, k) \in Nat /\ Total(f) \in Nat /\ Total(g) \in Nat
    BY <1>2, ListsAre
  <2>3. Under(f, s, k) + Size(f, k) = Total(f) /\ Len(e) \in Nat
    BY DEF Topmost, Pages
  <2>4. n \in Nat
    BY <2>2
  <2> QED
    BY <1>2, <2>1, <2>2, <2>3, <2>4
<1>4. Topmost(g, s, k)
  BY <1>2, <1>3 DEF Topmost
<1>5. q \in 1..Len(e) /\ q <= p /\ q - 1 = Total(g)
  <2>1. q \in Int /\ q <= p /\ q - 1 = Total(g)
    <3>1. n <= Size(f, k)
      BY <1>3
    <3>2. q \in Int
      BY <1>1, <1>3
    <3>3. q <= p
      BY <1>1, <1>3, <3>1
    <3>4. q - 1 = Total(g)
      <4>2. p = Total(f) + 1
        BY <1>1, <1>3
      <4>3. /\ Total(g) + Size(f, k) = Total(f) + n
            /\ Size(f, k) \in Nat /\ n \in Nat /\ Total(f) \in Nat /\ Total(g) \in Nat
        BY <1>3
      <4>4. Total(g) = Total(f) + n - Size(f, k)
        BY <4>3
      <4>1. p = Total(f) + 1 /\ Total(g) = Total(f) + n - Size(f, k)
        BY <4>2, <4>4
      <4> QED
        BY <1>3, <4>1
    <3> QED
      BY <3>2, <3>3, <3>4
  <2> QED
    BY <1>1, <1>3, <2>1
<1>6. ASSUME NEW j \in 1..q, NEW l \in Keys PROVE e[j][l] = KeyAt(g, s, l, j)
  <2>1. j \in 1..p /\ e[j][l] = KeyAt(f, s, l, j)
    BY <1>1, <1>5
  <2>2. CASE l = k
    BY <1>1, <1>2, <1>3, <2>1, <2>2 DEF KeyAt
  <2>3. CASE l # k
    <3>1. Size(f, l) = 0 \/ Under(g, s, l) = Under(f, s, l)
      BY <1>2, <2>3, Beneath
    <3> QED
      BY <1>2, <2>1, <2>3, <3>1, ListsAre DEF KeyAt
  <2> QED
    BY <2>2, <2>3
<1>7. Path(e, g, s, q)
  BY <1>5, <1>6 DEF Path
<1> QED
  BY <1>2, <1>4, <1>7

LEMMA PathOver ==
  ASSUME NEW e \in Pages, NEW f \in Lists, NEW s, NEW r, NEW p, Path(e, f, s, p),
         Size(f, "editor") = 0 \/ (Size(f, "detail") = 0 /\ Size(f, "control") = 0)
  PROVE  Path(e, f, r, p)
<1>1. \A k \in Keys : Size(f, k) = 0 \/ Under(f, r, k) = Under(f, s, k)
  BY ListsAre, KeysOnly DEF Under
<1>2. \A k \in Keys, j \in 1..p : KeyAt(f, r, k, j) = KeyAt(f, s, k, j)
  BY <1>1 DEF KeyAt
<1> QED
  BY <1>2 DEF Path

(* Where a key of the top dialog is on the path, and what lies one back.       *)
LEMMA PathBelow ==
  ASSUME NEW e \in Pages, NEW f \in Lists, NEW s, NEW p, Path(e, f, s, p),
         NEW k \in Keys, Topmost(f, s, k), Size(f, k) > 0
  PROVE  /\ p - 1 \in 1..Len(e)
         /\ e[p - 1][k] = IF Size(f, k) = 1 THEN 0 ELSE f[k][Size(f, k) - 1]
         /\ \A l \in Keys : l # k => e[p - 1][l] = e[p][l]
<1>1. p \in 1..Len(e) /\ p - 1 = Total(f) /\ p \in Nat /\ Len(e) \in Nat
      /\ \A j \in 1..p, l \in Keys : e[j][l] = KeyAt(f, s, l, j)
  BY DEF Path, Pages
<1>2. /\ Under(f, s, k) \in Nat /\ Size(f, k) \in Nat /\ Total(f) \in Nat
      /\ Under(f, s, k) + Size(f, k) = p - 1
  BY <1>1, ListsAre DEF Topmost
<1>3. p - 1 \in 1..p /\ p - 1 \in 1..Len(e) /\ p \in 1..p
  BY <1>1, <1>2
<1>4. e[p - 1][k] = IF Size(f, k) = 1 THEN 0 ELSE f[k][Size(f, k) - 1]
  <2>1. e[p - 1][k] = KeyAt(f, s, k, p - 1)
    BY <1>1, <1>3
  <2> QED
    BY <1>1, <1>2, <2>1 DEF KeyAt
<1>5. ASSUME NEW l \in Keys, l # k PROVE e[p - 1][l] = e[p][l]
  <2>1. e[p - 1][l] = KeyAt(f, s, l, p - 1) /\ e[p][l] = KeyAt(f, s, l, p)
    BY <1>1, <1>3
  <2>2. Size(f, l) = 0 \/ Under(f, s, l) + Size(f, l) <= Under(f, s, k)
    BY <1>5, Beneath
  <2> QED
    BY <1>1, <1>2, <2>1, <2>2, ListsAre DEF KeyAt
<1> QED
  BY <1>3, <1>4, <1>5
----------------------------------------------------------------------------
(* The book of the history: ids given out once, the path to p, and beyond it *)
(* only entries some dialog no longer answers for.                           *)

Covered(s, f) == Size(f, "control") > 0 \/ (s = OnDetail /\ Size(f, "editor") > 0)
Beside(page, f) ==
    /\ \/ \E k \in Keys : Size(f, k) = 0 /\ page[k] # 0
       \/ Size(f, "detail") > 0 /\ page["detail"] # 0 /\ \A i \in 1..Size(f, "detail") : f["detail"][i] # page["detail"]
    /\ Size(f, "editor") > 0 => page["editor"] = f["editor"][1]
    /\ Size(f, "detail") > 0 => /\ page["detail"] # 0
                                /\ \A i \in 1..(Size(f, "detail") - 1) : f["detail"][i] # page["detail"]
Beyond(e, f, s, p) == /\ Covered(s, f) => p = Len(e)
                      /\ \A j \in (p + 1)..Len(e) : Beside(e[j], f)
Numbered(f, newest) ==
    /\ Size(f, "control") <= 1 /\ Size(f, "editor") <= 1
    /\ \A k \in Keys : \A i \in 1..Size(f, k) : f[k][i] \in 1..newest
    /\ \A k \in Keys : \A i, j \in 1..Size(f, k) : f[k][i] = f[k][j] => i = j
Book(e, f, s, p, newest) == Numbered(f, newest) /\ Path(e, f, s, p) /\ Beyond(e, f, s, p)

LEMMA Found ==
  ASSUME NEW f \in Lists, NEW k \in Keys, NEW x \in Nat
  PROVE  /\ IndexIn(f[k], x) \in 0..Size(f, k)
         /\ IndexIn(f[k], x) > 0 => f[k][IndexIn(f[k], x)] = x
         /\ IndexIn(f[k], x) = 0 => \A i \in 1..Size(f, k) : f[k][i] # x
<1>1. f[k] \in Seq(Nat) /\ DOMAIN f[k] = 1..Size(f, k) /\ Size(f, k) \in Nat
  BY LengthsAre DEF Size
<1>2. ToSet(f[k]) = {f[k][i] : i \in 1..Size(f, k)}
  BY <1>1 DEF ToSet
<1>3. CASE \E i \in 1..Size(f, k) : f[k][i] = x
  <2>1. IndexIn(f[k], x) = CHOOSE i \in 1..Size(f, k) : f[k][i] = x
    BY <1>1, <1>2, <1>3 DEF IndexIn
  <2>2. IndexIn(f[k], x) \in 1..Size(f, k) /\ f[k][IndexIn(f[k], x)] = x
    BY <1>3, <2>1
  <2> QED
    BY <1>1, <2>2
<1>4. CASE ~ \E i \in 1..Size(f, k) : f[k][i] = x
  <2>1. IndexIn(f[k], x) = 0
    BY <1>2, <1>4 DEF IndexIn
  <2> QED
    BY <1>1, <1>4, <2>1
<1> QED
  BY <1>3, <1>4

LEMMA FoundAt ==
  ASSUME NEW f \in Lists, NEW newest, Numbered(f, newest), NEW k \in Keys, NEW i \in 1..Size(f, k)
  PROVE  IndexIn(f[k], f[k][i]) = i
<1>1. f[k][i] \in Nat /\ Size(f, k) \in Nat
  BY LengthsAre DEF Size
<1>2. IndexIn(f[k], f[k][i]) # 0 /\ IndexIn(f[k], f[k][i]) \in 0..Size(f, k)
  BY <1>1, Found
<1>3. IndexIn(f[k], f[k][i]) \in 1..Size(f, k) /\ f[k][IndexIn(f[k], f[k][i])] = f[k][i]
  BY <1>1, <1>2, Found
<1> QED
  BY <1>3 DEF Numbered

LEMMA ZeroNotFound ==
  ASSUME NEW f \in Lists, NEW newest \in Nat, Numbered(f, newest), NEW k \in Keys
  PROVE  IndexIn(f[k], 0) = 0
<1>1. IndexIn(f[k], 0) \in 0..Size(f, k) /\ (IndexIn(f[k], 0) > 0 => f[k][IndexIn(f[k], 0)] = 0)
  BY Found
<1>2. Size(f, k) \in Nat /\ \A i \in 1..Size(f, k) : f[k][i] # 0
  BY LengthsAre DEF Numbered
<1> QED
  BY <1>1, <1>2

LEMMA BookGrows ==
  ASSUME NEW e \in Pages, NEW f \in Lists, NEW s, NEW p, NEW n \in Nat, Book(e, f, s, p, n),
         NEW k \in Keys, Topmost(f, s, k), k # "detail" => Size(f, k) = 0,
         NEW g, g = Lengthened(f, k, n + 1), NEW d, d = Turned(e, p, k, n + 1)
  PROVE  /\ Book(d, g, s, p + 1, n + 1) /\ Topmost(g, s, k) /\ Len(d) = p + 1 /\ d \in Pages /\ g \in Lists
         /\ Size(g, k) = Size(f, k) + 1 /\ \A l \in Keys : l # k => Size(g, l) = Size(f, l)
<1>1. /\ Path(d, g, s, p + 1) /\ Topmost(g, s, k) /\ Len(d) = p + 1 /\ d \in Pages /\ g \in Lists
  <2>1. n + 1 \in Nat /\ Path(e, f, s, p)
    BY DEF Book
  <2> QED
    BY <2>1, PathGrows
<1>2. /\ Size(g, k) = Size(f, k) + 1 /\ \A i \in 1..Size(f, k) : g[k][i] = f[k][i]
      /\ g[k][Size(f, k) + 1] = n + 1 /\ \A l \in Keys : l # k => g[l] = f[l] /\ Size(g, l) = Size(f, l)
  BY LengthsAre DEF Lists, Size, Lengthened, Shortened
<1>3. p \in Nat /\ \A l \in Keys : Size(f, l) \in Nat
  BY LengthsAre DEF Book, Path, Pages
<1>4. Numbered(g, n + 1)
  <2>1. ASSUME NEW l \in Keys
        PROVE  /\ \A i \in 1..Size(g, l) : g[l][i] \in 1..(n + 1)
               /\ \A i, j \in 1..Size(g, l) : g[l][i] = g[l][j] => i = j
    <3>1. /\ \A i \in 1..Size(f, l) : f[l][i] \in 1..n
          /\ \A i, j \in 1..Size(f, l) : f[l][i] = f[l][j] => i = j
      BY DEF Book, Numbered
    <3>2. CASE l # k
      BY <1>2, <3>1, <3>2
    <3>3. CASE l = k
      <4>1. \A i \in 1..Size(g, k) : i \in 1..Size(f, k) \/ i = Size(f, k) + 1
        BY <1>2, <1>3
      <4>2. \A i \in 1..Size(f, k) : g[k][i] \in 1..n
        BY <1>2, <3>1, <3>3
      <4>3. \A i \in 1..Size(f, k) : g[k][i] # n + 1
        BY <4>2
      <4> QED
        BY <1>2, <3>1, <3>3, <4>1, <4>2, <4>3
    <3> QED
      BY <3>2, <3>3
  <2>2. Size(g, "control") <= 1 /\ Size(g, "editor") <= 1
    <3>1. Size(f, "control") <= 1 /\ Size(f, "editor") <= 1
      BY DEF Book, Numbered
    <3> QED
      BY <1>2, <1>3, <3>1, KeysAre
  <2> QED
    BY <2>1, <2>2 DEF Numbered
<1>5. Beyond(d, g, s, p + 1)
  BY <1>1, <1>3 DEF Beyond
<1> QED
  BY <1>1, <1>2, <1>4, <1>5 DEF Book

LEMMA BookShrinks ==
  ASSUME NEW e \in Pages, NEW f \in Lists, NEW s, NEW p, NEW n \in Nat, Book(e, f, s, p, n),
         NEW k \in Keys, Topmost(f, s, k), NEW m \in 0..Size(f, k), m < Size(f, k),
         NEW g, g = Shortened(f, k, m), ~Covered(s, g)
  PROVE  /\ Book(e, g, s, p - (Size(f, k) - m), n) /\ Topmost(g, s, k) /\ g \in Lists
         /\ Size(g, k) = m /\ \A l \in Keys : l # k => Size(g, l) = Size(f, l)
<1> DEFINE q == p - (Size(f, k) - m)
<1>1. /\ Path(e, g, s, q) /\ Topmost(g, s, k) /\ g \in Lists
  <2>1. Path(e, f, s, p)
    BY DEF Book
  <2> QED
    BY <2>1, PathShrinks, Zenon
<1>2. /\ Size(g, k) = m /\ \A i \in 1..m : g[k][i] = f[k][i]
      /\ \A l \in Keys : l # k => g[l] = f[l] /\ Size(g, l) = Size(f, l)
  BY LengthsAre DEF Lists, Size, Lengthened, Shortened
<1>3. /\ p \in Nat /\ m \in Nat /\ \A l \in Keys : Size(f, l) \in Nat /\ Under(f, s, l) \in Nat
      /\ Len(e) \in Nat /\ q \in Nat /\ p - 1 = Total(f) /\ Under(f, s, k) + Size(f, k) = Total(f)
      /\ Path(e, f, s, p) /\ Numbered(f, n) /\ p <= Len(e) /\ Beyond(e, f, s, p)
  <2>1. p \in Nat /\ Len(e) \in Nat /\ Path(e, f, s, p) /\ Numbered(f, n) /\ p <= Len(e) /\ p - 1 = Total(f)
        /\ Beyond(e, f, s, p)
    BY DEF Book, Path, Pages
  <2>2. \A l \in Keys : Size(f, l) \in Nat /\ Under(f, s, l) \in Nat
    BY ListsAre
  <2>3. q \in Nat
    BY <1>1, <2>1 DEF Path
  <2> QED
    BY <2>1, <2>2, <2>3 DEF Topmost
<1>n. ~Covered(s, g)
  OBVIOUS
<1>4. Numbered(g, n)
  <2>1. ASSUME NEW l \in Keys
        PROVE  /\ \A i \in 1..Size(g, l) : g[l][i] \in 1..n
               /\ \A i, j \in 1..Size(g, l) : g[l][i] = g[l][j] => i = j
    <3>1. /\ \A i \in 1..Size(f, l) : f[l][i] \in 1..n
          /\ \A i, j \in 1..Size(f, l) : f[l][i] = f[l][j] => i = j
      BY <1>3 DEF Numbered
    <3>2. CASE l # k
      BY <1>2, <3>1, <3>2
    <3>3. CASE l = k
      <4>1. \A i \in 1..m : i \in 1..Size(f, k)
        BY <1>3
      <4> QED
        BY <1>2, <3>1, <3>3, <4>1
    <3> QED
      BY <3>2, <3>3
  <2>2. Size(g, "control") <= 1 /\ Size(g, "editor") <= 1
    <3>1. Size(f, "control") <= 1 /\ Size(f, "editor") <= 1
      BY <1>3 DEF Numbered
    <3> QED
      BY <1>2, <1>3, <3>1, KeysAre
  <2> QED
    BY <2>1, <2>2 DEF Numbered
<1>5. \A l \in Keys : Size(g, l) <= Size(f, l) /\ Size(g, l) \in Nat /\ \A i \in 1..Size(g, l) : g[l][i] = f[l][i]
  BY <1>2, <1>3
<1>6. m > 0 => k = "detail"
  <2>1. Size(f, "control") <= 1 /\ Size(f, "editor") <= 1
    BY <1>3 DEF Numbered
  <2>2. m > 0 => Size(f, k) > 1 /\ Size(f, k) \in Nat
    BY <1>3
  <2>3. k = "control" \/ k = "editor" => Size(f, k) <= 1
    BY <2>1
  <2> QED
    BY <2>2, <2>3, KeysOnly
<1>s. /\ Size(g, "detail") <= Size(f, "detail") /\ Size(g, "detail") \in Nat /\ Size(f, "detail") \in Nat
      /\ \A i \in 1..Size(g, "detail") : i \in 1..Size(f, "detail") /\ g["detail"][i] = f["detail"][i]
      /\ Size(g, "editor") <= Size(f, "editor") /\ Size(g, "editor") \in Nat /\ Size(f, "editor") \in Nat
      /\ (Size(g, "editor") > 0 => g["editor"][1] = f["editor"][1])
  <2>1. ASSUME NEW l \in Keys
        PROVE  /\ Size(g, l) <= Size(f, l) /\ Size(g, l) \in Nat /\ Size(f, l) \in Nat
               /\ \A i \in 1..Size(g, l) : i \in 1..Size(f, l) /\ g[l][i] = f[l][i]
               /\ (Size(g, l) > 0 => g[l][1] = f[l][1])
    <3>1. Size(g, l) <= Size(f, l) /\ Size(g, l) \in Nat /\ Size(f, l) \in Nat
          /\ \A i \in 1..Size(g, l) : g[l][i] = f[l][i]
      BY <1>3, <1>5
    <3>2. Size(g, l) > 0 => 1 \in 1..Size(g, l)
      BY <3>1
    <3>3. \A i \in 1..Size(g, l) : i \in 1..Size(f, l)
      BY <3>1
    <3> QED
      BY <3>1, <3>2, <3>3
  <2> QED
    BY <2>1, KeysAre, Zenon
<1>7. ASSUME NEW j \in (p + 1)..Len(e) PROVE Beside(e[j], g)
  <2>1. Beside(e[j], f) /\ e[j] \in [Keys -> Nat]
    <3>1. j \in 1..Len(e)
      BY <1>3
    <3>2. Beyond(e, f, s, p)
      BY <1>3
    <3> QED
      BY <3>1, <3>2 DEF Beyond, Pages
  <2>2. \/ \E l \in Keys : Size(g, l) = 0 /\ e[j][l] # 0
        \/ Size(g, "detail") > 0 /\ e[j]["detail"] # 0 /\ \A i \in 1..Size(g, "detail") : g["detail"][i] # e[j]["detail"]
    <3>1. CASE \E l \in Keys : Size(f, l) = 0 /\ e[j][l] # 0
      BY <1>3, <1>5, <3>1
    <3>2. CASE /\ Size(f, "detail") > 0 /\ e[j]["detail"] # 0
               /\ \A i \in 1..Size(f, "detail") : f["detail"][i] # e[j]["detail"]
      <4>1. CASE Size(g, "detail") = 0
        BY <3>2, <4>1, KeysAre
      <4>2. CASE Size(g, "detail") > 0
        BY <1>s, <3>2, <4>2
      <4> QED
        BY <1>s, <4>1, <4>2
    <3> QED
      BY <2>1, <3>1, <3>2 DEF Beside
  <2>3. Size(g, "editor") > 0 => e[j]["editor"] = g["editor"][1]
    BY <1>s, <2>1 DEF Beside
  <2>4. Size(g, "detail") > 0 => /\ e[j]["detail"] # 0
                                 /\ \A i \in 1..(Size(g, "detail") - 1) : g["detail"][i] # e[j]["detail"]
    <3>1. ASSUME Size(g, "detail") > 0, NEW i \in 1..(Size(g, "detail") - 1)
          PROVE  i \in 1..(Size(f, "detail") - 1) /\ g["detail"][i] = f["detail"][i]
      <4>1. i \in 1..Size(g, "detail") /\ i \in 1..(Size(f, "detail") - 1)
        BY <1>s
      <4> QED
        BY <1>s, <4>1
    <3>2. Size(g, "detail") > 0 => Size(f, "detail") > 0
      BY <1>s
    <3> QED
      BY <2>1, <3>1, <3>2 DEF Beside
  <2> QED
    BY <2>2, <2>3, <2>4 DEF Beside
<1>8. ASSUME NEW j \in (q + 1)..p PROVE Beside(e[j], g)
  <2>1. j \in 1..p /\ j \in Nat /\ j - 1 - Under(f, s, k) \in (m + 1)..Size(f, k)
    BY <1>3
  <2> DEFINE i == j - 1 - Under(f, s, k)
  <2>2. e[j][k] = f[k][i]
    <3>1. e[j][k] = KeyAt(f, s, k, j)
      BY <1>3, <2>1 DEF Path
    <3> QED
      BY <1>3, <2>1, <3>1 DEF KeyAt
  <2> HIDE DEF i
  <2>3. i \in 1..Size(f, k) /\ i > m
    BY <1>3, <2>1 DEF i
  <2>4. e[j][k] # 0 /\ \A h \in 1..m : f[k][h] # e[j][k]
    <3>1. /\ f[k][i] \in 1..n /\ \A h \in 1..Size(f, k) : f[k][h] = f[k][i] => h = i
      BY <1>3, <2>3 DEF Numbered
    <3>2. \A h \in 1..m : h \in 1..Size(f, k) /\ h # i
      BY <1>3, <2>3
    <3> QED
      BY <2>2, <3>1, <3>2
  <2>5. ASSUME NEW l \in Keys, l # k, Size(g, l) > 0
        PROVE  e[j][l] = g[l][Size(g, l)] /\ e[j][l] # 0 /\ \A h \in 1..(Size(g, l) - 1) : g[l][h] # e[j][l]
    <3>1. Size(f, l) > 0 /\ Size(f, l) = Size(g, l) /\ g[l] = f[l] /\ Size(f, l) \in 1..Size(f, l)
      BY <1>2, <1>3, <2>5
    <3>2. Under(f, s, l) + Size(f, l) <= Under(f, s, k)
      BY <1>2, <1>3, <2>5, <3>1, Beneath
    <3>3. e[j][l] = KeyAt(f, s, l, j)
      BY <1>3, <2>1 DEF Path
    <3>4. e[j][l] = f[l][Size(f, l)]
      <4> DEFINE h == j - 1 - Under(f, s, l)
      <4>1. h \in Int /\ h >= Size(f, l) /\ h > 0 /\ Size(f, l) # 0 /\ Size(f, l) \in Nat
        <5>1. j - 1 > Under(f, s, k) /\ Under(f, s, l) \in Nat /\ Under(f, s, k) \in Nat /\ Size(f, l) \in Nat
          BY <1>3, <2>1
        <5> QED
          BY <2>1, <3>1, <3>2, <5>1
      <4>2. KeyAt(f, s, l, j) = f[l][IF h <= Size(f, l) THEN h ELSE Size(f, l)]
        BY <4>1 DEF KeyAt
      <4>3. (IF h <= Size(f, l) THEN h ELSE Size(f, l)) = Size(f, l)
        BY <4>1
      <4> QED
        BY <3>3, <4>2, <4>3
    <3>5. f[l][Size(f, l)] \in 1..n /\ \A h \in 1..Size(f, l) : f[l][h] = f[l][Size(f, l)] => h = Size(f, l)
      BY <1>3, <3>1 DEF Numbered
    <3>6. \A h \in 1..(Size(f, l) - 1) : h \in 1..Size(f, l) /\ h # Size(f, l)
      BY <1>3
    <3> QED
      BY <3>1, <3>4, <3>5, <3>6
  <2>6. \/ \E l \in Keys : Size(g, l) = 0 /\ e[j][l] # 0
        \/ Size(g, "detail") > 0 /\ e[j]["detail"] # 0 /\ \A h \in 1..Size(g, "detail") : g["detail"][h] # e[j]["detail"]
    <3>1. CASE m = 0
      BY <1>2, <2>4, <3>1
    <3>2. CASE m > 0
      BY <1>2, <1>6, <2>4, <3>2
    <3> QED
      BY <1>3, <3>1, <3>2
  <2>7. Size(g, "editor") > 0 => e[j]["editor"] = g["editor"][1]
    <3>1. ASSUME Size(g, "editor") > 0 PROVE e[j]["editor"] = g["editor"][1]
      <4>1. k # "editor" /\ Size(g, "editor") = 1
        <5>1. Size(g, "editor") <= 1 /\ Size(g, "editor") \in Nat
          BY <1>4, <1>s DEF Numbered
        <5>2. k = "editor" => m = 0
          BY <1>3, <1>6
        <5> QED
          BY <1>2, <3>1, <5>1, <5>2
      <4> QED
        BY <2>5, <3>1, <4>1, KeysAre
    <3> QED
      BY <3>1
  <2>8. Size(g, "detail") > 0 => /\ e[j]["detail"] # 0
                                 /\ \A h \in 1..(Size(g, "detail") - 1) : g["detail"][h] # e[j]["detail"]
    <3>1. CASE k = "detail"
      <4>1. \A h \in 1..(m - 1) : h \in 1..m
        BY <1>3
      <4> QED
        BY <1>2, <2>4, <3>1, <4>1
    <3>2. CASE k # "detail"
      BY <2>5, <3>2, KeysAre
    <3> QED
      BY <3>1, <3>2
  <2> QED
    BY <2>6, <2>7, <2>8 DEF Beside
<1>9. Beyond(e, g, s, q)
  <2>1. \A j \in (q + 1)..Len(e) : j \in (q + 1)..p \/ j \in (p + 1)..Len(e)
    BY <1>3
  <2> QED
    BY <1>n, <1>7, <1>8, <2>1 DEF Beyond
<1> QED
  BY <1>1, <1>2, <1>4, <1>9 DEF Book

LEMMA BookRestacks ==
  ASSUME NEW e \in Pages, NEW f \in Lists, NEW s, NEW r, NEW p, NEW n, Book(e, f, s, p, n),
         Size(f, "editor") = 0 \/ (Size(f, "detail") = 0 /\ Size(f, "control") = 0),
         Covered(r, f) => Covered(s, f)
  PROVE  Book(e, f, r, p, n)
<1>1. Path(e, f, r, p)
  BY PathOver DEF Book
<1> QED
  BY <1>1 DEF Book, Beyond
----------------------------------------------------------------------------
(* The dialogs: which lie over which, with which lists, node and trail.       *)

Placed(s, f, hiding, node, asked) ==
    /\ hiding \subseteq ToSet(s) \ {"control"}
    /\ node # NoNode <=> "detail" \in ToSet(s)
    /\ "detail" \notin ToSet(s) => asked = NoNode
    /\ \A k \in Keys : Size(f, k) > 0 => k \in ToSet(s)
    /\ Covered(s, f) => Size(f, "detail") > 0 /\ "detail" \notin hiding
    /\ s # OnDetail /\ "detail" \in ToSet(s) /\ "editor" \in hiding => Size(f, "editor") = 0
Standing(s, f, hiding) == \A k \in ToSet(s) : Size(f, k) = 0 => k \in hiding
Shelved(s, f, hiding, node, asked) == Placed(s, f, hiding, node, asked) /\ Standing(s, f, hiding)
Trailed(s, f, trail, node, asked, returning) ==
    /\ node = NoNode => trail = <<>>
    /\ Size(f, "detail") > 0 =>
          /\ Len(trail) = Size(f, "detail")
          /\ node # Last(trail) => asked # NoNode
          /\ Covered(s, f) => asked = NoNode
          /\ asked = node => asked = Last(trail)
          /\ returning # NoNode => returning = node

LEMMA Holds ==
  ASSUME NEW s \in Stacks
  PROVE  /\ ToSet(s) \subseteq Keys
         /\ "detail" \in ToSet(s) <=> s \in {Alone, WithControl, OnDetail, OnEditor, Full}
         /\ "control" \in ToSet(s) <=> s \in {WithControl, Full}
         /\ "editor" \in ToSet(s) <=> s \in {OnDetail, Editing, OnEditor, Full}
<1>1. CASE s = <<>>
  BY <1>1, Holding, StacksDiffer, KeysAre
<1>2. CASE s = Alone
  BY <1>2, Holding, StacksDiffer, KeysAre
<1>3. CASE s = WithControl
  BY <1>3, Holding, StacksDiffer, KeysAre
<1>4. CASE s = OnDetail
  BY <1>4, Holding, StacksDiffer, KeysAre
<1>5. CASE s = Editing
  BY <1>5, Holding, StacksDiffer, KeysAre
<1>6. CASE s = OnEditor
  BY <1>6, Holding, StacksDiffer, KeysAre
<1>7. CASE s = Full
  BY <1>7, Holding, StacksDiffer, KeysAre
<1> QED
  BY <1>1, <1>2, <1>3, <1>4, <1>5, <1>6, <1>7 DEF Stacks

LEMMA NotOnDetail ==
  ASSUME NEW s \in Stacks, "control" \in ToSet(s)
  PROVE  s # OnDetail
BY Holds, StacksDiffer

LEMMA ControlOnTop ==
  ASSUME NEW f \in Lists, NEW s \in Stacks, NEW hiding, NEW node, NEW asked, Shelved(s, f, hiding, node, asked),
         Size(f, "control") > 0
  PROVE  Topmost(f, s, "control")
<1>1. "control" \in ToSet(s)
  BY KeysAre DEF Shelved, Placed
<1>2. s # OnDetail
  BY <1>1, NotOnDetail
<1> QED
  BY <1>2, LengthsAre, UnderDetail DEF Topmost, Total

LEMMA EditorOnTop ==
  ASSUME NEW f \in Lists, NEW s, Size(f, "control") = 0, s = OnDetail \/ Size(f, "detail") = 0
  PROVE  Topmost(f, s, "editor")
<1>1. CASE s = OnDetail
  BY <1>1, LengthsAre, OverDetail DEF Topmost, Total
<1>2. CASE s # OnDetail
  BY <1>2, LengthsAre, UnderDetail DEF Topmost, Total
<1> QED
  BY <1>1, <1>2

LEMMA DetailOnTop ==
  ASSUME NEW f \in Lists, NEW s, ~Covered(s, f)
  PROVE  Topmost(f, s, "detail")
<1>1. Size(f, "control") = 0 /\ (s = OnDetail => Size(f, "editor") = 0)
  BY LengthsAre DEF Covered
<1>2. CASE s = OnDetail
  BY <1>1, <1>2, LengthsAre, OverDetail DEF Topmost, Total
<1>3. CASE s # OnDetail
  BY <1>1, <1>3, LengthsAre, UnderDetail DEF Topmost, Total
<1> QED
  BY <1>2, <1>3

LEMMA LastOf ==
  /\ Last(Alone) = "detail" /\ Last(WithControl) = "control" /\ Last(OnDetail) = "editor"
  /\ Last(Editing) = "editor" /\ Last(OnEditor) = "detail" /\ Last(Full) = "control"
BY StacksAre DEF Last

LEMMA TopIs ==
  ASSUME NEW t, t.layers \in Stacks
  PROVE  /\ Top(t) = "page" <=> t.layers = <<>>
         /\ Top(t) = "detail" <=> t.layers \in {Alone, OnEditor}
         /\ Top(t) = "control" <=> t.layers \in {WithControl, Full}
         /\ Top(t) = "editor" <=> t.layers \in {OnDetail, Editing}
<1>1. t.layers # <<>> => Top(t) = Last(t.layers)
  BY DEF Top
<1>2. t.layers = <<>> => Top(t) = "page"
  BY DEF Top
<1>3. CASE t.layers = <<>>
  BY <1>2, <1>3, StacksDiffer
<1>4. CASE t.layers \in {Alone, OnEditor}
  BY <1>1, <1>4, LastOf, StacksDiffer
<1>5. CASE t.layers \in {WithControl, Full}
  BY <1>1, <1>5, LastOf, StacksDiffer
<1>6. CASE t.layers \in {OnDetail, Editing}
  BY <1>1, <1>6, LastOf, StacksDiffer
<1> QED
  BY <1>3, <1>4, <1>5, <1>6 DEF Stacks

----------------------------------------------------------------------------
(* What a tab is made of, and what the operators make of its fields.          *)

Trips == [by : Int, release : BOOLEAN, byUser : BOOLEAN]
Tabs == [entries : Pages, at : Nat, going : Seq(Trips), newest : Nat, ids : Lists, ignore : [Keys -> BOOLEAN],
         layers : Stacks, hiding : SUBSET Keys, node : Nodes \union {NoNode}, trail : Seq(Nodes),
         returning : Nodes \union {NoNode}, asked : Nodes \union {NoNode}, settings : BOOLEAN, busy : BOOLEAN,
         more : {"no", "asked", "waits"}, after : Nodes \union {NoNode, "editor"}, retained : [Keys -> Nat],
         left : {"no", "back", "pushed", "more"}, astray : BOOLEAN]
Within(t) == t \in Tabs /\ t.at \in 1..Len(t.entries)

SameDialogs(t, u) ==
    /\ u.layers = t.layers /\ u.hiding = t.hiding /\ u.node = t.node /\ u.trail = t.trail /\ u.asked = t.asked
    /\ u.returning = t.returning /\ u.settings = t.settings /\ u.busy = t.busy
SameRest(t, u) ==
    /\ u.more = t.more /\ u.after = t.after /\ u.retained = t.retained /\ u.left = t.left /\ u.astray = t.astray

LEMMA ActiveIs ==
  ASSUME NEW t, t.ids \in Lists, NEW k \in Keys
  PROVE  /\ Active(t, k) <=> Size(t.ids, k) > 0
         /\ Size(t.ids, k) = 0 => t.ids[k] = <<>>
<1>1. t.ids[k] \in Seq(Nat)
  BY LengthsAre
<1> QED
  BY <1>1 DEF Active, Size

(* The traversals: a dialog's own, a release's, and the user's.               *)
Own(n) == Towards(-n, FALSE, FALSE)
Release(n) == Towards(-n, TRUE, FALSE)
Pressed == Towards(-1, FALSE, TRUE)
Forward == Towards(1, FALSE, TRUE)

LEMMA TripsAre ==
  ASSUME NEW n \in Int
  PROVE  /\ Own(n) \in Trips /\ Own(n).by = -n /\ Own(n).release = FALSE /\ Own(n).byUser = FALSE
         /\ Release(n) \in Trips /\ Release(n).by = -n /\ Release(n).release = TRUE /\ Release(n).byUser = FALSE
         /\ Pressed \in Trips /\ Pressed.by = -1 /\ Pressed.release = FALSE /\ Pressed.byUser = TRUE
         /\ Forward \in Trips /\ Forward.by = 1 /\ Forward.release = FALSE /\ Forward.byUser = TRUE
BY DEF Towards, Trips, Own, Release, Pressed, Forward

LEMMA Queued ==
  ASSUME NEW q \in Seq(Trips), NEW x \in Trips
  PROVE  Append(q, x) \in Seq(Trips)
OBVIOUS

LEMMA EnteredIs ==
  ASSUME NEW t, Within(t), NEW k \in Keys, NEW u, u = Entered(t, k, t.ids[k])
  PROVE  /\ u \in Tabs
         /\ u.entries = Turned(t.entries, t.at, k, t.newest + 1)
         /\ u.at = t.at + 1 /\ u.newest = t.newest + 1 /\ u.going = t.going
         /\ u.ids = Lengthened(t.ids, k, t.newest + 1)
         /\ u.ignore = Marked(t.ignore, k, FALSE)
         /\ SameDialogs(t, u) /\ SameRest(t, u)
<1> DEFINE d == Turned(t.entries, t.at, k, t.newest + 1)
           g == Lengthened(t.ids, k, t.newest + 1)
           w == Marked(t.ignore, k, FALSE)
<1>1. t \in Tabs /\ t.newest + 1 \in Nat /\ t.at + 1 \in Nat
  BY DEF Within, Tabs
<1>2. d \in Pages
  <2>1. t.entries \in Pages /\ t.at \in 1..Len(t.entries) /\ t.newest + 1 \in Nat
    BY DEF Within, Tabs
  <2>2. t.entries[t.at] \in [Keys -> Nat]
    BY <2>1 DEF Pages
  <2>3. [t.entries[t.at] EXCEPT ![k] = t.newest + 1] \in [Keys -> Nat]
    BY <2>1, <2>2
  <2>4. SubSeq(t.entries, 1, t.at) \in Pages
    BY <2>1 DEF Pages
  <2> QED
    BY <2>3, <2>4 DEF Pages, Turned
<1>3. g \in Lists
  BY <1>1 DEF Tabs, Lists, Lengthened
<1>4. w \in [Keys -> BOOLEAN]
  BY <1>1 DEF Tabs, Marked
<1>5. u = [t EXCEPT !.newest = t.newest + 1, !.ids = g, !.ignore = w, !.entries = d, !.at = t.at + 1]
  BY <1>1 DEF Entered, Landing, Tabs, Turned, Lengthened, Marked
<1> HIDE DEF d, g, w
<1>6. u \in Tabs
  BY <1>1, <1>2, <1>3, <1>4, <1>5 DEF Tabs
<1>7. /\ u.entries = d /\ u.at = t.at + 1 /\ u.newest = t.newest + 1 /\ u.going = t.going /\ u.ids = g /\ u.ignore = w
      /\ SameDialogs(t, u) /\ SameRest(t, u)
  BY <1>1, <1>5 DEF Tabs, SameDialogs, SameRest
<1> QED
  BY <1>6, <1>7 DEF d, g, w

LEMMA ClosedIs ==
  ASSUME NEW t, Within(t), NEW k \in Keys, Book(t.entries, t.ids, t.layers, t.at, t.newest),
         NEW u, u = Closed(t, k)
  PROVE  /\ Size(t.ids, k) = 0 => u = t
         /\ Size(t.ids, k) > 0 =>
              /\ u \in Tabs
              /\ u.entries = t.entries /\ u.at = t.at /\ u.newest = t.newest
              /\ u.going = Append(t.going, Own(Size(t.ids, k)))
              /\ u.ids = Shortened(t.ids, k, 0)
              /\ u.ignore = Marked(t.ignore, k, TRUE)
              /\ SameDialogs(t, u) /\ SameRest(t, u)
<1>1. t \in Tabs /\ t.ids \in Lists /\ t.entries \in Pages /\ t.newest \in Nat
  BY DEF Within, Tabs
<1>2. /\ Path(t.entries, t.ids, t.layers, t.at) /\ Numbered(t.ids, t.newest)
  BY DEF Book
<1>3. CASE Size(t.ids, k) = 0
  <2>1. t.ids[k] = <<>>
    BY <1>1, <1>3, ActiveIs
  <2>2. t.entries[t.at][k] = 0
    BY <1>1, <1>2, <1>3, PathTop
  <2>3. Depth(t, k) = 0
    BY <1>1, <1>2, <2>2, ZeroNotFound DEF Depth, Landing
  <2>4. [t.ids EXCEPT ![k] = <<>>] = t.ids
    BY <1>1, <2>1 DEF Lists
  <2>5. u = [t EXCEPT !.ids = [t.ids EXCEPT ![k] = <<>>]]
    BY <1>1, <2>3 DEF Closed, Tabs
  <2> QED
    BY <1>1, <1>3, <2>4, <2>5 DEF Tabs
<1>4. CASE Size(t.ids, k) > 0
  <2> DEFINE n == Size(t.ids, k)
             g == Shortened(t.ids, k, 0)
             w == Marked(t.ignore, k, TRUE)
             going == Append(t.going, Own(n))
  <2>1. n \in 1..n /\ n \in Nat /\ n \in Int /\ t.ids[k] \in Seq(Nat)
    BY <1>1, <1>4, LengthsAre
  <2>2. t.entries[t.at][k] = t.ids[k][n]
    BY <1>1, <1>2, <1>4, PathTop
  <2>3. Depth(t, k) = n
    BY <1>1, <1>2, <2>1, <2>2, FoundAt DEF Depth, Landing
  <2>4. SubSeq(t.ids[k], 1, 0) = <<>>
    BY <2>1
  <2>5. g \in Lists /\ w \in [Keys -> BOOLEAN]
    BY <1>1, <2>1, <2>4 DEF Tabs, Lists, Shortened, Marked
  <2>6. going \in Seq(Trips)
    <3>1. Own(n) \in Trips
      BY <2>1, TripsAre, Zenon
    <3>2. t.going \in Seq(Trips)
      BY <1>1 DEF Tabs
    <3> QED
      BY <3>1, <3>2, Queued
  <2>7. u = [t EXCEPT !.ids = g, !.ignore = w, !.going = going]
    <3>1. g = [t.ids EXCEPT ![k] = <<>>]
      BY <2>4 DEF Shortened
    <3> HIDE DEF n, g
    <3>2. Closed(t, k) = [[t EXCEPT !.ids = g] EXCEPT !.ignore[k] = TRUE, !.going = Append(@, Own(n))]
      BY <1>1, <1>4, <2>1, <2>3, <3>1 DEF Closed, Tabs, Own
    <3> QED
      BY <1>1, <3>2 DEF Tabs, Marked
  <2> HIDE DEF n, g, w, going
  <2>8. u \in Tabs
    BY <1>1, <2>5, <2>6, <2>7 DEF Tabs
  <2>9. /\ u.entries = t.entries /\ u.at = t.at /\ u.newest = t.newest /\ u.going = going /\ u.ids = g /\ u.ignore = w
        /\ SameDialogs(t, u) /\ SameRest(t, u)
    BY <1>1, <2>7 DEF Tabs, SameDialogs, SameRest
  <2> QED
    BY <1>4, <2>4, <2>8, <2>9 DEF n, g, w, going
<1> QED
  BY <1>1, <1>3, <1>4, LengthsAre

LEMMA Leaving ==
  ASSUME NEW s \in Stacks
  PROVE  /\ RemoveFirst(s, "control") \in Stacks
         /\ RemoveFirst(RemoveFirst(s, "control"), "detail") = IF "editor" \in ToSet(s) THEN Editing ELSE <<>>
         /\ RemoveFirst(s, "editor") =
              IF s = Editing THEN <<>> ELSE IF s \in {OnDetail, OnEditor} THEN Alone ELSE IF s = Full THEN WithControl ELSE s
<1>1. CASE s = <<>>
  BY <1>1, WithoutControl, WithoutDetail, WithoutEditor, Holds, StacksDiffer DEF Stacks
<1>2. CASE s = Alone
  BY <1>2, WithoutControl, WithoutDetail, WithoutEditor, Holds, StacksDiffer DEF Stacks
<1>3. CASE s = WithControl
  BY <1>3, WithoutControl, WithoutDetail, WithoutEditor, Holds, StacksDiffer DEF Stacks
<1>4. CASE s = OnDetail
  BY <1>4, WithoutControl, WithoutDetail, WithoutEditor, Holds, StacksDiffer DEF Stacks
<1>5. CASE s = Editing
  BY <1>5, WithoutControl, WithoutDetail, WithoutEditor, Holds, StacksDiffer DEF Stacks
<1>6. CASE s = OnEditor
  BY <1>6, WithoutControl, WithoutDetail, WithoutEditor, Holds, StacksDiffer DEF Stacks
<1>7. CASE s = Full
  BY <1>7, WithoutControl, WithoutDetail, WithoutEditor, Holds, StacksDiffer DEF Stacks
<1> QED
  BY <1>1, <1>2, <1>3, <1>4, <1>5, <1>6, <1>7 DEF Stacks

LEMMA DetailGone ==
  ASSUME NEW t \in Tabs, NEW u, u = Gone(t, "detail")
  PROVE  /\ u \in Tabs
         /\ u.entries = t.entries /\ u.at = t.at /\ u.newest = t.newest /\ u.going = t.going
         /\ u.ids["detail"] = <<>> /\ u.ids["control"] = <<>> /\ u.ids["editor"] = t.ids["editor"]
         /\ u.ignore["editor"] = t.ignore["editor"]
         /\ u.layers = IF "editor" \in ToSet(t.layers) THEN Editing ELSE <<>>
         /\ u.hiding = t.hiding \ {"detail", "control"}
         /\ u.node = NoNode /\ u.trail = <<>> /\ u.asked = NoNode /\ u.returning = NoNode
         /\ u.settings = FALSE /\ u.busy = t.busy
         /\ SameRest(t, u)
<1> DEFINE dropped == {"detail", "control"}
           s == RemoveFirst(RemoveFirst(t.layers, "control"), "detail")
           h == t.hiding \ dropped
           g == [l \in Keys |-> IF l \in dropped THEN <<>> ELSE t.ids[l]]
           w == [l \in Keys |-> t.ignore[l] /\ l \notin dropped]
<1>1. t.layers \in Stacks /\ t.ids \in Lists /\ t.ignore \in [Keys -> BOOLEAN] /\ t.hiding \in SUBSET Keys
  BY DEF Tabs
<1>2. s = IF "editor" \in ToSet(t.layers) THEN Editing ELSE <<>>
  BY <1>1, Leaving
<1>3. s \in Stacks /\ h \in SUBSET Keys /\ w \in [Keys -> BOOLEAN]
  BY <1>1, <1>2 DEF Stacks
<1>4. g \in Lists
  BY <1>1 DEF Lists
<1>5. g["detail"] = <<>> /\ g["control"] = <<>> /\ g["editor"] = t.ids["editor"] /\ w["editor"] = t.ignore["editor"]
  BY <1>1, KeysAre
<1>6. u = [t EXCEPT !.layers = s, !.hiding = h, !.ids = g, !.ignore = w, !.node = NoNode, !.trail = <<>>,
                    !.returning = NoNode, !.asked = NoNode, !.settings = FALSE]
  BY DEF Gone, Tabs
<1> HIDE DEF s, h, g, w
<1>7. u \in Tabs
  <2>1. <<>> \in Seq(Nodes) /\ NoNode \in Nodes \union {NoNode} /\ FALSE \in BOOLEAN
    OBVIOUS
  <2> QED
    BY <1>3, <1>4, <1>6, <2>1 DEF Tabs
<1>8. /\ u.entries = t.entries /\ u.at = t.at /\ u.newest = t.newest /\ u.going = t.going
      /\ u.ids = g /\ u.ignore = w /\ u.layers = s /\ u.hiding = h
      /\ u.node = NoNode /\ u.trail = <<>> /\ u.asked = NoNode /\ u.returning = NoNode
      /\ u.settings = FALSE /\ u.busy = t.busy
      /\ SameRest(t, u)
  BY <1>6 DEF Tabs, SameRest
<1> QED
  BY <1>2, <1>5, <1>7, <1>8 DEF h

LEMMA EditorGone ==
  ASSUME NEW t \in Tabs, NEW u, u = Gone(t, "editor")
  PROVE  /\ u \in Tabs
         /\ u.entries = t.entries /\ u.at = t.at /\ u.newest = t.newest /\ u.going = t.going
         /\ u.ids["editor"] = <<>> /\ u.ids["control"] = t.ids["control"] /\ u.ids["detail"] = t.ids["detail"]
         /\ u.ignore["detail"] = t.ignore["detail"] /\ u.ignore["control"] = t.ignore["control"]
         /\ u.layers = IF t.layers = Editing THEN <<>> ELSE IF t.layers \in {OnDetail, OnEditor} THEN Alone
                       ELSE IF t.layers = Full THEN WithControl ELSE t.layers
         /\ u.hiding = t.hiding \ {"editor"}
         /\ u.node = t.node /\ u.trail = t.trail /\ u.asked = t.asked /\ u.returning = t.returning
         /\ u.settings = t.settings /\ u.busy = FALSE
         /\ SameRest(t, u)
<1> DEFINE dropped == {"editor"}
           s == RemoveFirst(t.layers, "editor")
           h == t.hiding \ dropped
           g == [l \in Keys |-> IF l \in dropped THEN <<>> ELSE t.ids[l]]
           w == [l \in Keys |-> t.ignore[l] /\ l \notin dropped]
<1>1. t.layers \in Stacks /\ t.ids \in Lists /\ t.ignore \in [Keys -> BOOLEAN] /\ t.hiding \in SUBSET Keys
  BY DEF Tabs
<1>2. s = IF t.layers = Editing THEN <<>> ELSE IF t.layers \in {OnDetail, OnEditor} THEN Alone
          ELSE IF t.layers = Full THEN WithControl ELSE t.layers
  BY <1>1, Leaving
<1>3. s \in Stacks /\ h \in SUBSET Keys /\ w \in [Keys -> BOOLEAN]
  BY <1>1, <1>2 DEF Stacks
<1>4. g \in Lists
  BY <1>1 DEF Lists
<1>5. /\ g["editor"] = <<>> /\ g["control"] = t.ids["control"] /\ g["detail"] = t.ids["detail"]
      /\ w["detail"] = t.ignore["detail"] /\ w["control"] = t.ignore["control"]
  BY <1>1, KeysAre
<1>6. u = [t EXCEPT !.layers = s, !.hiding = h, !.ids = g, !.ignore = w, !.busy = FALSE]
  BY DEF Gone, Tabs
<1> HIDE DEF s, h, g, w
<1>7. u \in Tabs
  BY <1>3, <1>4, <1>6 DEF Tabs
<1>8. /\ u.entries = t.entries /\ u.at = t.at /\ u.newest = t.newest /\ u.going = t.going
      /\ u.ids = g /\ u.ignore = w /\ u.layers = s /\ u.hiding = h
      /\ u.node = t.node /\ u.trail = t.trail /\ u.asked = t.asked /\ u.returning = t.returning
      /\ u.settings = t.settings /\ u.busy = FALSE
      /\ SameRest(t, u)
  BY <1>6 DEF Tabs, SameRest
<1> QED
  BY <1>2, <1>5, <1>7, <1>8 DEF h

----------------------------------------------------------------------------
(* A tab whose history is in order up to p.                                   *)

Writing(t) == t.busy => "editor" \in ToSet(t.layers)
Bound(t, p) == Book(t.entries, t.ids, t.layers, p, t.newest)
Sound(t, p) == /\ Bound(t, p)
               /\ Shelved(t.layers, t.ids, t.hiding, t.node, t.asked)
               /\ Trailed(t.layers, t.ids, t.trail, t.node, t.asked, t.returning)
               /\ Writing(t)
Heeds(t) == \A k \in Keys : Size(t.ids, k) > 0 => t.ignore[k] = FALSE

LEMMA WithinIs ==
  ASSUME NEW t, Within(t)
  PROVE  /\ t \in Tabs /\ t.ids \in Lists /\ t.entries \in Pages /\ t.newest \in Nat /\ t.layers \in Stacks
         /\ t.at \in Nat /\ t.at \in 1..Len(t.entries) /\ t.ignore \in [Keys -> BOOLEAN] /\ t.going \in Seq(Trips)
         /\ \A k \in Keys : Size(t.ids, k) \in Nat
BY LengthsAre DEF Within, Tabs

LEMMA Enters ==
  ASSUME NEW t, Within(t), Bound(t, t.at), Heeds(t), NEW k \in Keys, Topmost(t.ids, t.layers, k),
         k # "detail" => Size(t.ids, k) = 0,
         NEW u, u = Entered(t, k, t.ids[k])
  PROVE  /\ Within(u) /\ Bound(u, u.at) /\ Heeds(u) /\ u.at = t.at + 1 /\ u.going = t.going
         /\ Size(u.ids, k) = Size(t.ids, k) + 1 /\ \A l \in Keys : l # k => Size(u.ids, l) = Size(t.ids, l)
         /\ SameDialogs(t, u) /\ SameRest(t, u) /\ Topmost(u.ids, u.layers, k)
<1> DEFINE g == Lengthened(t.ids, k, t.newest + 1)
           d == Turned(t.entries, t.at, k, t.newest + 1)
<1>1. /\ u \in Tabs /\ u.entries = d /\ u.at = t.at + 1 /\ u.newest = t.newest + 1 /\ u.going = t.going
      /\ u.ids = g /\ u.ignore = Marked(t.ignore, k, FALSE) /\ SameDialogs(t, u) /\ SameRest(t, u)
  BY EnteredIs, Zenon
<1>2. /\ Book(d, g, t.layers, t.at + 1, t.newest + 1) /\ Topmost(g, t.layers, k) /\ Len(d) = t.at + 1
      /\ Size(g, k) = Size(t.ids, k) + 1 /\ \A l \in Keys : l # k => Size(g, l) = Size(t.ids, l)
  <2>1. /\ t.ids \in Lists /\ t.entries \in Pages /\ t.newest \in Nat
        /\ Book(t.entries, t.ids, t.layers, t.at, t.newest)
    BY WithinIs DEF Bound
  <2> QED
    BY <2>1, BookGrows
<1> HIDE DEF d, g
<1>3. u.layers = t.layers
  BY <1>1 DEF SameDialogs
<1>4. Bound(u, u.at) /\ Topmost(u.ids, u.layers, k)
  BY <1>1, <1>2, <1>3 DEF Bound
<1>5. Within(u)
  BY <1>1, <1>2, WithinIs DEF Within
<1>6. Heeds(u)
  <2>1. ASSUME NEW l \in Keys, Size(u.ids, l) > 0 PROVE u.ignore[l] = FALSE
    <3>1. CASE l = k
      BY <1>1, <3>1, WithinIs DEF Marked
    <3>2. CASE l # k
      BY <1>1, <1>2, <2>1, <3>2, WithinIs DEF Heeds, Marked
    <3> QED
      BY <3>1, <3>2
  <2> QED
    BY <2>1 DEF Heeds
<1> QED
  BY <1>1, <1>2, <1>4, <1>5, <1>6

LEMMA Pushes ==
  ASSUME NEW t, Within(t), NEW k \in Keys, Size(t.ids, k) = 0
  PROVE  Push(t, k) = Entered(t, k, t.ids[k])
BY WithinIs, ActiveIs DEF Push

LEMMA Advances ==
  ASSUME NEW t, Within(t), NEW k \in Keys, Size(t.ids, k) > 0
  PROVE  Advance(t, k) = Entered(t, k, t.ids[k])
BY WithinIs, ActiveIs DEF Advance

Trailing(v, tr) == [v EXCEPT !.trail = tr, !.returning = NoNode]

(* What the detail's own push or advance leaves of the dialogs.               *)
LEMMA DetailEnters ==
  ASSUME NEW t, Within(t), Bound(t, t.at), Heeds(t), Placed(t.layers, t.ids, t.hiding, t.node, t.asked),
         ~Covered(t.layers, t.ids), \A k \in ToSet(t.layers) \ {"detail"} : Size(t.ids, k) = 0 => k \in t.hiding,
         t.node # NoNode, Writing(t), NEW v, v = Entered(t, "detail", t.ids["detail"]),
         NEW tr \in Seq(Nodes), Len(tr) = Size(t.ids, "detail") + 1, Last(tr) = t.node,
         NEW u, u = Trailing(v, tr)
  PROVE  /\ Within(u) /\ Sound(u, u.at) /\ Heeds(u) /\ u.going = t.going /\ SameRest(t, u)
         /\ u.layers = t.layers /\ u.hiding = t.hiding
<1>1. /\ "detail" \in Keys /\ Topmost(t.ids, t.layers, "detail") /\ t.layers \in Stacks
      /\ \A k \in Keys : Size(t.ids, k) \in Nat
  BY KeysAre, DetailOnTop, WithinIs
<1>2. /\ Within(v) /\ Bound(v, v.at) /\ Heeds(v) /\ v.at = t.at + 1 /\ v.going = t.going
      /\ Size(v.ids, "detail") = Size(t.ids, "detail") + 1
      /\ \A l \in Keys : l # "detail" => Size(v.ids, l) = Size(t.ids, l)
      /\ SameDialogs(t, v) /\ SameRest(t, v)
  BY <1>1, Enters, Zenon
<1>3. Size(v.ids, "control") = Size(t.ids, "control") /\ Size(v.ids, "editor") = Size(t.ids, "editor")
  BY <1>2, KeysAre
<1>t. v \in Tabs /\ u = [v EXCEPT !.trail = tr, !.returning = NoNode]
  BY <1>2, WithinIs DEF Trailing
<1>w. v.layers = t.layers /\ v.hiding = t.hiding /\ v.node = t.node /\ v.asked = t.asked /\ v.busy = t.busy
  BY <1>2 DEF SameDialogs
<1>4. /\ u \in Tabs /\ u.entries = v.entries /\ u.at = v.at /\ u.newest = v.newest /\ u.going = v.going
      /\ u.ids = v.ids /\ u.ignore = v.ignore /\ u.trail = tr /\ u.returning = NoNode
      /\ u.layers = t.layers /\ u.hiding = t.hiding /\ u.node = t.node /\ u.asked = t.asked /\ u.busy = t.busy
      /\ SameRest(v, u)
  BY <1>t, <1>w DEF Tabs, SameRest
<1>5. Within(u) /\ Bound(u, u.at) /\ Heeds(u) /\ SameRest(t, u)
  BY <1>2, <1>4 DEF Within, Bound, Heeds, SameRest, SameDialogs
<1>6. ~Covered(u.layers, u.ids)
  BY <1>3, <1>4 DEF Covered
<1>7. Shelved(u.layers, u.ids, u.hiding, u.node, u.asked)
  <2>1. \A k \in Keys : Size(u.ids, k) > 0 => k \in ToSet(u.layers)
    BY <1>1, <1>2, <1>4 DEF Placed
  <2>2. \A k \in ToSet(u.layers) : Size(u.ids, k) = 0 => k \in u.hiding
    BY <1>1, <1>2, <1>4, Holds
  <2> QED
    BY <1>3, <1>4, <1>6, <2>1, <2>2 DEF Shelved, Placed, Standing
<1>8. Trailed(u.layers, u.ids, u.trail, u.node, u.asked, u.returning)
  BY <1>2, <1>4, <1>6 DEF Trailed
<1>9. Writing(u)
  BY <1>4 DEF Writing
<1> QED
  BY <1>2, <1>4, <1>5, <1>7, <1>8, <1>9 DEF Sound

LEMMA UpdatedIs ==
  ASSUME NEW t, Within(t), Bound(t, t.at), Heeds(t), Placed(t.layers, t.ids, t.hiding, t.node, t.asked),
         \A k \in ToSet(t.layers) \ {"detail"} : Size(t.ids, k) = 0 => k \in t.hiding,
         t.node # NoNode, Writing(t),
         Size(t.ids, "detail") > 0 =>
            /\ Len(t.trail) = Size(t.ids, "detail")
            /\ t.node # Last(t.trail) => ~Covered(t.layers, t.ids)
            /\ Covered(t.layers, t.ids) => t.asked = NoNode
            /\ t.asked = t.node => t.asked = Last(t.trail)
            /\ t.returning = t.node /\ t.node # Last(t.trail) => t.asked # NoNode,
         NEW u, u = Updated(t)
  PROVE  /\ Within(u) /\ Sound(u, u.at) /\ Heeds(u) /\ u.going = t.going /\ SameRest(t, u)
         /\ u.layers = t.layers /\ u.hiding = t.hiding
<1>1. /\ t \in Tabs /\ t.ids \in Lists /\ t.node \in Nodes /\ t.trail \in Seq(Nodes) /\ "detail" \in Keys
      /\ Size(t.ids, "detail") \in Nat
  BY WithinIs, KeysAre DEF Tabs
<1>2. CASE Size(t.ids, "detail") = 0
  <2>1. ~Active(t, "detail")
    BY <1>1, <1>2, ActiveIs
  <2>2. Push(t, "detail") = Entered(t, "detail", t.ids["detail"])
    BY <1>1, <1>2, Pushes
  <2>3. u = Trailing(Entered(t, "detail", t.ids["detail"]), <<t.node>>)
    BY <2>1, <2>2 DEF Updated, Trailing
  <2>4. ~Covered(t.layers, t.ids)
    BY <1>2 DEF Placed
  <2> DEFINE tr == <<t.node>>
  <2>5. tr \in Seq(Nodes) /\ Len(tr) = Size(t.ids, "detail") + 1 /\ Last(tr) = t.node
    BY <1>1, <1>2 DEF Last
  <2>6. u = Trailing(Entered(t, "detail", t.ids["detail"]), tr)
    BY <2>3
  <2> HIDE DEF tr
  <2> QED
    BY <2>4, <2>5, <2>6, DetailEnters
<1>3. CASE Size(t.ids, "detail") > 0
  <2>1. Active(t, "detail")
    BY <1>1, <1>3, ActiveIs
  <2>2. Standing(t.layers, t.ids, t.hiding)
    BY <1>3 DEF Standing
  <2>3. CASE t.returning # NoNode /\ t.node = t.returning /\ t.node # Last(t.trail)
    <3>1. u = t
      BY <2>1, <2>3 DEF Updated
    <3>2. Trailed(t.layers, t.ids, t.trail, t.node, t.asked, t.returning)
      BY <1>3, <2>3 DEF Trailed
    <3> QED
      BY <2>2, <3>1, <3>2 DEF Sound, Shelved, SameRest
  <2>4. CASE ~(t.returning # NoNode /\ t.node = t.returning /\ t.node # Last(t.trail)) /\ t.node = Last(t.trail)
    <3>1. u = [t EXCEPT !.returning = NoNode]
      BY <2>1, <2>4 DEF Updated
    <3>2. /\ u \in Tabs /\ u.entries = t.entries /\ u.at = t.at /\ u.newest = t.newest /\ u.going = t.going
          /\ u.ids = t.ids /\ u.ignore = t.ignore /\ u.trail = t.trail /\ u.returning = NoNode
          /\ u.layers = t.layers /\ u.hiding = t.hiding /\ u.node = t.node /\ u.asked = t.asked /\ u.busy = t.busy
          /\ SameRest(t, u)
      BY <1>1, <3>1 DEF Tabs, SameRest
    <3>3. Trailed(u.layers, u.ids, u.trail, u.node, u.asked, u.returning)
      BY <1>3, <2>4, <3>2 DEF Trailed
    <3>4. Within(u) /\ Bound(u, u.at) /\ Heeds(u) /\ Shelved(u.layers, u.ids, u.hiding, u.node, u.asked) /\ Writing(u)
      BY <2>2, <3>2 DEF Within, Bound, Heeds, Shelved, Writing
    <3> QED
      BY <3>2, <3>3, <3>4 DEF Sound
  <2>5. CASE ~(t.returning # NoNode /\ t.node = t.returning /\ t.node # Last(t.trail)) /\ t.node # Last(t.trail)
    <3>1. u = [Entered(t, "detail", t.ids["detail"]) EXCEPT !.trail = Append(t.trail, t.node), !.returning = NoNode]
      <4> DEFINE v == Entered(t, "detail", t.ids["detail"])
      <4>1. u = [Advance(t, "detail") EXCEPT !.trail = Append(@, t.node), !.returning = NoNode]
        BY <2>1, <2>5 DEF Updated
      <4>2. Advance(t, "detail") = v
        BY <1>1, <1>3, Advances
      <4>3. v.trail = t.trail
        BY <1>1, EnteredIs DEF SameDialogs
      <4> HIDE DEF v
      <4>4. u = [v EXCEPT !.trail = Append(t.trail, t.node), !.returning = NoNode]
        BY <4>1, <4>2, <4>3
      <4> QED
        BY <4>4 DEF v
    <3>2. ~Covered(t.layers, t.ids)
      BY <1>3, <2>5
    <3> DEFINE tr == Append(t.trail, t.node)
    <3>3. tr \in Seq(Nodes) /\ Len(tr) = Size(t.ids, "detail") + 1 /\ Last(tr) = t.node
      BY <1>1, <1>3 DEF Last
    <3> HIDE DEF tr
    <3>4. u = Trailing(Entered(t, "detail", t.ids["detail"]), tr)
      BY <3>1 DEF tr, Trailing
    <3> QED
      BY <3>2, <3>3, <3>4, DetailEnters
  <2> QED
    BY <2>3, <2>4, <2>5
<1> QED
  BY <1>1, <1>2, <1>3

Calm(t) == Within(t) /\ Sound(t, t.at) /\ Heeds(t)

(* A node shown where no detail is: its dialog comes over what is there.      *)
LEMMA ShownFirst ==
  ASSUME NEW t, Calm(t), t.layers \in {<<>>, Editing}, "editor" \notin t.hiding, NEW n \in Nodes, NEW u, u = Shown(t, n)
  PROVE  /\ Calm(u) /\ u.going = t.going /\ SameRest(t, u) /\ u.hiding = t.hiding
         /\ u.layers = IF t.layers = <<>> THEN Alone ELSE OnEditor
<1> DEFINE r == IF t.layers = <<>> THEN Alone ELSE OnEditor
           b == t.settings /\ n = t.node
           v == [t EXCEPT !.node = n, !.settings = b, !.layers = r]
<1>1. /\ t \in Tabs /\ t.ids \in Lists /\ t.entries \in Pages /\ t.layers \in Stacks /\ t.newest \in Nat
      /\ \A k \in Keys : Size(t.ids, k) \in Nat
  BY WithinIs DEF Calm
<1>2. "detail" \notin ToSet(t.layers) /\ "control" \notin ToSet(t.layers) /\ r \in Stacks /\ r # OnDetail
      /\ ToSet(r) = ToSet(t.layers) \union {"detail"}
  BY <1>1, Holding, Holds, StacksDiffer DEF Stacks
<1>3. u = Updated(v)
  <2>1. (IF "detail" \in ToSet(t.layers) THEN t.layers ELSE Append(t.layers, "detail")) = r
    BY <1>2, Stacking, StacksDiffer
  <2> QED
    BY <2>1 DEF Shown
<1>4. b \in BOOLEAN
  OBVIOUS
<1> HIDE DEF r, b
<1>5. /\ v \in Tabs /\ v.entries = t.entries /\ v.at = t.at /\ v.newest = t.newest /\ v.going = t.going
      /\ v.ids = t.ids /\ v.ignore = t.ignore /\ v.layers = r /\ v.hiding = t.hiding /\ v.node = n /\ v.asked = t.asked
      /\ v.busy = t.busy /\ SameRest(t, v)
  BY <1>1, <1>2, <1>4 DEF Tabs, SameRest
<1> HIDE DEF v
<1>6. Size(t.ids, "detail") = 0 /\ Size(t.ids, "control") = 0 /\ t.hiding = {} /\ t.asked = NoNode
      /\ Placed(t.layers, t.ids, t.hiding, t.node, t.asked) /\ Standing(t.layers, t.ids, t.hiding)
  <2>1. Placed(t.layers, t.ids, t.hiding, t.node, t.asked) /\ Standing(t.layers, t.ids, t.hiding)
    BY DEF Calm, Sound, Shelved
  <2>2. ToSet(t.layers) \subseteq {"editor"}
    BY Holding, StacksDiffer
  <2> QED
    BY <1>1, <1>2, <2>1, <2>2, KeysAre DEF Placed
<1>7. Within(v) /\ Bound(v, v.at) /\ Heeds(v)
  <2>1. Book(t.entries, t.ids, t.layers, t.at, t.newest)
    BY DEF Calm, Sound, Bound
  <2>2. Covered(r, t.ids) => Covered(t.layers, t.ids)
    BY <1>2 DEF Covered
  <2>3. Book(t.entries, t.ids, r, t.at, t.newest)
    BY <1>1, <1>6, <2>1, <2>2, BookRestacks
  <2> QED
    BY <1>5, <2>3 DEF Calm, Within, Bound, Heeds
<1>8. ~Covered(r, t.ids)
  BY <1>2, <1>6 DEF Covered
<1>9. Placed(v.layers, v.ids, v.hiding, v.node, v.asked)
  BY <1>2, <1>5, <1>6, <1>8, NodesAssumption DEF Placed
<1>10. \A k \in ToSet(v.layers) \ {"detail"} : Size(v.ids, k) = 0 => k \in v.hiding
  BY <1>2, <1>5, <1>6 DEF Standing
<1>11. v.node # NoNode /\ ~(Size(v.ids, "detail") > 0)
  BY <1>5, <1>6, NodesAssumption
<1>w. Writing(v)
  BY <1>2, <1>5 DEF Calm, Sound, Writing
<1>12. /\ Within(u) /\ Sound(u, u.at) /\ Heeds(u) /\ u.going = v.going /\ SameRest(v, u)
       /\ u.layers = v.layers /\ u.hiding = v.hiding
  BY <1>w, <1>3, <1>7, <1>9, <1>10, <1>11, UpdatedIs
<1> QED
  BY <1>5, <1>12 DEF Calm, SameRest, r

(* What the detail's host shows is the node it was asked for.                 *)
LEMMA HostShowsIt ==
  ASSUME NEW t, Calm(t), t.asked # NoNode, NEW u, u = Shown([t EXCEPT !.asked = NoNode], t.asked)
  PROVE  Calm(u) /\ u.going = t.going /\ SameRest(t, u) /\ u.layers = t.layers /\ u.hiding = t.hiding
<1> DEFINE b == t.settings /\ t.asked = t.node
           v == [t EXCEPT !.asked = NoNode, !.node = t.asked, !.settings = b]
<1>1. /\ t \in Tabs /\ t.ids \in Lists /\ t.asked \in Nodes /\ \A k \in Keys : Size(t.ids, k) \in Nat
  BY WithinIs DEF Calm, Tabs
<1>2. /\ Placed(t.layers, t.ids, t.hiding, t.node, t.asked) /\ Standing(t.layers, t.ids, t.hiding)
      /\ Trailed(t.layers, t.ids, t.trail, t.node, t.asked, t.returning)
  BY DEF Calm, Sound, Shelved
<1>3. "detail" \in ToSet(t.layers) /\ b \in BOOLEAN
  BY <1>2 DEF Placed
<1>4. u = Updated(v)
  BY <1>1, <1>3 DEF Shown, Tabs
<1> HIDE DEF b
<1>5. /\ v \in Tabs /\ v.entries = t.entries /\ v.at = t.at /\ v.newest = t.newest /\ v.going = t.going
      /\ v.ids = t.ids /\ v.ignore = t.ignore /\ v.layers = t.layers /\ v.hiding = t.hiding /\ v.node = t.asked
      /\ v.asked = NoNode /\ v.trail = t.trail /\ v.returning = t.returning /\ v.busy = t.busy
      /\ SameRest(t, v)
  BY <1>1, <1>3 DEF Tabs, SameRest
<1> HIDE DEF v
<1>6. Within(v) /\ Bound(v, v.at) /\ Heeds(v)
  BY <1>5 DEF Calm, Sound, Within, Bound, Heeds
<1>7. Placed(v.layers, v.ids, v.hiding, v.node, v.asked)
  BY <1>1, <1>2, <1>3, <1>5, NodesAssumption DEF Placed
<1>8. \A k \in ToSet(v.layers) \ {"detail"} : Size(v.ids, k) = 0 => k \in v.hiding
  BY <1>2, <1>5 DEF Standing
<1>9. v.node # NoNode
  BY <1>5
<1>10. Size(v.ids, "detail") > 0 =>
         /\ Len(v.trail) = Size(v.ids, "detail")
         /\ v.node # Last(v.trail) => ~Covered(v.layers, v.ids)
         /\ Covered(v.layers, v.ids) => v.asked = NoNode
         /\ v.asked = v.node => v.asked = Last(v.trail)
         /\ v.returning = v.node /\ v.node # Last(v.trail) => v.asked # NoNode
  BY <1>2, <1>5 DEF Trailed
<1>w. Writing(v)
  BY <1>5 DEF Calm, Sound, Writing
<1>11. /\ Within(u) /\ Sound(u, u.at) /\ Heeds(u) /\ u.going = v.going /\ SameRest(v, u)
       /\ u.layers = v.layers /\ u.hiding = v.hiding
  BY <1>w, <1>4, <1>6, <1>7, <1>8, <1>9, <1>10, UpdatedIs
<1> QED
  BY <1>5, <1>11 DEF Calm, SameRest

LEMMA RendersIt ==
  ASSUME NEW t, Calm(t), NEW u, u = Updated(t)
  PROVE  Calm(u) /\ u.going = t.going /\ SameRest(t, u) /\ u.layers = t.layers /\ u.hiding = t.hiding
<1>1. CASE t.node = NoNode
  BY <1>1 DEF Updated, SameRest
<1>2. CASE t.node # NoNode
  <2>1. /\ Within(t) /\ Bound(t, t.at) /\ Heeds(t) /\ Placed(t.layers, t.ids, t.hiding, t.node, t.asked)
        /\ Standing(t.layers, t.ids, t.hiding) /\ Trailed(t.layers, t.ids, t.trail, t.node, t.asked, t.returning)
        /\ Writing(t)
    BY DEF Calm, Sound, Shelved
  <2>2. \A k \in ToSet(t.layers) \ {"detail"} : Size(t.ids, k) = 0 => k \in t.hiding
    BY <2>1 DEF Standing
  <2>3. Size(t.ids, "detail") > 0 =>
         /\ Len(t.trail) = Size(t.ids, "detail")
         /\ t.node # Last(t.trail) => ~Covered(t.layers, t.ids)
         /\ Covered(t.layers, t.ids) => t.asked = NoNode
         /\ t.asked = t.node => t.asked = Last(t.trail)
         /\ t.returning = t.node /\ t.node # Last(t.trail) => t.asked # NoNode
    BY <2>1 DEF Trailed
  <2>4. /\ Within(u) /\ Sound(u, u.at) /\ Heeds(u) /\ u.going = t.going /\ SameRest(t, u)
        /\ u.layers = t.layers /\ u.hiding = t.hiding
    BY <1>2, <2>1, <2>2, <2>3, UpdatedIs
  <2> QED
    BY <2>4 DEF Calm
<1> QED
  BY <1>1, <1>2

LEMMA PushEnters ==
  ASSUME NEW v, Within(v), Bound(v, v.at), Heeds(v), NEW k \in Keys, Topmost(v.ids, v.layers, k), Size(v.ids, k) = 0,
         NEW u, u = Push(v, k)
  PROVE  /\ Within(u) /\ Bound(u, u.at) /\ Heeds(u) /\ u.going = v.going
         /\ Size(u.ids, k) = 1 /\ (\A l \in Keys : l # k => Size(u.ids, l) = Size(v.ids, l))
         /\ SameDialogs(v, u) /\ SameRest(v, u)
<1>1. u = Entered(v, k, v.ids[k])
  BY Pushes
<1>2. k # "detail" => Size(v.ids, k) = 0
  OBVIOUS
<1>3. /\ Within(u) /\ Bound(u, u.at) /\ Heeds(u) /\ u.going = v.going
      /\ Size(u.ids, k) = Size(v.ids, k) + 1 /\ (\A l \in Keys : l # k => Size(u.ids, l) = Size(v.ids, l))
      /\ SameDialogs(v, u) /\ SameRest(v, u)
  BY <1>1, <1>2, Enters
<1> QED
  BY <1>3

Restacked(t, r) == [t EXCEPT !.layers = r]
Covering(t, k) == Push(Restacked(t, Append(t.layers, k)), k)

(* The editor over what is there, or a control over its detail.               *)
LEMMA CoverShown ==
  ASSUME NEW t, Calm(t), t.hiding = {}, t.asked = NoNode, NEW k \in {"control", "editor"}, NEW r \in Stacks,
         \/ k = "editor" /\ t.layers = <<>> /\ r = Editing
         \/ k = "editor" /\ t.layers = Alone /\ r = OnDetail
         \/ k = "control" /\ t.layers = Alone /\ r = WithControl
         \/ k = "control" /\ t.layers = OnEditor /\ r = Full,
         NEW u, u = Covering(t, k)
  PROVE  Calm(u) /\ u.going = t.going /\ SameRest(t, u) /\ u.layers = r /\ u.hiding = {}
<1> DEFINE v == [t EXCEPT !.layers = r]
<1>1. /\ t \in Tabs /\ t.ids \in Lists /\ t.entries \in Pages /\ t.newest \in Nat /\ k \in Keys
      /\ \A l \in Keys : Size(t.ids, l) \in Nat
  BY WithinIs, KeysAre DEF Calm
<1>2. Append(t.layers, k) = r /\ ToSet(r) = ToSet(t.layers) \union {k} /\ k \notin ToSet(t.layers)
      /\ (r = OnDetail => k = "editor" /\ "detail" \in ToSet(t.layers)) /\ "control" \notin ToSet(t.layers)
      /\ (k = "control" => "detail" \in ToSet(t.layers) /\ r # OnDetail) /\ t.layers # OnDetail
  BY Stacking, Holding, StacksDiffer
<1>3. /\ v \in Tabs /\ v.entries = t.entries /\ v.at = t.at /\ v.newest = t.newest /\ v.going = t.going
      /\ v.ids = t.ids /\ v.ignore = t.ignore /\ v.layers = r /\ v.hiding = t.hiding /\ v.node = t.node
      /\ v.asked = t.asked /\ v.trail = t.trail /\ v.returning = t.returning /\ v.busy = t.busy /\ SameRest(t, v)
  BY <1>1 DEF Tabs, SameRest
<1>4. u = Push(v, k)
  BY <1>2 DEF Covering, Restacked
<1> HIDE DEF v
<1>5. /\ Placed(t.layers, t.ids, t.hiding, t.node, t.asked) /\ Standing(t.layers, t.ids, t.hiding)
      /\ Trailed(t.layers, t.ids, t.trail, t.node, t.asked, t.returning)
      /\ Book(t.entries, t.ids, t.layers, t.at, t.newest)
  BY DEF Calm, Sound, Shelved, Bound
<1>6. Size(t.ids, k) = 0 /\ Size(t.ids, "control") = 0 /\ (\A l \in ToSet(t.layers) : Size(t.ids, l) # 0)
      /\ ~Covered(t.layers, t.ids)
  <2>1. Size(t.ids, k) = 0 /\ Size(t.ids, "control") = 0
    BY <1>1, <1>2, <1>5, KeysAre DEF Placed
  <2> QED
    BY <1>2, <1>5, <2>1 DEF Standing, Covered
<1>7. r = OnDetail => Size(t.ids, "editor") = 0
  BY <1>2, <1>6
<1>8. Book(t.entries, t.ids, r, t.at, t.newest) /\ Topmost(t.ids, r, k)
  <2>1. ~Covered(r, t.ids)
    BY <1>6, <1>7 DEF Covered
  <2>2. CASE k = "editor"
    <3>1. Book(t.entries, t.ids, r, t.at, t.newest)
      BY <1>1, <1>5, <1>6, <2>1, <2>2, BookRestacks
    <3>2. r = OnDetail \/ Size(t.ids, "detail") = 0
      <4>1. r = OnDetail \/ t.layers = <<>>
        BY <2>2
      <4>2. t.layers = <<>> => "detail" \notin ToSet(t.layers)
        BY Holding
      <4> QED
        BY <1>1, <1>5, <4>1, <4>2, KeysAre DEF Placed
    <3> QED
      BY <1>1, <1>6, <2>2, <3>1, <3>2, EditorOnTop
  <2>3. CASE k = "control"
    <3>1. r # OnDetail /\ t.layers # OnDetail
      BY <1>2, <2>3
    <3>2. Topmost(t.ids, r, k)
      BY <1>1, <2>3, <3>1, LengthsAre, UnderDetail DEF Topmost, Total
    <3>3. \A l \in Keys : Under(t.ids, r, l) = Under(t.ids, t.layers, l)
      BY <3>1 DEF Under
    <3>4. Path(t.entries, t.ids, r, t.at)
      BY <1>5, <3>3 DEF Book, Path, KeyAt
    <3>5. Book(t.entries, t.ids, r, t.at, t.newest)
      BY <1>5, <2>1, <3>4 DEF Book, Beyond
    <3> QED
      BY <3>2, <3>5
  <2> QED
    BY <2>2, <2>3
<1>9. Within(v) /\ Bound(v, v.at) /\ Heeds(v) /\ Topmost(v.ids, v.layers, k) /\ Size(v.ids, k) = 0
  BY <1>3, <1>6, <1>8 DEF Calm, Within, Bound, Heeds
<1>10. /\ Within(u) /\ Bound(u, u.at) /\ Heeds(u) /\ u.going = v.going
       /\ Size(u.ids, k) = 1 /\ (\A l \in Keys : l # k => Size(u.ids, l) = Size(t.ids, l))
       /\ SameDialogs(v, u) /\ SameRest(v, u)
  <2>1. \A l \in Keys : l # k => Size(v.ids, l) = Size(t.ids, l)
    BY <1>3
  <2>2. Within(v) /\ Bound(v, v.at) /\ Heeds(v) /\ Topmost(v.ids, v.layers, k) /\ Size(v.ids, k) = 0
    BY <1>9
  <2>3. k \in Keys
    BY <1>1
  <2>4. /\ Within(u) /\ Bound(u, u.at) /\ Heeds(u) /\ u.going = v.going
        /\ Size(u.ids, k) = 1 /\ (\A l \in Keys : l # k => Size(u.ids, l) = Size(v.ids, l))
        /\ SameDialogs(v, u) /\ SameRest(v, u)
    BY <1>4, <2>2, <2>3, PushEnters
  <2> QED
    BY <2>1, <2>4
<1>11. /\ u.layers = r /\ u.hiding = {} /\ u.node = t.node /\ u.asked = NoNode /\ u.trail = t.trail
       /\ u.returning = t.returning /\ u.busy = t.busy /\ SameRest(t, u)
  BY <1>3, <1>10 DEF SameDialogs, SameRest
<1>12. Size(u.ids, "detail") = Size(t.ids, "detail")
  BY <1>10, KeysAre
<1>13. Covered(r, u.ids) => Size(u.ids, "detail") > 0
  <2>1. Covered(r, u.ids) => "detail" \in ToSet(t.layers)
    <3>1. CASE k = "control"
      BY <1>2, <3>1
    <3>2. CASE k = "editor"
      BY <1>2, <1>6, <1>10, <3>2, KeysAre DEF Covered
    <3> QED
      BY <3>1, <3>2
  <2> QED
    BY <1>1, <1>6, <1>12, <2>1, KeysAre
<1>14. Placed(u.layers, u.ids, u.hiding, u.node, u.asked)
  <2>1. \A l \in Keys : Size(u.ids, l) > 0 => l \in ToSet(r)
    BY <1>2, <1>5, <1>10 DEF Placed
  <2>2. "detail" \in ToSet(r) <=> "detail" \in ToSet(t.layers)
    BY <1>2
  <2> QED
    BY <1>5, <1>11, <1>13, <2>1, <2>2 DEF Placed
<1>15. Standing(u.layers, u.ids, u.hiding)
  <2>1. ToSet(t.layers) \subseteq Keys
    BY <1>1, Holds DEF Tabs
  <2> QED
    BY <1>2, <1>6, <1>10, <1>11, <2>1 DEF Standing
<1>16. Trailed(u.layers, u.ids, u.trail, u.node, u.asked, u.returning)
  <2>1. Covered(r, u.ids) => u.asked = NoNode
    BY <1>11
  <2> QED
    BY <1>5, <1>11, <1>12 DEF Trailed
<1>17. Writing(u)
  BY <1>2, <1>11 DEF Calm, Sound, Writing
<1> QED
  BY <1>3, <1>10, <1>11, <1>14, <1>15, <1>16, <1>17 DEF Calm, Sound, Shelved

----------------------------------------------------------------------------
(* What a popstate comes to.                                                  *)

(* A dialog that is closed, or awake with its own last entry landed on.       *)
Silent(t, k, landed) ==
    Size(t.ids, k) > 0 => t.ignore[k] = FALSE /\ IndexIn(t.ids[k], landed[k]) = Size(t.ids, k)

LEMMA Unmoved ==
  ASSUME NEW t \in Tabs, NEW k \in Keys, NEW landed, NEW agrees, Silent(t, k, landed)
  PROVE  HandlesPopState(t, k, landed, agrees) = t
<1>1. t.ids \in Lists /\ Size(t.ids, k) = Len(t.ids[k]) /\ Size(t.ids, k) \in Nat
  BY LengthsAre DEF Tabs, Size
<1>2. CASE Size(t.ids, k) = 0
  BY <1>1, <1>2, ActiveIs DEF HandlesPopState, Silent
<1>3. CASE Size(t.ids, k) > 0
  BY <1>1, <1>3, ActiveIs DEF HandlesPopState, Silent
<1> QED
  BY <1>1, <1>2, <1>3

(* Everything stays but that a dialog which slept may be awake.               *)
Woken(t, u) ==
    /\ u \in Tabs /\ u.entries = t.entries /\ u.at = t.at /\ u.newest = t.newest /\ u.going = t.going
    /\ u.ids = t.ids /\ SameDialogs(t, u) /\ SameRest(t, u)
    /\ \A k \in Keys : t.ignore[k] = FALSE => u.ignore[k] = FALSE

LEMMA Wakes ==
  ASSUME NEW t \in Tabs, NEW k \in Keys, NEW landed, NEW agrees, Size(t.ids, k) > 0, t.ignore[k] = TRUE,
         NEW u, u = HandlesPopState(t, k, landed, agrees)
  PROVE  Woken(t, u) /\ u.ignore[k] = FALSE
<1>1. t.ids \in Lists /\ t.ignore \in [Keys -> BOOLEAN]
  BY DEF Tabs
<1> DEFINE w == [t.ignore EXCEPT ![k] = FALSE]
<1>2. u = [t EXCEPT !.ignore = w]
  BY <1>1, ActiveIs DEF HandlesPopState
<1>3. w \in [Keys -> BOOLEAN] /\ w[k] = FALSE /\ \A l \in Keys : t.ignore[l] = FALSE => w[l] = FALSE
  BY <1>1
<1> HIDE DEF w
<1> QED
  BY <1>2, <1>3 DEF Tabs, Woken, SameDialogs, SameRest

LEMMA HandlesAtTop ==
  ASSUME NEW t \in Tabs, Numbered(t.ids, t.newest), NEW k \in Keys, NEW landed, NEW agrees,
         Size(t.ids, k) > 0 => landed[k] = t.ids[k][Size(t.ids, k)],
         NEW u, u = HandlesPopState(t, k, landed, agrees)
  PROVE  Woken(t, u) /\ (Size(t.ids, k) > 0 => u.ignore[k] = FALSE)
<1>1. t.ids \in Lists /\ t.ignore[k] \in BOOLEAN /\ Size(t.ids, k) \in Nat
  BY LengthsAre DEF Tabs
<1>2. CASE Size(t.ids, k) > 0 /\ t.ignore[k] = TRUE
  BY <1>2, Wakes
<1>3. CASE ~(Size(t.ids, k) > 0 /\ t.ignore[k] = TRUE)
  <2>1. Size(t.ids, k) > 0 => t.ignore[k] = FALSE
    BY <1>1, <1>3
  <2>2. Size(t.ids, k) > 0 => IndexIn(t.ids[k], landed[k]) = Size(t.ids, k)
    <3>1. Size(t.ids, k) > 0 => Size(t.ids, k) \in 1..Size(t.ids, k)
      BY <1>1
    <3> QED
      BY <1>1, <3>1, FoundAt
  <2>4. Silent(t, k, landed)
    BY <2>1, <2>2 DEF Silent
  <2>3. u = t
    BY <2>4, Unmoved
  <2> QED
    BY <2>1, <2>3 DEF Woken, SameDialogs, SameRest
<1> QED
  BY <1>2, <1>3

LEMMA WokenTwice ==
  ASSUME NEW t, NEW u, NEW v, Woken(t, u), Woken(u, v)
  PROVE  Woken(t, v)
BY DEF Woken, SameDialogs, SameRest

(* It lands on the entry of the dialog on top: who slept wakes, all is as was. *)
LEMMA PopsAtTop ==
  ASSUME NEW t, Within(t), Bound(t, t.at), NEW agrees, NEW u, u = PopState(t, agrees)
  PROVE  Woken(t, u) /\ Heeds(u)
<1> DEFINE landed == t.entries[t.at]
           v == HandlesPopState(t, "detail", landed, agrees)
           w == HandlesPopState(v, "control", landed, agrees)
           x == HandlesPopState(w, "editor", landed, agrees)
<1>1. u = x
  BY DEF PopState, Landing
<1>2. /\ t \in Tabs /\ t.ids \in Lists /\ t.entries \in Pages /\ \A k \in Keys : Size(t.ids, k) \in Nat
  BY WithinIs
<1>3. Numbered(t.ids, t.newest) /\ Path(t.entries, t.ids, t.layers, t.at)
  BY DEF Bound, Book
<1>4. \A k \in Keys : Size(t.ids, k) > 0 => landed[k] = t.ids[k][Size(t.ids, k)]
  BY <1>2, <1>3, PathTop
<1>v. v = HandlesPopState(t, "detail", landed, agrees) /\ w = HandlesPopState(v, "control", landed, agrees)
      /\ x = HandlesPopState(w, "editor", landed, agrees)
  OBVIOUS
<1> HIDE DEF landed, v, w, x
<1>d. Size(t.ids, "detail") > 0 => landed["detail"] = t.ids["detail"][Size(t.ids, "detail")]
  BY <1>4, KeysAre
<1>c. Size(t.ids, "control") > 0 => landed["control"] = t.ids["control"][Size(t.ids, "control")]
  BY <1>4, KeysAre
<1>e. Size(t.ids, "editor") > 0 => landed["editor"] = t.ids["editor"][Size(t.ids, "editor")]
  BY <1>4, KeysAre
<1>5. Woken(t, v) /\ (Size(t.ids, "detail") > 0 => v.ignore["detail"] = FALSE)
  BY <1>2, <1>3, <1>v, <1>d, KeysAre, HandlesAtTop
<1>6. v \in Tabs /\ v.ids = t.ids /\ v.newest = t.newest
  BY <1>5 DEF Woken
<1>7. Woken(v, w) /\ (Size(t.ids, "control") > 0 => w.ignore["control"] = FALSE)
  <2>1. Size(v.ids, "control") > 0 => landed["control"] = v.ids["control"][Size(v.ids, "control")]
    BY <1>c, <1>6
  <2>2. Numbered(v.ids, v.newest) /\ "control" \in Keys
    BY <1>3, <1>6, KeysAre
  <2> QED
    BY <1>v, <1>6, <2>1, <2>2, HandlesAtTop
<1>8. w \in Tabs /\ w.ids = t.ids /\ w.newest = t.newest
  BY <1>6, <1>7 DEF Woken
<1>9. Woken(w, u) /\ (Size(t.ids, "editor") > 0 => u.ignore["editor"] = FALSE)
  <2>1. Size(w.ids, "editor") > 0 => landed["editor"] = w.ids["editor"][Size(w.ids, "editor")]
    BY <1>e, <1>8
  <2>2. Numbered(w.ids, w.newest) /\ "editor" \in Keys
    BY <1>3, <1>8, KeysAre
  <2> QED
    <3>1. Woken(w, x) /\ (Size(w.ids, "editor") > 0 => x.ignore["editor"] = FALSE)
      BY <1>v, <1>8, <2>1, <2>2, HandlesAtTop
    <3> QED
      BY <1>1, <1>8, <3>1
<1>10. Woken(t, u)
  BY <1>5, <1>7, <1>9, WokenTwice
<1>11. \A k \in Keys : Size(t.ids, k) > 0 => u.ignore[k] = FALSE
  BY <1>5, <1>7, <1>9, KeysAre, KeysOnly DEF Woken
<1> QED
  BY <1>10, <1>11 DEF Heeds, Woken

(* It lands where one dialog only finds something to do.                      *)
LEMMA PopsOne ==
  ASSUME NEW t, Within(t), Numbered(t.ids, t.newest), Heeds(t), NEW agrees, NEW k \in Keys,
         \A l \in Keys : l # k /\ Size(t.ids, l) > 0 => t.entries[t.at][l] = t.ids[l][Size(t.ids, l)],
         NEW v \in Tabs, v = HandlesPopState(t, k, t.entries[t.at], agrees),
         \A l \in Keys : l # k => v.ids[l] = t.ids[l] /\ v.ignore[l] = t.ignore[l]
  PROVE  PopState(t, agrees) = v
<1> DEFINE landed == t.entries[t.at]
<1>1. /\ t \in Tabs /\ t.ids \in Lists /\ \A l \in Keys : Size(t.ids, l) \in Nat
  BY WithinIs
<1>2. \A l \in Keys : l # k /\ Size(t.ids, l) > 0 => IndexIn(t.ids[l], landed[l]) = Size(t.ids, l)
  <2>1. \A l \in Keys : Size(t.ids, l) > 0 => Size(t.ids, l) \in 1..Size(t.ids, l)
    BY <1>1
  <2> QED
    BY <1>1, <2>1, FoundAt
<1> HIDE DEF landed
<1>3. \A l \in Keys : l # k => HandlesPopState(t, l, landed, agrees) = t
  <2>1. ASSUME NEW l \in Keys, l # k PROVE HandlesPopState(t, l, landed, agrees) = t
    <3>1. Size(t.ids, l) > 0 => t.ignore[l] = FALSE
      BY <1>2, <2>1 DEF Heeds
    <3>2. Size(t.ids, l) > 0 => IndexIn(t.ids[l], landed[l]) = Size(t.ids, l)
      BY <1>2, <2>1
    <3>3. Silent(t, l, landed)
      BY <3>1, <3>2 DEF Silent
    <3> QED
      BY <1>1, <3>3, Unmoved
  <2> QED
    BY <2>1
<1>4. \A l \in Keys : l # k => Size(v.ids, l) = Size(t.ids, l)
  BY DEF Size
<1>5. \A l \in Keys : l # k => HandlesPopState(v, l, landed, agrees) = v
  <2>1. ASSUME NEW l \in Keys, l # k PROVE HandlesPopState(v, l, landed, agrees) = v
    <3>1. Size(v.ids, l) > 0 => v.ignore[l] = FALSE
      BY <1>2, <1>4, <2>1 DEF Heeds
    <3>2. Size(v.ids, l) > 0 => IndexIn(v.ids[l], landed[l]) = Size(v.ids, l)
      BY <1>2, <1>4, <2>1
    <3>3. Silent(v, l, landed)
      BY <3>1, <3>2 DEF Silent
    <3> QED
      BY <3>3, Unmoved
  <2> QED
    BY <2>1
<1>6. v = HandlesPopState(t, k, landed, agrees)
  BY DEF landed
<1>7. PopState(t, agrees) = HandlesPopState(HandlesPopState(HandlesPopState(t, "detail", landed, agrees),
                                                            "control", landed, agrees), "editor", landed, agrees)
  BY DEF PopState, Landing, landed
<1> QED
  BY <1>3, <1>5, <1>6, <1>7, KeysAre, KeysOnly

----------------------------------------------------------------------------
(* What of a tab its soundness is about.                                      *)

SameBook(t, u) ==
    /\ u.entries = t.entries /\ u.newest = t.newest /\ u.ids = t.ids
    /\ u.layers = t.layers /\ u.hiding = t.hiding /\ u.node = t.node /\ u.trail = t.trail /\ u.asked = t.asked
    /\ u.returning = t.returning /\ (u.busy => "editor" \in ToSet(t.layers))

LEMMA SoundKept ==
  ASSUME NEW t, NEW u, NEW p, Sound(t, p), SameBook(t, u)
  PROVE  Sound(u, p)
BY DEF Sound, SameBook, Bound, Writing

LEMMA CalmKept ==
  ASSUME NEW t, NEW u, Calm(t), SameBook(t, u), u \in Tabs, u.at = t.at, u.ignore = t.ignore
  PROVE  Calm(u)
<1>1. Sound(u, u.at)
  BY SoundKept DEF Calm
<1> QED
  BY <1>1 DEF Calm, Within, Heeds, SameBook

LEMMA WokenKept ==
  ASSUME NEW t, NEW u, NEW p, Sound(t, p), Woken(t, u)
  PROVE  Sound(u, p)
<1>1. SameBook(t, u)
  BY DEF Woken, SameDialogs, SameBook, Sound, Writing
<1> QED
  BY <1>1, SoundKept

(* The shelf and the trail see only how long the lists are.                   *)
LEMMA SizesAlone ==
  ASSUME NEW f, NEW g, \A k \in Keys : Size(g, k) = Size(f, k), NEW s \in Stacks
  PROVE  /\ Covered(s, g) <=> Covered(s, f)
         /\ \A h, n, a : Shelved(s, f, h, n, a) => Shelved(s, g, h, n, a)
         /\ \A tr, n, a, b : Trailed(s, f, tr, n, a, b) => Trailed(s, g, tr, n, a, b)
<1>1. /\ Size(g, "detail") = Size(f, "detail") /\ Size(g, "control") = Size(f, "control")
      /\ Size(g, "editor") = Size(f, "editor")
  BY KeysAre
<1>2. Covered(s, g) <=> Covered(s, f)
  BY <1>1 DEF Covered
<1>3. ASSUME NEW h, NEW n, NEW a, Shelved(s, f, h, n, a) PROVE Shelved(s, g, h, n, a)
  <2>1. Placed(s, g, h, n, a)
    BY <1>1, <1>2, <1>3 DEF Shelved, Placed
  <2>2. Standing(s, g, h)
    BY <1>3, Holds DEF Shelved, Standing
  <2> QED
    BY <2>1, <2>2 DEF Shelved
<1>4. ASSUME NEW tr, NEW n, NEW a, NEW b, Trailed(s, f, tr, n, a, b) PROVE Trailed(s, g, tr, n, a, b)
  BY <1>1, <1>2, <1>4 DEF Trailed
<1> QED
  BY <1>2, <1>3, <1>4

(* Who the next Back is for.                                                  *)
InFront(t, k) ==
    /\ Size(t.ids, k) > 0 /\ Topmost(t.ids, t.layers, k)
    /\ k = "detail" => ~Covered(t.layers, t.ids)
    /\ k = "control" => t.layers # OnDetail
    /\ k = "editor" => Size(t.ids, "control") = 0

LEMMA SomeoneInFront ==
  ASSUME NEW t, Within(t), NEW p, Sound(t, p), p > 1
  PROVE  \E k \in Keys : InFront(t, k)
<1>1. /\ t.ids \in Lists /\ t.layers \in Stacks /\ Size(t.ids, "detail") \in Nat /\ Size(t.ids, "control") \in Nat
      /\ Size(t.ids, "editor") \in Nat
  BY WithinIs, LengthsAre
<1>2. p - 1 = Total(t.ids) /\ p \in Nat
  BY WithinIs DEF Sound, Bound, Book, Path, Pages
<1>3. Shelved(t.layers, t.ids, t.hiding, t.node, t.asked)
  BY DEF Sound
<1>4. CASE Size(t.ids, "control") > 0
  <2>1. Topmost(t.ids, t.layers, "control")
    BY <1>1, <1>3, <1>4, ControlOnTop
  <2>2. "control" \in ToSet(t.layers)
    BY <1>3, <1>4, KeysAre DEF Shelved, Placed
  <2>3. t.layers # OnDetail
    BY <1>1, <2>2, NotOnDetail
  <2> QED
    BY <1>4, <2>1, <2>3, KeysAre DEF InFront
<1>5. CASE Size(t.ids, "control") = 0 /\ Size(t.ids, "editor") > 0 /\ (t.layers = OnDetail \/ Size(t.ids, "detail") = 0)
  <2>1. Topmost(t.ids, t.layers, "editor")
    BY <1>1, <1>5, EditorOnTop
  <2> QED
    BY <1>5, <2>1, KeysAre DEF InFront
<1>6. CASE Size(t.ids, "control") = 0 /\ ~(Size(t.ids, "editor") > 0 /\ (t.layers = OnDetail \/ Size(t.ids, "detail") = 0))
  <2>1. ~Covered(t.layers, t.ids) /\ Size(t.ids, "detail") > 0
    BY <1>1, <1>2, <1>6 DEF Covered, Total
  <2>2. Topmost(t.ids, t.layers, "detail")
    BY <1>1, <2>1, DetailOnTop
  <2> QED
    BY <2>1, <2>2, KeysAre DEF InFront
<1> QED
  BY <1>1, <1>4, <1>5, <1>6

----------------------------------------------------------------------------
(* Back: the dialog in front loses its last entry, and takes it or puts it back. *)

Cut(t, k) == [t EXCEPT !.ids = Shortened(t.ids, k, Size(t.ids, k) - 1)]

LEMMA CutIs ==
  ASSUME NEW t, Within(t), Sound(t, t.at + 1), Heeds(t), NEW k \in Keys, InFront(t, k), NEW c, c = Cut(t, k)
  PROVE  /\ Within(c) /\ Bound(c, c.at) /\ Heeds(c) /\ ~Covered(c.layers, c.ids) /\ Topmost(c.ids, c.layers, k)
         /\ c.ids = Shortened(t.ids, k, Size(t.ids, k) - 1)
         /\ c.entries = t.entries /\ c.at = t.at /\ c.newest = t.newest /\ c.going = t.going /\ c.ignore = t.ignore
         /\ SameDialogs(t, c) /\ SameRest(t, c)
         /\ Size(c.ids, k) = Size(t.ids, k) - 1 /\ \A l \in Keys : l # k => Size(c.ids, l) = Size(t.ids, l)
         /\ k # "detail" => Size(t.ids, k) = 1
<1> DEFINE n == Size(t.ids, k)
           m == n - 1
           g == Shortened(t.ids, k, m)
<1>1. /\ t \in Tabs /\ t.ids \in Lists /\ t.entries \in Pages /\ t.newest \in Nat /\ t.layers \in Stacks /\ n \in Nat
      /\ t.at \in Nat /\ t.ignore \in [Keys -> BOOLEAN]
  BY WithinIs
<1>2. n > 0 /\ m \in 0..n /\ m < n /\ Topmost(t.ids, t.layers, k)
  BY <1>1 DEF InFront
<1>3. Book(t.entries, t.ids, t.layers, t.at + 1, t.newest)
  BY DEF Sound, Bound
<1>4. k # "detail" => n = 1
  <2>1. Size(t.ids, "control") <= 1 /\ Size(t.ids, "editor") <= 1
    BY <1>3 DEF Book, Numbered
  <2> QED
    BY <1>1, <1>2, <2>1, KeysOnly
<1>5. g \in Lists /\ Size(g, k) = m /\ \A l \in Keys : l # k => Size(g, l) = Size(t.ids, l) /\ g[l] = t.ids[l]
  BY <1>1, <1>2, LengthsAre DEF Lists, Size, Shortened
<1> HIDE DEF n, m, g
<1>6. ~Covered(t.layers, g)
  <2>1. CASE k = "detail"
    <3>1. Size(g, "control") = Size(t.ids, "control") /\ Size(g, "editor") = Size(t.ids, "editor")
      BY <1>5, <2>1, KeysAre
    <3> QED
      BY <2>1, <3>1 DEF InFront, Covered
  <2>2. CASE k = "control"
    BY <1>1, <1>4, <1>5, <2>2 DEF InFront, Covered, m
  <2>3. CASE k = "editor"
    <3>1. Size(g, "control") = 0 /\ Size(g, "editor") = 0
      BY <1>1, <1>4, <1>5, <2>3, KeysAre DEF InFront, m
    <3> QED
      BY <3>1 DEF Covered
  <2> QED
    BY <2>1, <2>2, <2>3, KeysOnly
<1>7. g = Shortened(t.ids, k, m) /\ m = n - 1 /\ n = Size(t.ids, k)
  BY DEF g, m, n
<1>8. Book(t.entries, g, t.layers, (t.at + 1) - (Size(t.ids, k) - m), t.newest) /\ Topmost(g, t.layers, k)
  <2>1. m \in 0..Size(t.ids, k) /\ m < Size(t.ids, k)
    BY <1>2, <1>7
  <2>2. g = Shortened(t.ids, k, m)
    BY <1>7
  <2> DEFINE p == t.at + 1
  <2>3. Book(t.entries, t.ids, t.layers, p, t.newest)
    BY <1>3
  <2> HIDE DEF p
  <2>4. Book(t.entries, g, t.layers, p - (Size(t.ids, k) - m), t.newest) /\ Topmost(g, t.layers, k)
    BY <1>1, <1>2, <1>6, <2>1, <2>2, <2>3, BookShrinks
  <2> QED
    BY <2>4 DEF p
<1>9. (t.at + 1) - (Size(t.ids, k) - m) = t.at
  BY <1>1, <1>7
<1>10. c = [t EXCEPT !.ids = g]
  BY <1>7 DEF Cut
<1>11. /\ c \in Tabs /\ c.entries = t.entries /\ c.at = t.at /\ c.newest = t.newest /\ c.going = t.going
       /\ c.ids = g /\ c.ignore = t.ignore /\ c.layers = t.layers /\ SameDialogs(t, c) /\ SameRest(t, c)
  BY <1>1, <1>5, <1>10 DEF Tabs, SameDialogs, SameRest
<1>12. Within(c) /\ Bound(c, c.at)
  BY <1>8, <1>9, <1>11 DEF Within, Bound
<1>13. Heeds(c)
  <2>1. ASSUME NEW l \in Keys, Size(g, l) > 0 PROVE Size(t.ids, l) > 0
    BY <1>1, <1>2, <1>5, <1>7, <2>1
  <2> QED
    BY <1>11, <2>1 DEF Heeds
<1> QED
  BY <1>4, <1>5, <1>6, <1>7, <1>8, <1>11, <1>12, <1>13

(* What the dialog in front does of it.                                       *)
LEMMA FrontHandles ==
  ASSUME NEW t, Within(t), Sound(t, t.at + 1), Heeds(t), NEW k \in Keys, InFront(t, k), NEW agrees,
         NEW c, c = Cut(t, k), NEW b, b = Entered(c, k, c.ids[k])
  PROVE  /\ HandlesPopState(t, k, t.entries[t.at], agrees) =
              IF Keeps(t, k) THEN PutBack(b, k, agrees) ELSE BackedOut(c, k, Size(t.ids, k) - 1)
         /\ \A l \in Keys : l # k /\ Size(t.ids, l) > 0 => t.entries[t.at][l] = t.ids[l][Size(t.ids, l)]
<1> DEFINE n == Size(t.ids, k)
           page == t.entries[t.at]
<1>1. /\ t \in Tabs /\ t.ids \in Lists /\ t.entries \in Pages /\ t.newest \in Nat /\ t.layers \in Stacks /\ n \in Nat
      /\ t.at \in Nat /\ t.ignore \in [Keys -> BOOLEAN]
  BY WithinIs
<1>2. /\ Numbered(t.ids, t.newest) /\ Path(t.entries, t.ids, t.layers, t.at + 1)
      /\ n > 0 /\ Topmost(t.ids, t.layers, k) /\ t.ignore[k] = FALSE
  BY DEF Sound, Bound, Book, InFront, Heeds
<1>3. /\ t.entries[t.at + 1 - 1][k] = IF n = 1 THEN 0 ELSE t.ids[k][n - 1]
      /\ \A l \in Keys : l # k => t.entries[t.at + 1 - 1][l] = t.entries[t.at + 1][l]
  BY <1>1, <1>2, PathBelow
<1>4. t.at + 1 - 1 = t.at
  BY <1>1
<1>5. page[k] = (IF n = 1 THEN 0 ELSE t.ids[k][n - 1]) /\ \A l \in Keys : l # k => page[l] = t.entries[t.at + 1][l]
  BY <1>3, <1>4
<1>6. \A l \in Keys : l # k /\ Size(t.ids, l) > 0 => page[l] = t.ids[l][Size(t.ids, l)]
  BY <1>1, <1>2, <1>5, PathTop
<1> HIDE DEF n, page
<1>7. IndexIn(t.ids[k], page[k]) = n - 1 /\ (n = 1 => page[k] = 0)
  <2>1. CASE n = 1
    BY <1>1, <1>2, <1>5, <2>1, ZeroNotFound
  <2>2. CASE n # 1
    <3>1. n - 1 \in 1..Size(t.ids, k) /\ page[k] = t.ids[k][n - 1]
      BY <1>1, <1>2, <1>5, <2>2 DEF n
    <3> QED
      BY <1>1, <1>2, <2>2, <3>1, FoundAt
  <2> QED
    BY <2>1, <2>2
<1>8. Active(t, k) /\ n = Len(t.ids[k]) /\ t.ignore[k] = FALSE
  BY <1>1, <1>2, ActiveIs DEF n, Size
<1>9. [t EXCEPT !.ids[k] = SubSeq(t.ids[k], 1, n - 1)] = c
  BY <1>1 DEF Cut, Shortened, n, Tabs
<1>10. (IF n - 1 > 0 THEN Advance(c, k) ELSE Push(c, k)) = b
  <2>1. Within(c) /\ Size(c.ids, k) = n - 1
    BY CutIs DEF n
  <2>2. n - 1 > 0 => Advance(c, k) = b
    BY <2>1, Advances
  <2>3. ~(n - 1 > 0) => Size(c.ids, k) = 0
    BY <1>1, <1>2, <2>1
  <2>4. ~(n - 1 > 0) => Push(c, k) = b
    BY <2>1, <2>3, Pushes
  <2> QED
    BY <2>2, <2>4
<1> DEFINE i == n - 1
<1>11. i = IndexIn(t.ids[k], page[k]) /\ (page[k] # 0 => i # 0) /\ ~(i > 0 /\ i = Len(t.ids[k]))
  BY <1>1, <1>2, <1>7, <1>8
<1>12. [t EXCEPT !.ids[k] = SubSeq(@, 1, i)] = c
  BY <1>1, <1>9 DEF Tabs, Lists
<1>13. (IF i > 0 THEN Advance(c, k) ELSE Push(c, k)) = b
  BY <1>10
<1> HIDE DEF i
<1>14. HandlesPopState(t, k, page, agrees) = IF Keeps(t, k) THEN PutBack(b, k, agrees) ELSE BackedOut(c, k, i)
  <2> HIDE <1>1, <1>2
  <2> QED
    BY <1>8, <1>11, <1>12, <1>13, Zenon DEF HandlesPopState
<1> QED
  BY <1>6, <1>14 DEF page, n, i

Uncovered(t) == RemoveFirst(t.layers, "control")

(* A control closes: it is gone, and its step back is on its way.             *)
LEMMA ControlCloses ==
  ASSUME NEW t, Calm(t), Size(t.ids, "control") > 0,
         NEW u, u = Closed(Restacked(t, Uncovered(t)), "control")
  PROVE  /\ Within(u) /\ Sound(u, u.at - 1) /\ u.at = t.at /\ u.going = Append(t.going, Own(1))
         /\ u.ids = Shortened(t.ids, "control", 0) /\ u.ignore = Marked(t.ignore, "control", TRUE)
         /\ u.layers = Uncovered(t) /\ u.hiding = t.hiding /\ u.settings = t.settings /\ SameRest(t, u)
         /\ Size(u.ids, "detail") > 0 /\ ~Covered(u.layers, u.ids)
         /\ ToSet(Uncovered(t)) = ToSet(t.layers) \ {"control"}
<1> DEFINE r == Uncovered(t)
           v == Restacked(t, r)
           g == Shortened(t.ids, "control", 0)
<1>1. /\ t \in Tabs /\ t.ids \in Lists /\ t.entries \in Pages /\ t.newest \in Nat /\ t.layers \in Stacks
      /\ t.at \in Nat /\ t.ignore \in [Keys -> BOOLEAN] /\ \A k \in Keys : Size(t.ids, k) \in Nat
  BY WithinIs DEF Calm
<1>2. /\ Placed(t.layers, t.ids, t.hiding, t.node, t.asked) /\ Standing(t.layers, t.ids, t.hiding)
      /\ Trailed(t.layers, t.ids, t.trail, t.node, t.asked, t.returning) /\ Writing(t)
      /\ Book(t.entries, t.ids, t.layers, t.at, t.newest)
  BY DEF Calm, Sound, Shelved, Bound
<1>3. "control" \in ToSet(t.layers)
  BY <1>2, KeysAre DEF Placed
<1>4. /\ t.layers # OnDetail /\ r \in Stacks /\ r # OnDetail /\ ToSet(r) = ToSet(t.layers) \ {"control"}
      /\ "detail" \in ToSet(r)
  <2>1. t.layers = WithControl \/ t.layers = Full
    BY <1>1, <1>3, Holds
  <2>2. CASE t.layers = WithControl
    BY <2>2, WithoutControl, Holding, StacksDiffer DEF Stacks, Uncovered
  <2>3. CASE t.layers = Full
    BY <2>3, WithoutControl, Holding, StacksDiffer DEF Stacks, Uncovered
  <2> QED
    BY <2>1, <2>2, <2>3
<1>5. /\ v \in Tabs /\ v.entries = t.entries /\ v.at = t.at /\ v.newest = t.newest /\ v.going = t.going
      /\ v.ids = t.ids /\ v.ignore = t.ignore /\ v.layers = r /\ v.hiding = t.hiding /\ v.node = t.node
      /\ v.asked = t.asked /\ v.trail = t.trail /\ v.returning = t.returning /\ v.busy = t.busy
      /\ v.settings = t.settings /\ SameRest(t, v)
  BY <1>1, <1>4 DEF Tabs, SameRest, Restacked
<1>r. u = Closed(v, "control") /\ r = Uncovered(t)
  OBVIOUS
<1> HIDE DEF v, g, r
<1>6. Book(t.entries, t.ids, r, t.at, t.newest)
  <2>1. \A l \in Keys : Under(t.ids, r, l) = Under(t.ids, t.layers, l)
    BY <1>4 DEF Under
  <2>2. Path(t.entries, t.ids, r, t.at)
    BY <1>2, <2>1 DEF Book, Path, KeyAt
  <2> QED
    BY <1>2, <1>4, <2>2 DEF Book, Beyond, Covered
<1>7. Within(v) /\ Book(v.entries, v.ids, v.layers, v.at, v.newest)
  BY <1>5, <1>6 DEF Calm, Within
<1>8. Size(t.ids, "control") = 1
  BY <1>1, <1>2, KeysAre DEF Book, Numbered
<1>9. /\ u \in Tabs /\ u.entries = v.entries /\ u.at = v.at /\ u.newest = v.newest
      /\ u.going = Append(v.going, Own(1)) /\ u.ids = Shortened(v.ids, "control", 0)
      /\ u.ignore = Marked(v.ignore, "control", TRUE) /\ SameDialogs(v, u) /\ SameRest(v, u)
  <2>1. u = Closed(v, "control") /\ Size(v.ids, "control") = 1
    BY <1>5, <1>8, <1>r
  <2>2. /\ Size(v.ids, "control") > 0 =>
              /\ u \in Tabs
              /\ u.entries = v.entries /\ u.at = v.at /\ u.newest = v.newest
              /\ u.going = Append(v.going, Own(Size(v.ids, "control")))
              /\ u.ids = Shortened(v.ids, "control", 0)
              /\ u.ignore = Marked(v.ignore, "control", TRUE)
              /\ SameDialogs(v, u) /\ SameRest(v, u)
    BY <1>7, <2>1, KeysAre, ClosedIs
  <2>3. Own(Size(v.ids, "control")) = Own(1) /\ Size(v.ids, "control") > 0
    BY <2>1
  <2> QED
    BY <2>2, <2>3
<1>10. u.ids = g /\ u.layers = r /\ u.hiding = t.hiding /\ u.node = t.node /\ u.asked = t.asked
       /\ u.trail = t.trail /\ u.returning = t.returning /\ u.busy = t.busy /\ u.settings = t.settings
  BY <1>5, <1>9 DEF SameDialogs, g
<1>11. /\ Size(g, "control") = 0 /\ Size(g, "detail") = Size(t.ids, "detail") /\ Size(g, "editor") = Size(t.ids, "editor")
       /\ ~Covered(r, g)
  <2>1. Size(g, "control") = 0 /\ \A l \in Keys : l # "control" => Size(g, l) = Size(t.ids, l)
    BY <1>1, KeysAre, LengthsAre DEF Size, Shortened, Lists, g
  <2> QED
    BY <1>4, <2>1, KeysAre DEF Covered
<1>12. Book(t.entries, g, r, t.at - (Size(t.ids, "control") - 0), t.newest)
  <2>1. Topmost(t.ids, r, "control")
    BY <1>1, <1>4, LengthsAre, UnderDetail DEF Topmost, Total
  <2> DEFINE m == 0
  <2>2. m \in 0..Size(t.ids, "control") /\ m < Size(t.ids, "control") /\ g = Shortened(t.ids, "control", m)
    BY <1>1, <1>8 DEF g
  <2> HIDE DEF m
  <2>3. Book(t.entries, g, r, t.at - (Size(t.ids, "control") - m), t.newest)
    BY <1>1, <1>6, <1>11, <2>1, <2>2, KeysAre, BookShrinks
  <2> QED
    BY <2>3 DEF m
<1>13. Within(u) /\ Bound(u, u.at - 1)
  <2>1. t.at - (Size(t.ids, "control") - 0) = t.at - 1
    BY <1>1, <1>8
  <2> QED
    BY <1>5, <1>7, <1>9, <1>10, <1>12, <2>1 DEF Within, Bound
<1>14. Shelved(r, g, t.hiding, t.node, t.asked)
  <2>1. Placed(r, g, t.hiding, t.node, t.asked)
    <3>1. \A l \in Keys : Size(g, l) > 0 => l \in ToSet(r)
      BY <1>2, <1>4, <1>11, KeysOnly DEF Placed
    <3>2. t.hiding \subseteq ToSet(r) \ {"control"}
      BY <1>2, <1>4 DEF Placed
    <3>3. "editor" \in t.hiding => Size(g, "editor") = 0
      BY <1>2, <1>4, <1>11 DEF Placed
    <3> QED
      BY <1>2, <1>4, <1>11, <3>1, <3>2, <3>3 DEF Placed
  <2>2. Standing(r, g, t.hiding)
    BY <1>1, <1>2, <1>4, <1>11, KeysOnly, Holds DEF Standing
  <2> QED
    BY <2>1, <2>2 DEF Shelved
<1>15. Trailed(r, g, t.trail, t.node, t.asked, t.returning)
  BY <1>2, <1>11 DEF Trailed
<1>16. Writing(u)
  BY <1>2, <1>4, <1>10 DEF Writing
<1>17. Size(g, "detail") > 0
  BY <1>1, <1>2, <1>11 DEF Placed, Covered
<1>18. Sound(u, u.at - 1)
  BY <1>10, <1>13, <1>14, <1>15, <1>16 DEF Sound
<1>19. SameRest(t, u)
  BY <1>5, <1>9 DEF SameRest
<1> QED
  BY <1>r, <1>4, <1>5, <1>9, <1>10, <1>11, <1>13, <1>17, <1>18, <1>19

(* What a landed Back comes to: at most one dialog fewer, and at most its own *)
(* step on its way.                                                           *)
Answered(t, v) ==
    /\ v \in Tabs /\ SameRest(t, v)
    /\ \/ Calm(v) /\ v.going = t.going
       \/ /\ Within(v) /\ Sound(v, v.at - 1) /\ v.going = Append(t.going, Own(1))
          /\ Size(v.ids, "detail") > 0 /\ ~Covered(v.layers, v.ids) /\ Size(t.ids, "control") > 0
    /\ \E d : StandingDialogs(t) \ StandingDialogs(v) \subseteq {d}
Apart(t, v, k) == \A l \in Keys : l # k => v.ids[l] = t.ids[l] /\ v.ignore[l] = t.ignore[l]

LEMMA EntryPutBack ==
  ASSUME NEW t, Within(t), Sound(t, t.at + 1), Heeds(t), NEW k \in Keys, InFront(t, k),
         NEW c, c = Cut(t, k), NEW b, b = Entered(c, k, c.ids[k])
  PROVE  /\ Calm(b) /\ b.going = t.going /\ SameDialogs(t, b) /\ SameRest(t, b) /\ Apart(t, b, k)
         /\ \A l \in Keys : Size(b.ids, l) = Size(t.ids, l)
<1>1. /\ t \in Tabs /\ t.ids \in Lists /\ t.layers \in Stacks /\ t.ignore \in [Keys -> BOOLEAN]
      /\ \A l \in Keys : Size(t.ids, l) \in Nat
  BY WithinIs
<1>2. /\ Within(c) /\ Bound(c, c.at) /\ Heeds(c) /\ Topmost(c.ids, c.layers, k)
      /\ c.ids = Shortened(t.ids, k, Size(t.ids, k) - 1) /\ c.going = t.going /\ c.ignore = t.ignore
      /\ SameDialogs(t, c) /\ SameRest(t, c)
      /\ Size(c.ids, k) = Size(t.ids, k) - 1 /\ \A l \in Keys : l # k => Size(c.ids, l) = Size(t.ids, l)
  BY CutIs
<1>3. k # "detail" => Size(c.ids, k) = 0
  <2>1. k # "detail" => Size(t.ids, k) = 1
    BY CutIs
  <2> QED
    BY <1>2, <2>1
<1>4. /\ Within(b) /\ Bound(b, b.at) /\ Heeds(b) /\ b.going = c.going
      /\ Size(b.ids, k) = Size(c.ids, k) + 1 /\ \A l \in Keys : l # k => Size(b.ids, l) = Size(c.ids, l)
      /\ SameDialogs(c, b) /\ SameRest(c, b)
  BY <1>2, <1>3, Enters
<1>5. \A l \in Keys : Size(b.ids, l) = Size(t.ids, l)
  BY <1>1, <1>2, <1>4
<1>6. Apart(t, b, k)
  <2>1. /\ b.ids = Lengthened(c.ids, k, c.newest + 1) /\ b.ignore = Marked(c.ignore, k, FALSE)
    BY <1>2, EnteredIs
  <2>2. c.ids \in Lists /\ c.ignore \in [Keys -> BOOLEAN]
    BY <1>2, WithinIs
  <2> QED
    BY <1>1, <1>2, <2>1, <2>2 DEF Apart, Lengthened, Shortened, Marked, Lists
<1>7. SameDialogs(t, b) /\ SameRest(t, b)
  BY <1>2, <1>4 DEF SameDialogs, SameRest
<1>8. Sound(b, b.at)
  <2>1. /\ Shelved(t.layers, t.ids, t.hiding, t.node, t.asked) /\ Writing(t)
        /\ Trailed(t.layers, t.ids, t.trail, t.node, t.asked, t.returning)
    BY DEF Sound
  <2>2. /\ Shelved(t.layers, b.ids, t.hiding, t.node, t.asked)
        /\ Trailed(t.layers, b.ids, t.trail, t.node, t.asked, t.returning)
    BY <1>1, <1>5, <2>1, SizesAlone
  <2> QED
    BY <1>4, <1>7, <2>1, <2>2 DEF Sound, SameDialogs, Writing
<1> QED
  BY <1>2, <1>4, <1>5, <1>6, <1>7, <1>8 DEF Calm

LEMMA StandingSame ==
  ASSUME NEW t, NEW v, v.layers = t.layers, v.hiding = t.hiding, v.settings = t.settings
  PROVE  StandingDialogs(t) \ StandingDialogs(v) \subseteq {"detail"}
BY DEF StandingDialogs

LEMMA ControlAnswers ==
  ASSUME NEW t, NEW b, Calm(b), b.going = t.going, SameDialogs(t, b), SameRest(t, b), Apart(t, b, "control"),
         Size(b.ids, "control") > 0, Size(t.ids, "control") > 0,
         NEW v, v = Closed(Restacked(b, Uncovered(b)), "control")
  PROVE  Answered(t, v) /\ Apart(t, v, "control")
<1>2. b \in Tabs /\ b.layers = t.layers /\ b.hiding = t.hiding /\ b.settings = t.settings
      /\ b.ids \in Lists /\ b.ignore \in [Keys -> BOOLEAN]
  BY WithinIs DEF Calm, SameDialogs
<1>3. /\ Within(v) /\ Sound(v, v.at - 1) /\ v.at = b.at /\ v.going = Append(b.going, Own(1))
      /\ v.ids = Shortened(b.ids, "control", 0) /\ v.ignore = Marked(b.ignore, "control", TRUE)
      /\ v.layers = Uncovered(b) /\ v.hiding = b.hiding /\ v.settings = b.settings /\ SameRest(b, v)
      /\ Size(v.ids, "detail") > 0 /\ ~Covered(v.layers, v.ids)
      /\ ToSet(Uncovered(b)) = ToSet(b.layers) \ {"control"}
  BY ControlCloses
<1>4. Apart(t, v, "control")
  <2>1. \A l \in Keys : l # "control" => v.ids[l] = b.ids[l] /\ v.ignore[l] = b.ignore[l]
    BY <1>2, <1>3 DEF Shortened, Marked, Lists
  <2> QED
    BY <2>1 DEF Apart
<1>5. StandingDialogs(t) \ StandingDialogs(v) \subseteq {"control"}
  BY <1>2, <1>3 DEF StandingDialogs
<1>6. v \in Tabs /\ SameRest(t, v)
  BY <1>3, WithinIs DEF SameRest
<1> QED
  BY <1>3, <1>4, <1>5, <1>6 DEF Answered

LEMMA BackKept ==
  ASSUME NEW t, Within(t), Sound(t, t.at + 1), Heeds(t), NEW k \in Keys, InFront(t, k), NEW agrees \in BOOLEAN,
         NEW c, c = Cut(t, k), NEW b, b = Entered(c, k, c.ids[k]), Keeps(t, k), NEW v, v = PutBack(b, k, agrees)
  PROVE  Answered(t, v) /\ Apart(t, v, k)
<1>1. /\ Calm(b) /\ b.going = t.going /\ SameDialogs(t, b) /\ SameRest(t, b) /\ Apart(t, b, k)
      /\ \A l \in Keys : Size(b.ids, l) = Size(t.ids, l)
  BY EntryPutBack
<1>2. b \in Tabs /\ b.layers = t.layers /\ b.hiding = t.hiding /\ b.settings = t.settings
  BY <1>1, WithinIs DEF Calm, SameDialogs
<1>3. "detail" # "control" /\ "detail" # "editor" /\ "control" # "editor"
  OBVIOUS
<1>4. CASE k = "detail"
  <2>1. v = [b EXCEPT !.settings = ~agrees]
    BY <1>4 DEF PutBack
  <2>2. /\ v \in Tabs /\ SameBook(b, v) /\ v.at = b.at /\ v.ignore = b.ignore /\ v.going = b.going
        /\ v.ids = b.ids /\ v.layers = b.layers /\ v.hiding = b.hiding /\ SameRest(b, v)
    <3>1. b.busy => "editor" \in ToSet(b.layers)
      BY <1>1 DEF Calm, Sound, Writing
    <3> QED
      BY <1>2, <2>1, <3>1 DEF Tabs, SameBook, SameRest
  <2>3. Calm(v)
    BY <1>1, <2>2, CalmKept
  <2>4. StandingDialogs(t) \ StandingDialogs(v) \subseteq {"settings"}
    BY <1>2, <2>2 DEF StandingDialogs
  <2> QED
    BY <1>1, <2>2, <2>3, <2>4 DEF Answered, Apart, SameRest
<1>5. CASE v = b
  <2>1. StandingDialogs(t) \ StandingDialogs(v) \subseteq {"detail"}
    BY <1>2, <1>5, StandingSame
  <2> QED
    BY <1>1, <1>2, <1>5, <2>1 DEF Answered
<1>6. CASE k = "control" /\ agrees
  <2>1. v = Closed(Restacked(b, Uncovered(b)), "control")
    BY <1>3, <1>6 DEF PutBack, Restacked, Uncovered
  <2>2. Size(b.ids, "control") > 0 /\ Size(t.ids, "control") > 0 /\ Apart(t, b, "control")
    BY <1>1, <1>6 DEF InFront
  <2>3. Answered(t, v) /\ Apart(t, v, "control")
    BY <1>1, <2>1, <2>2, ControlAnswers
  <2> QED
    BY <1>6, <2>3
<1>7. CASE ~(k = "detail") /\ ~(k = "control" /\ agrees)
  <2>1. v = b
    BY <1>3, <1>7, KeysOnly DEF PutBack
  <2> QED
    BY <1>5, <2>1
<1> QED
  BY <1>4, <1>6, <1>7

LEMMA BackGone ==
  ASSUME NEW t, Within(t), Sound(t, t.at + 1), Heeds(t), NEW k \in Keys, InFront(t, k),
         NEW c, c = Cut(t, k), ~Keeps(t, k), NEW i, i = Size(t.ids, k) - 1, NEW v, v = BackedOut(c, k, i)
  PROVE  Answered(t, v) /\ Apart(t, v, k)
<1>1. /\ t \in Tabs /\ t.ids \in Lists /\ t.layers \in Stacks /\ t.ignore \in [Keys -> BOOLEAN]
      /\ \A l \in Keys : Size(t.ids, l) \in Nat
  BY WithinIs
<1>2. /\ Within(c) /\ Bound(c, c.at) /\ Heeds(c) /\ ~Covered(c.layers, c.ids)
      /\ c.ids = Shortened(t.ids, k, Size(t.ids, k) - 1) /\ c.going = t.going /\ c.ignore = t.ignore
      /\ SameDialogs(t, c) /\ SameRest(t, c)
      /\ Size(c.ids, k) = Size(t.ids, k) - 1 /\ \A l \in Keys : l # k => Size(c.ids, l) = Size(t.ids, l)
      /\ k # "detail" => Size(t.ids, k) = 1
  BY CutIs
<1>3. /\ c \in Tabs /\ c.layers = t.layers /\ c.hiding = t.hiding /\ c.node = t.node /\ c.trail = t.trail
      /\ c.asked = t.asked /\ c.returning = t.returning /\ c.settings = t.settings /\ c.busy = t.busy
  BY <1>2, WithinIs DEF SameDialogs
<1>4. /\ Placed(t.layers, t.ids, t.hiding, t.node, t.asked) /\ Standing(t.layers, t.ids, t.hiding) /\ Writing(t)
      /\ Trailed(t.layers, t.ids, t.trail, t.node, t.asked, t.returning)
  BY DEF Sound, Shelved
<1>5. k \in ToSet(t.layers) /\ k # "control" /\ Size(t.ids, k) > 0 /\ i \in Nat /\ Size(c.ids, k) = i
  BY <1>1, <1>2, <1>4 DEF Placed, InFront, Keeps
<1>6. Apart(t, c, k)
  BY <1>1, <1>2 DEF Apart, Shortened, Lists
<1>7. CASE k = "detail" /\ i > 0
  <2> DEFINE tr == SubSeq(t.trail, 1, i)
             x == t.trail[i]
  <2>1. v = [c EXCEPT !.trail = tr, !.returning = t.node, !.asked = x]
    BY <1>3, <1>7 DEF BackedOut
  <2>2. t.trail \in Seq(Nodes) /\ i \in 1..Len(t.trail) /\ t.node \in Nodes /\ t.node # NoNode
    <3>1. t.trail \in Seq(Nodes) /\ t.node \in Nodes \union {NoNode}
      BY <1>1 DEF Tabs
    <3>2. Len(t.trail) = i + 1
      BY <1>1, <1>4, <1>5, <1>7 DEF Trailed
    <3>3. t.node # NoNode
      BY <1>4, <1>5, <1>7 DEF Placed
    <3> QED
      BY <1>5, <1>7, <3>1, <3>2, <3>3
  <2>3. tr \in Seq(Nodes) /\ Len(tr) = i /\ Last(tr) = x /\ x \in Nodes /\ x # NoNode
    BY <2>2, NodesAssumption DEF Last
  <2> HIDE DEF tr, x
  <2>4. /\ v \in Tabs /\ v.entries = c.entries /\ v.at = c.at /\ v.newest = c.newest /\ v.going = c.going
        /\ v.ids = c.ids /\ v.ignore = c.ignore /\ v.layers = t.layers /\ v.hiding = t.hiding /\ v.node = t.node
        /\ v.asked = x /\ v.trail = tr /\ v.returning = t.node /\ v.busy = t.busy /\ v.settings = t.settings
        /\ SameRest(c, v)
    BY <1>3, <2>1, <2>2, <2>3 DEF Tabs, SameRest
  <2>5. Placed(t.layers, c.ids, t.hiding, t.node, x)
    <3>1. \A l \in Keys : Size(c.ids, l) > 0 => Size(t.ids, l) > 0
      BY <1>1, <1>2, <1>5
    <3>2. Size(c.ids, "editor") = Size(t.ids, "editor")
      BY <1>2, <1>7, KeysAre
    <3> QED
      BY <1>2, <1>3, <1>4, <1>5, <1>7, <3>1, <3>2 DEF Placed
  <2>6. Standing(t.layers, c.ids, t.hiding)
    BY <1>1, <1>2, <1>4, <1>5, <1>7, Holds DEF Standing
  <2>7. Trailed(t.layers, c.ids, tr, t.node, x, t.node)
    BY <1>2, <1>3, <1>5, <1>7, <2>2, <2>3 DEF Trailed
  <2>8. Calm(v)
    <3>1. Within(v) /\ Bound(v, v.at) /\ Heeds(v)
      BY <1>2, <1>3, <2>4 DEF Within, Bound, Heeds
    <3> QED
      BY <1>4, <2>4, <2>5, <2>6, <2>7, <3>1 DEF Calm, Sound, Shelved, Writing
  <2>9. StandingDialogs(t) \ StandingDialogs(v) \subseteq {"detail"}
    BY <2>4, StandingSame
  <2> QED
    BY <1>2, <1>6, <2>4, <2>8, <2>9 DEF Answered, Apart, SameRest
<1>8. CASE ~(k = "detail" /\ i > 0)
  <2>1. i = 0
    <3>1. k # "detail" => Size(t.ids, k) = 1
      BY <1>2
    <3> QED
      BY <1>1, <1>5, <1>8, <3>1
  <2> DEFINE h == t.hiding \union {k}
  <2>2. v = [c EXCEPT !.hiding = h]
    BY <1>3, <1>8 DEF BackedOut
  <2>3. h \subseteq Keys /\ h \subseteq ToSet(t.layers) \ {"control"} /\ h = t.hiding \union {k}
    BY <1>1, <1>4, <1>5, Holds DEF Placed
  <2> HIDE DEF h
  <2>4. /\ v \in Tabs /\ v.entries = c.entries /\ v.at = c.at /\ v.newest = c.newest /\ v.going = c.going
        /\ v.ids = c.ids /\ v.ignore = c.ignore /\ v.layers = t.layers /\ v.hiding = h /\ v.node = t.node
        /\ v.asked = t.asked /\ v.trail = t.trail /\ v.returning = t.returning /\ v.busy = t.busy
        /\ v.settings = t.settings /\ SameRest(c, v)
    BY <1>3, <2>2, <2>3 DEF Tabs, SameRest
  <2>5. Placed(t.layers, c.ids, h, t.node, t.asked)
    <3>1. \A l \in Keys : Size(c.ids, l) > 0 => Size(t.ids, l) > 0
      BY <1>1, <1>2, <1>5
    <3>2. k = "editor" => Size(c.ids, "editor") = 0
      BY <1>5, <2>1
    <3>3. k # "editor" => Size(c.ids, "editor") = Size(t.ids, "editor")
      BY <1>2, KeysAre
    <3> QED
      BY <1>2, <1>3, <1>4, <2>3, <3>1, <3>2, <3>3 DEF Placed
  <2>6. Standing(t.layers, c.ids, h)
    BY <1>1, <1>2, <1>4, <2>3, Holds DEF Standing
  <2>7. Trailed(t.layers, c.ids, t.trail, t.node, t.asked, t.returning)
    <3>1. Size(c.ids, "detail") > 0 => Size(c.ids, "detail") = Size(t.ids, "detail")
      BY <1>2, <1>5, <2>1, KeysAre
    <3> QED
      BY <1>2, <1>3, <1>4, <3>1 DEF Trailed
  <2>8. Calm(v)
    <3>1. Within(v) /\ Bound(v, v.at) /\ Heeds(v)
      BY <1>2, <1>3, <2>4 DEF Within, Bound, Heeds
    <3> QED
      BY <1>4, <2>4, <2>5, <2>6, <2>7, <3>1 DEF Calm, Sound, Shelved, Writing
  <2>9. StandingDialogs(t) \ StandingDialogs(v) \subseteq {k}
    <3>1. k = "detail" => t.settings = FALSE
      BY <1>1 DEF Keeps, Tabs
    <3> QED
      BY <2>3, <2>4, <3>1 DEF StandingDialogs
  <2> QED
    BY <1>2, <1>6, <2>4, <2>8, <2>9 DEF Answered, Apart, SameRest
<1> QED
  BY <1>7, <1>8

LEMMA BackLands ==
  ASSUME NEW t, Within(t), Sound(t, t.at + 1), Heeds(t), NEW agrees \in BOOLEAN
  PROVE  Answered(t, PopState(t, agrees))
<1>1. t.at \in Nat /\ t.at > 0 /\ t.at + 1 > 1
  BY WithinIs
<1>2. PICK k \in Keys : InFront(t, k)
  <2> DEFINE p == t.at + 1
  <2>1. Sound(t, p) /\ p > 1
    BY <1>1
  <2> HIDE DEF p
  <2> QED
    BY <2>1, SomeoneInFront
<1> DEFINE c == Cut(t, k)
           b == Entered(c, k, c.ids[k])
           v == HandlesPopState(t, k, t.entries[t.at], agrees)
           i == Size(t.ids, k) - 1
<1>c. c = Cut(t, k) /\ b = Entered(c, k, c.ids[k]) /\ v = HandlesPopState(t, k, t.entries[t.at], agrees)
      /\ i = Size(t.ids, k) - 1
  OBVIOUS
<1> HIDE DEF c, b, v, i
<1>3. /\ v = IF Keeps(t, k) THEN PutBack(b, k, agrees) ELSE BackedOut(c, k, i)
      /\ \A l \in Keys : l # k /\ Size(t.ids, l) > 0 => t.entries[t.at][l] = t.ids[l][Size(t.ids, l)]
  BY <1>2, <1>c, FrontHandles
<1> QED
  <2>0. Answered(t, v) /\ Apart(t, v, k)
    <3>1. CASE Keeps(t, k)
      <4>1. v = PutBack(b, k, agrees)
        BY <1>3, <3>1
      <4> QED
        BY <1>2, <1>c, <3>1, <4>1, BackKept
    <3>2. CASE ~Keeps(t, k)
      <4>1. v = BackedOut(c, k, i)
        BY <1>3, <3>2
      <4> QED
        BY <1>2, <1>c, <3>2, <4>1, BackGone
    <3> QED
      BY <3>1, <3>2
  <2>1. v \in Tabs /\ \A l \in Keys : l # k => v.ids[l] = t.ids[l] /\ v.ignore[l] = t.ignore[l]
    BY <2>0 DEF Answered, Apart
  <2>2. Numbered(t.ids, t.newest)
    BY DEF Sound, Bound, Book
  <2>3. PopState(t, agrees) = v
    BY <1>2, <1>3, <1>c, <2>1, <2>2, PopsOne
  <2> QED
    BY <2>0, <2>3

(* Forward: the entry is of a node the trail has left, so the detail steps back. *)
LEMMA ForwardLands ==
  ASSUME NEW t, Within(t), Sound(t, t.at - 1), Heeds(t), NEW agrees,
         \A k \in Keys : t.entries[t.at][k] # 0 => Size(t.ids, k) > 0,
         NEW v, v = PopState(t, agrees)
  PROVE  /\ Within(v) /\ Sound(v, v.at - 1) /\ v.going = Append(t.going, Own(1)) /\ SameDialogs(t, v) /\ SameRest(t, v)
         /\ Size(v.ids, "detail") > 0 /\ ~Covered(v.layers, v.ids)
<1> DEFINE page == t.entries[t.at]
<1>1. /\ t \in Tabs /\ t.ids \in Lists /\ t.entries \in Pages /\ t.newest \in Nat /\ t.layers \in Stacks
      /\ t.at \in Nat /\ t.at \in 1..Len(t.entries) /\ Len(t.entries) \in Nat /\ t.ignore \in [Keys -> BOOLEAN]
      /\ t.going \in Seq(Trips)
      /\ Size(t.ids, "detail") \in Nat /\ Size(t.ids, "control") \in Nat /\ Size(t.ids, "editor") \in Nat
  BY WithinIs, LengthsAre DEF Pages
<1>2. page \in [Keys -> Nat]
  BY <1>1 DEF Pages
<1>3. Numbered(t.ids, t.newest) /\ Beyond(t.entries, t.ids, t.layers, t.at - 1)
  BY DEF Sound, Bound, Book
<1>4. ~Covered(t.layers, t.ids) /\ Beside(page, t.ids)
  <2>1. Covered(t.layers, t.ids) => t.at - 1 = Len(t.entries)
    BY <1>3 DEF Beyond
  <2>2. t.at \in (t.at - 1 + 1)..Len(t.entries)
    BY <1>1
  <2>3. \A j \in ((t.at - 1) + 1)..Len(t.entries) : Beside(t.entries[j], t.ids)
    BY <1>3 DEF Beyond
  <2>4. t.at \in ((t.at - 1) + 1)..Len(t.entries)
    BY <1>1
  <2> QED
    BY <1>1, <2>1, <2>3, <2>4
<1> HIDE DEF page
<1>5. \A k \in Keys : page[k] # 0 => Size(t.ids, k) > 0
  BY DEF page
<1>6. /\ Size(t.ids, "detail") > 0 /\ page["detail"] # 0 /\ page["detail"] \in Nat
      /\ \A i \in 1..Size(t.ids, "detail") : t.ids["detail"][i] # page["detail"]
  BY <1>1, <1>2, <1>4, <1>5, KeysAre DEF Beside
<1>7. IndexIn(t.ids["detail"], page["detail"]) = 0
  <2>1. IndexIn(t.ids["detail"], page["detail"]) \in 0..Size(t.ids, "detail")
        /\ (IndexIn(t.ids["detail"], page["detail"]) > 0 =>
              t.ids["detail"][IndexIn(t.ids["detail"], page["detail"])] = page["detail"])
    BY <1>1, <1>6, KeysAre, Found
  <2> QED
    BY <1>1, <1>6, <2>1
<1> DEFINE w == Marked(t.ignore, "detail", TRUE)
           q == Append(t.going, Own(1))
           x == [t EXCEPT !.ignore = w, !.going = q]
<1>8. x = HandlesPopState(t, "detail", page, agrees)
  <2>1. Active(t, "detail") /\ t.ignore["detail"] = FALSE
    BY <1>1, <1>6, KeysAre, ActiveIs DEF Heeds
  <2>2. x = [t EXCEPT !.ignore["detail"] = TRUE, !.going = Append(@, Towards(-1, FALSE, FALSE))]
    BY <1>1 DEF Tabs, Marked, Own
  <2> HIDE DEF x
  <2> QED
    BY <1>6, <1>7, <2>1, <2>2 DEF HandlesPopState
<1>9. w \in [Keys -> BOOLEAN] /\ q \in Seq(Trips) /\ \A l \in Keys : l # "detail" => w[l] = t.ignore[l]
  <2>1. 1 \in Int
    OBVIOUS
  <2>2. Own(1) \in Trips
    BY <2>1, TripsAre, Zenon
  <2>3. q \in Seq(Trips)
    BY <1>1, <2>2, Queued
  <2> QED
    BY <1>1, <2>3 DEF Marked
<1> HIDE DEF w, q
<1>10. /\ x \in Tabs /\ x.entries = t.entries /\ x.at = t.at /\ x.newest = t.newest /\ x.going = q
       /\ x.ids = t.ids /\ x.ignore = w /\ SameDialogs(t, x) /\ SameRest(t, x)
  BY <1>1, <1>9 DEF Tabs, SameDialogs, SameRest
<1> HIDE DEF x
<1>11. v = x
  <2>1. \A l \in Keys : l # "detail" /\ Size(t.ids, l) > 0 => t.entries[t.at][l] = t.ids[l][Size(t.ids, l)]
    <3>1. Size(t.ids, "control") = 0
      BY <1>1, <1>4 DEF Covered
    <3>2. Size(t.ids, "editor") > 0 => page["editor"] = t.ids["editor"][1] /\ Size(t.ids, "editor") = 1
      BY <1>1, <1>3, <1>4 DEF Beside, Numbered
    <3> QED
      BY <3>1, <3>2, KeysOnly DEF page
  <2>2. x = HandlesPopState(t, "detail", t.entries[t.at], agrees)
    BY <1>8 DEF page
  <2>3. \A l \in Keys : l # "detail" => x.ids[l] = t.ids[l] /\ x.ignore[l] = t.ignore[l]
    BY <1>9, <1>10
  <2>4. PopState(t, agrees) = x
    BY <1>3, <1>10, <2>1, <2>2, <2>3, KeysAre, PopsOne
  <2> QED
    BY <2>4
<1>12. Sound(v, v.at - 1)
  <2>1. SameBook(t, v)
    BY <1>10, <1>11 DEF SameBook, SameDialogs, Sound, Writing
  <2>2. v.at = t.at
    BY <1>10, <1>11
  <2> QED
    BY <2>1, <2>2, SoundKept
<1> QED
  BY <1>1, <1>4, <1>6, <1>10, <1>11, <1>12 DEF Within, SameDialogs, q

----------------------------------------------------------------------------
(* A release lands: the others slept, the dialog is taken away and comes on top. *)

LEMMA PopsAsleep ==
  ASSUME NEW t, t \in Tabs, NEW agrees, NEW k \in Keys, Size(t.ids, k) > 0, t.ignore[k] = TRUE,
         \A l \in Keys : l # k => Size(t.ids, l) = 0, NEW u, u = PopState(t, agrees)
  PROVE  Woken(t, u) /\ u.ignore[k] = FALSE
<1> DEFINE page == t.entries[t.at]
           v == HandlesPopState(t, k, page, agrees)
<1>1. v = HandlesPopState(t, k, page, agrees)
  OBVIOUS
<1>2. u = HandlesPopState(HandlesPopState(HandlesPopState(t, "detail", page, agrees),
                                          "control", page, agrees), "editor", page, agrees)
  BY DEF PopState, Landing
<1> HIDE DEF page, v
<1>3. Woken(t, v) /\ v.ignore[k] = FALSE
  BY <1>1, Wakes
<1>4. ASSUME NEW l \in Keys, l # k
      PROVE  HandlesPopState(t, l, page, agrees) = t /\ HandlesPopState(v, l, page, agrees) = v
  <2>1. v \in Tabs /\ v.ids = t.ids
    BY <1>3 DEF Woken
  <2>2. Silent(t, l, page) /\ Silent(v, l, page)
    BY <1>4, <2>1 DEF Silent
  <2> QED
    BY <2>1, <2>2, Unmoved
<1>5. u = v
  BY <1>1, <1>2, <1>4, KeysAre, KeysOnly
<1> QED
  BY <1>3, <1>5

(* What is pushed next lies over what comes after the entry landed on.        *)
Forgotten(t) == [t EXCEPT !.entries = SubSeq(t.entries, 1, t.at)]

LEMMA ForgottenIs ==
  ASSUME NEW t, Within(t), NEW u, u = Forgotten(t)
  PROVE  /\ Within(u) /\ u.entries = SubSeq(t.entries, 1, t.at) /\ Len(u.entries) = t.at
         /\ (\A j \in 1..t.at : u.entries[j] = t.entries[j])
         /\ u.at = t.at /\ u.newest = t.newest /\ u.going = t.going /\ u.ids = t.ids /\ u.ignore = t.ignore
         /\ SameDialogs(t, u) /\ SameRest(t, u)
<1> DEFINE e == SubSeq(t.entries, 1, t.at)
<1>1. t \in Tabs /\ t.entries \in Pages /\ t.at \in Nat /\ t.at \in 1..Len(t.entries)
  BY WithinIs
<1>2. e \in Pages /\ Len(e) = t.at /\ \A j \in 1..t.at : e[j] = t.entries[j]
  BY <1>1 DEF Pages
<1>3. u = [t EXCEPT !.entries = e]
  BY DEF Forgotten
<1> HIDE DEF e
<1>4. /\ u \in Tabs /\ u.entries = e /\ u.at = t.at /\ u.newest = t.newest /\ u.going = t.going
      /\ u.ids = t.ids /\ u.ignore = t.ignore /\ SameDialogs(t, u) /\ SameRest(t, u)
  BY <1>1, <1>2, <1>3 DEF Tabs, SameDialogs, SameRest
<1>5. Within(u)
  BY <1>1, <1>2, <1>4 DEF Within
<1> QED
  BY <1>2, <1>4, <1>5 DEF e

LEMMA PushForgets ==
  ASSUME NEW t, Within(t), NEW k \in Keys, Size(t.ids, k) = 0
  PROVE  Push(Forgotten(t), k) = Push(t, k)
<1> DEFINE u == Forgotten(t)
           e == SubSeq(t.entries, 1, t.at)
<1>0. u = Forgotten(t)
  OBVIOUS
<1>1. t \in Tabs /\ t.entries \in Pages /\ t.at \in Nat /\ t.at \in 1..Len(t.entries)
  BY WithinIs
<1>2. SubSeq(e, 1, t.at) = e /\ e[t.at] = t.entries[t.at]
  BY <1>1 DEF Pages
<1>3. u = [t EXCEPT !.entries = e]
  BY DEF Forgotten
<1> HIDE DEF e
<1>4. u.ids = t.ids /\ u.entries = e /\ u.at = t.at /\ u.newest = t.newest
  BY <1>1, <1>3 DEF Tabs
<1> HIDE DEF u
<1>5. ~Active(t, k) /\ ~Active(u, k)
  BY <1>1, <1>4, WithinIs, ActiveIs
<1>6. Landing(u) = Landing(t)
  BY <1>2, <1>4 DEF Landing
<1> DEFINE d == Append(e, [Landing(t) EXCEPT ![k] = t.newest + 1])
           g == [t.ids EXCEPT ![k] = Append(<<>>, t.newest + 1)]
           w == [t.ignore EXCEPT ![k] = FALSE]
<1>7. Entered(t, k, <<>>) = [t EXCEPT !.newest = t.newest + 1, !.ids = g, !.ignore = w, !.entries = d, !.at = t.at + 1]
  BY <1>1 DEF Entered, Tabs, e
<1>8. Entered(u, k, <<>>) = [u EXCEPT !.newest = t.newest + 1, !.ids = g, !.ignore = w, !.entries = d, !.at = t.at + 1]
  <2>1. u.ignore = t.ignore /\ u \in Tabs
    BY <1>0, <1>1, ForgottenIs, WithinIs
  <2> QED
    BY <1>2, <1>4, <1>6, <2>1 DEF Entered, Tabs
<1> HIDE DEF d, g, w
<1>9. Entered(u, k, <<>>) = Entered(t, k, <<>>)
  BY <1>1, <1>3, <1>7, <1>8 DEF Tabs
<1> QED
  BY <1>5, <1>9 DEF Push, u

(* A tab with one dialog's entry, the second, landed on.                      *)
Only(k, x) == [Blank EXCEPT ![k] = x]
Fresh(t, k) ==
    /\ Within(t) /\ t.at = 2 /\ t.hiding = {} /\ t.asked = NoNode
    /\ t.entries[1] = Blank /\ t.entries[2] = Only(k, t.ids[k][1])
    /\ Size(t.ids, k) = 1 /\ \A l \in Keys : l # k => Size(t.ids, l) = 0
    /\ Numbered(t.ids, t.newest) /\ t.ignore[k] = FALSE
    /\ \/ /\ k = "detail" /\ t.layers = Alone /\ t.node # NoNode /\ Len(t.trail) = 1 /\ t.node = Last(t.trail)
          /\ t.returning \in {NoNode, t.node} /\ t.busy = FALSE
       \/ k = "editor" /\ t.layers = Editing /\ t.node = NoNode /\ t.trail = <<>>

LEMMA FreshIsCalm ==
  ASSUME NEW t, NEW k \in Keys, Fresh(t, k)
  PROVE  Calm(Forgotten(t))
<1> DEFINE u == Forgotten(t)
           e == u.entries
           f == t.ids
           s == t.layers
<1>1. /\ Within(u) /\ Len(e) = 2 /\ e[1] = Blank /\ e[2] = Only(k, f[k][1])
      /\ u.at = 2 /\ u.newest = t.newest /\ u.ids = f /\ u.ignore = t.ignore
      /\ u.layers = s /\ u.hiding = {} /\ u.node = t.node /\ u.trail = t.trail /\ u.asked = NoNode
      /\ u.returning = t.returning /\ u.busy = t.busy
  <2>1. Within(t) /\ t.at = 2 /\ 1 \in 1..2 /\ 2 \in 1..2
    BY DEF Fresh
  <2>2. /\ Within(u) /\ Len(u.entries) = t.at
        /\ (\A j \in 1..t.at : u.entries[j] = t.entries[j])
        /\ u.at = t.at /\ u.newest = t.newest /\ u.ids = t.ids /\ u.ignore = t.ignore
        /\ SameDialogs(t, u)
    BY <2>1, ForgottenIs
  <2> QED
    BY <2>1, <2>2 DEF Fresh, SameDialogs
<1> HIDE DEF u, e, f, s
<1>2. /\ f \in Lists /\ Size(f, k) = 1 /\ (\A l \in Keys : l # k => Size(f, l) = 0) /\ Numbered(f, t.newest)
      /\ Size(f, "detail") \in Nat /\ Size(f, "control") \in Nat /\ Size(f, "editor") \in Nat
  BY WithinIs, LengthsAre DEF Fresh, f
<1>3. /\ s \in {Alone, Editing} /\ s # OnDetail /\ (k = "detail" => s = Alone) /\ (k = "editor" => s = Editing)
      /\ (k = "detail" \/ k = "editor")
  BY StacksDiffer DEF Fresh, s
<1>4. ToSet(s) = {k}
  BY <1>3, Holding
<1>5. Size(f, "control") = 0 /\ ~Covered(s, f)
  BY <1>2, <1>3, KeysAre DEF Covered
<1>6. Under(f, s, k) = 0 /\ Total(f) = 1
  <2>1. CASE k = "detail"
    BY <1>2, <1>3, <2>1, KeysAre, UnderDetail DEF Total
  <2>2. CASE k = "editor"
    BY <1>2, <1>3, <2>2, KeysAre, UnderDetail DEF Total
  <2> QED
    BY <1>3, <2>1, <2>2
<1>7. Path(e, f, s, 2)
  <2>1. ASSUME NEW l \in Keys PROVE e[1][l] = KeyAt(f, s, l, 1) /\ e[2][l] = KeyAt(f, s, l, 2)
    <3>1. Under(f, s, l) \in Nat /\ Size(f, l) \in Nat
      BY <1>2, ListsAre
    <3>2. e[1][l] = 0 /\ e[2][l] = IF l = k THEN f[k][1] ELSE 0
      BY <1>1 DEF Blank, Only
    <3>3. KeyAt(f, s, l, 1) = 0
      BY <3>1 DEF KeyAt
    <3>4. l # k => KeyAt(f, s, l, 2) = 0
      BY <1>2 DEF KeyAt
    <3>5. KeyAt(f, s, k, 2) = f[k][1]
      BY <1>2, <1>6 DEF KeyAt
    <3> QED
      BY <3>2, <3>3, <3>4, <3>5
  <2>2. \A j \in 1..2 : j = 1 \/ j = 2
    OBVIOUS
  <2> QED
    BY <1>1, <1>6, <2>1, <2>2 DEF Path
<1>8. Book(e, f, s, 2, t.newest)
  <2>1. Beyond(e, f, s, 2)
    BY <1>1, <1>5 DEF Beyond
  <2> QED
    BY <1>2, <1>7, <2>1 DEF Book
<1>9. Shelved(s, f, {}, t.node, NoNode)
  <2>1. Placed(s, f, {}, t.node, NoNode)
    <3>1. t.node # NoNode <=> "detail" \in ToSet(s)
      BY <1>3, <1>4, StacksDiffer DEF Fresh, s
    <3> QED
      BY <1>2, <1>4, <1>5, <3>1 DEF Placed
  <2> QED
    BY <1>2, <1>4, <2>1 DEF Shelved, Standing
<1>10. Trailed(s, f, t.trail, t.node, NoNode, t.returning)
  <2>1. CASE k = "detail"
    <3>1. t.node # NoNode /\ Len(t.trail) = 1 /\ t.node = Last(t.trail) /\ t.returning \in {NoNode, t.node}
      BY <2>1 DEF Fresh
    <3> QED
      BY <1>2, <1>5, <2>1, <3>1 DEF Trailed
  <2>2. CASE k = "editor"
    BY <1>2, <2>2, KeysAre DEF Trailed, Fresh
  <2> QED
    BY <1>3, <2>1, <2>2
<1>11. Writing(u)
  BY <1>1, <1>3, <1>4 DEF Fresh, Writing
<1>12. Heeds(u)
  BY <1>1, <1>2 DEF Heeds, Fresh
<1>13. Sound(u, u.at)
  BY <1>1, <1>8, <1>9, <1>10, <1>11 DEF Sound, Bound, e
<1>14. Calm(u)
  BY <1>1, <1>12, <1>13 DEF Calm
<1> QED
  BY <1>14 DEF u

(* The editor over the one detail; and a node's detail over the one editor.    *)
LEMMA FreshEditor ==
  ASSUME NEW t, Fresh(t, "detail"), NEW u, u = EditorShown(t)
  PROVE  Calm(u) /\ u.going = t.going /\ SameRest(t, u)
<1> DEFINE c == Forgotten(t)
           v == [t EXCEPT !.layers = Append(t.layers, "editor")]
<1>1. /\ Within(t) /\ t \in Tabs /\ t.layers = Alone /\ t.hiding = {} /\ t.asked = NoNode /\ Size(t.ids, "editor") = 0
      /\ t.at \in 1..Len(t.entries)
  BY WithinIs, KeysAre DEF Fresh
<1>2. /\ Calm(c) /\ c.going = t.going /\ c.layers = Alone /\ c.hiding = {} /\ c.asked = NoNode /\ SameRest(t, c)
  BY <1>1, FreshIsCalm, ForgottenIs, KeysAre DEF SameDialogs
<1>3. u = Push(v, "editor")
  BY DEF EditorShown
<1>4. Within(v) /\ v.ids = t.ids /\ v.at = t.at /\ v.entries = t.entries
  <2>1. Append(t.layers, "editor") \in Stacks
    BY <1>1, Stacking DEF Stacks
  <2> QED
    BY <1>1, <2>1 DEF Within, Tabs
<1>5. Forgotten(v) = [c EXCEPT !.layers = Append(c.layers, "editor")]
  BY <1>1, <1>4 DEF Forgotten, Tabs
<1> HIDE DEF c, v
<1>6. u = Covering(c, "editor")
  BY <1>1, <1>3, <1>4, <1>5, PushForgets, KeysAre DEF Covering, Restacked
<1>7. Calm(u) /\ u.going = c.going /\ SameRest(c, u)
  <2>1. OnDetail \in Stacks
    BY DEF Stacks
  <2> QED
    BY <1>2, <1>6, <2>1, CoverShown
<1> QED
  BY <1>2, <1>7 DEF SameRest

LEMMA FreshDetail ==
  ASSUME NEW t, Fresh(t, "editor"), NEW n \in Nodes, NEW u, u = Shown(t, n)
  PROVE  Calm(u) /\ u.going = t.going /\ SameRest(t, u)
<1> DEFINE c == Forgotten(t)
           b == t.settings /\ n = t.node
           v == [t EXCEPT !.node = n, !.settings = b, !.layers = OnEditor]
           w == [c EXCEPT !.node = n, !.settings = b, !.layers = OnEditor]
<1>1. /\ Within(t) /\ t \in Tabs /\ t.layers = Editing /\ t.hiding = {} /\ t.asked = NoNode /\ Size(t.ids, "detail") = 0
      /\ t.at \in 1..Len(t.entries) /\ n # NoNode
  BY WithinIs, KeysAre, NodesAssumption DEF Fresh
<1>2. /\ Calm(c) /\ c.going = t.going /\ c.layers = Editing /\ c.hiding = {} /\ SameRest(t, c)
      /\ c.settings = t.settings /\ c.node = t.node /\ c.ids = t.ids
  BY <1>1, FreshIsCalm, ForgottenIs, KeysAre DEF SameDialogs
<1>3. (IF "detail" \in ToSet(Editing) THEN Editing ELSE Append(Editing, "detail")) = OnEditor
  BY Holding, Stacking
<1>4. u = Updated(v) /\ Shown(c, n) = Updated(w)
  BY <1>1, <1>2, <1>3 DEF Shown
<1>b. b \in BOOLEAN
  OBVIOUS
<1> HIDE DEF b
<1>5. Within(v) /\ v.ids = t.ids /\ v.at = t.at /\ v.entries = t.entries /\ v.node = n
  BY <1>1, <1>b DEF Within, Tabs, Stacks
<1>6. Forgotten(v) = w /\ w.ids = t.ids /\ w.node = n
  BY <1>1, <1>5 DEF Forgotten, Tabs
<1> HIDE DEF c, v, w
<1>7. ~Active(v, "detail") /\ ~Active(w, "detail")
  BY <1>1, <1>5, <1>6, WithinIs, ActiveIs, KeysAre DEF Active
<1>8. Push(w, "detail") = Push(v, "detail")
  BY <1>1, <1>5, <1>6, PushForgets, KeysAre
<1>9. Updated(w) = Updated(v)
  BY <1>1, <1>5, <1>6, <1>7, <1>8 DEF Updated
<1>10. u = Shown(c, n)
  BY <1>4, <1>9
<1>11. Calm(u) /\ u.going = c.going /\ SameRest(c, u)
  BY <1>2, <1>10, ShownFirst
<1> QED
  BY <1>2, <1>11 DEF SameRest

----------------------------------------------------------------------------
(* What is on its way, and what it says of the tab.                           *)

Still(t) == t.going \in {<<>>, <<Pressed>>, <<Pressed, Pressed>>} /\ Calm(t)
Ahead(t) ==
    /\ t.going \in {<<Forward>>, <<Forward, Pressed>>} /\ Calm(t) /\ t.at < Len(t.entries)
    /\ \A k \in Keys : t.entries[t.at + 1][k] # 0 => Size(t.ids, k) > 0
DetailInFront(t) == Size(t.ids, "detail") > 0 /\ ~Covered(t.layers, t.ids)
Doubled(t) == t.going = <<Pressed, Own(1)>> /\ Sound(t, t.at - 1) /\ DetailInFront(t)
Owed(t) == t.going = <<Own(1)>> /\ Calm(t) /\ DetailInFront(t)
Stepping(t) == \E b \in 1..(t.at - 1) : t.going = <<Own(b)>> /\ Sound(t, t.at - b)
ReleasesEditor(t) ==
    /\ t.going = <<Release(1)>> /\ t.at = 3 /\ t.after = "editor"
    /\ t.layers = OnEditor /\ t.hiding = {} /\ t.asked = NoNode
    /\ Numbered(t.ids, t.newest) /\ Size(t.ids, "detail") = 1 /\ Size(t.ids, "editor") = 0 /\ Size(t.ids, "control") = 0
    /\ t.entries[1] = Blank /\ t.ignore["detail"] = TRUE /\ t.retained = Only("detail", t.ids["detail"][1])
    /\ Len(t.trail) = 1 /\ t.node = Last(t.trail) /\ t.returning \in {NoNode, t.node} /\ t.node # NoNode
ReleasesDetail(t) ==
    /\ \E b \in Nat \ {0} : t.going = <<Release(b)>> /\ t.at = b + 2
    /\ t.after \in Nodes /\ t.layers = OnDetail /\ t.hiding = {}
    /\ Numbered(t.ids, t.newest) /\ Size(t.ids, "editor") = 1 /\ Size(t.ids, "detail") = 0 /\ Size(t.ids, "control") = 0
    /\ t.entries[1] = Blank /\ t.ignore["editor"] = TRUE /\ t.retained = Only("editor", t.ids["editor"][1])

Underway(t) ==
    \/ t.more # "waits" /\ \/ Still(t) \/ Ahead(t) \/ Doubled(t) \/ Owed(t)
                           \/ ReleasesEditor(t) \/ ReleasesDetail(t)
    \/ Stepping(t) /\ (t.more = "waits" => "detail" \notin ToSet(t.layers))
LeftWell(t) ==
    /\ t.left # "pushed"
    /\ t.left = "back" => ToSet(t.layers) \subseteq t.hiding
    /\ t.left = "more" => t.entries[t.at - 1]["detail"] = 0
Orderly(t) ==
    /\ Within(t) /\ t.hiding \subseteq ToSet(t.layers)
    /\ t.astray = FALSE => LeftWell(t) /\ (t.left = "no" => Underway(t))
Quiet(t) == Calm(t) /\ t.going = <<>> /\ t.more # "waits" /\ t.left = "no" /\ t.astray = FALSE

LEMMA TripsGo ==
  ASSUME NEW a \in Trips, NEW b \in Trips
  PROVE  /\ Len(<<a>>) = 1 /\ Head(<<a>>) = a /\ Tail(<<a>>) = <<>> /\ Append(<<>>, a) = <<a>> /\ <<a>> # <<>>
         /\ Len(<<a, b>>) = 2 /\ Head(<<a, b>>) = a /\ Tail(<<a, b>>) = <<b>> /\ Append(<<a>>, b) = <<a, b>>
         /\ <<a, b>> # <<>> /\ <<a, b>>[1] = a /\ <<a, b>>[2] = b /\ <<a>>[1] = a /\ Len(<<>>) = 0
<1>1. /\ Len(<<a>>) = 1 /\ Head(<<a>>) = a /\ Tail(<<a>>) = <<>> /\ Append(<<>>, a) = <<a>> /\ <<a>> # <<>>
      /\ Len(<<>>) = 0 /\ <<a>>[1] = a
  OBVIOUS
<1>2. Len(<<a, b>>) = 2 /\ Head(<<a, b>>) = a /\ <<a, b>> # <<>> /\ <<a, b>>[1] = a /\ <<a, b>>[2] = b
  OBVIOUS
<1>3. Tail(<<a, b>>) = <<b>>
  OBVIOUS
<1>4. Append(<<a>>, b) = <<a, b>>
  <2> DEFINE s == Append(<<a>>, b)
  <2>1. s \in Seq(Trips) /\ Len(s) = 2 /\ s[1] = a /\ s[2] = b
    OBVIOUS
  <2> HIDE DEF s
  <2>2. s = <<a, b>>
    BY <2>1
  <2> QED
    BY <2>2 DEF s
<1> QED
  BY <1>1, <1>2, <1>3, <1>4

LEMMA CalmIsOrderly ==
  ASSUME NEW t, Calm(t), t.going \in {<<>>, <<Pressed>>, <<Pressed, Pressed>>}, t.more # "waits", t.left = "no"
  PROVE  Orderly(t)
BY DEF Orderly, LeftWell, Underway, Still, Calm, Sound, Shelved, Placed

LEMMA QuietGoesOn ==
  ASSUME NEW t, Quiet(t), NEW u, Calm(u), u.going = t.going, SameRest(t, u)
  PROVE  Orderly(u)
BY CalmIsOrderly DEF Quiet, SameRest

LEMMA OrderlyRests ==
  ASSUME NEW t, Orderly(t), t.astray = FALSE, t.going = <<>>, t.left = "no"
  PROVE  Quiet(t)
<1>1. Underway(t)
  BY DEF Orderly
<1>2. 1 \in Int
  OBVIOUS
<1>3. \A n \in Int : Own(n) \in Trips /\ Release(n) \in Trips /\ Pressed \in Trips /\ Forward \in Trips
  BY TripsAre, Zenon
<1>4. \A a, b \in Trips : <<a>> # <<>> /\ <<a, b>> # <<>>
  BY TripsGo
<1>5. ~Ahead(t) /\ ~Doubled(t) /\ ~Owed(t) /\ ~ReleasesEditor(t)
  BY <1>2, <1>3, <1>4 DEF Ahead, Doubled, Owed, ReleasesEditor
<1>6. ~ReleasesDetail(t) /\ ~Stepping(t)
  <2>1. \A b : b \in Nat \ {0} => b \in Int
    OBVIOUS
  <2>2. \A b \in 1..(t.at - 1) : b \in Int
    OBVIOUS
  <2> QED
    BY <1>3, <1>4, <2>1, <2>2 DEF ReleasesDetail, Stepping
<1> QED
  BY <1>1, <1>5, <1>6 DEF Underway, Still, Quiet

----------------------------------------------------------------------------
(* At rest: what the user and the dialogs do leaves the tab in order.         *)

LEMMA QuietIs ==
  ASSUME NEW t, Quiet(t)
  PROVE  /\ t \in Tabs /\ Within(t) /\ Calm(t) /\ Sound(t, t.at) /\ Heeds(t) /\ t.ids \in Lists /\ t.layers \in Stacks
         /\ (\A k \in Keys : Size(t.ids, k) \in Nat)
         /\ Placed(t.layers, t.ids, t.hiding, t.node, t.asked) /\ Standing(t.layers, t.ids, t.hiding)
         /\ Trailed(t.layers, t.ids, t.trail, t.node, t.asked, t.returning) /\ Writing(t)
         /\ t.going = <<>> /\ t.more # "waits" /\ t.left = "no" /\ t.astray = FALSE
BY WithinIs DEF Quiet, Calm, Sound, Shelved

LEMMA QuietKept ==
  ASSUME NEW t, Quiet(t), NEW u, SameBook(t, u), u \in Tabs, u.at = t.at, u.ignore = t.ignore,
         u.going = <<>> \/ u.going = <<Pressed>>, u.more # "waits", u.left = "no"
  PROVE  Orderly(u)
<1>1. Calm(u)
  BY CalmKept DEF Quiet
<1> QED
  BY <1>1, CalmIsOrderly

LEMMA AstrayIsOrderly ==
  ASSUME NEW u, Within(u), u.hiding \subseteq ToSet(u.layers), u.astray = TRUE
  PROVE  Orderly(u)
BY DEF Orderly

LEMMA DetailOpens ==
  ASSUME NEW t, Quiet(t), Top(t) = "page", NEW n \in Nodes, NEW u, u = Shown(t, n)
  PROVE  Orderly(u)
<1>1. t.layers = <<>> /\ "editor" \notin t.hiding
  BY QuietIs, TopIs, Holding DEF Placed
<1>2. Calm(u) /\ u.going = t.going /\ SameRest(t, u)
  BY <1>1, QuietIs, ShownFirst
<1> QED
  BY <1>2, QuietGoesOn

LEMMA NodeAsked ==
  ASSUME NEW t, Quiet(t), Top(t) = "detail", NEW n \in Nodes, n # t.node, NEW u, u = [t EXCEPT !.asked = n]
  PROVE  Orderly(u)
<1>1. /\ t \in Tabs /\ t.layers \in {Alone, OnEditor} /\ \A k \in Keys : Size(t.ids, k) \in Nat
  BY QuietIs, TopIs
<1>2. /\ u \in Tabs /\ u.entries = t.entries /\ u.at = t.at /\ u.newest = t.newest /\ u.going = t.going
      /\ u.ids = t.ids /\ u.ignore = t.ignore /\ u.layers = t.layers /\ u.hiding = t.hiding /\ u.node = t.node
      /\ u.asked = n /\ u.trail = t.trail /\ u.returning = t.returning /\ u.busy = t.busy /\ SameRest(t, u)
  BY <1>1 DEF Tabs, SameRest
<1>3. "detail" \in ToSet(t.layers) /\ "control" \notin ToSet(t.layers) /\ t.layers # OnDetail
  BY <1>1, Holding, StacksDiffer
<1>4. ~Covered(t.layers, t.ids)
  BY <1>1, <1>3, QuietIs, KeysAre DEF Covered, Placed
<1>5. Placed(u.layers, u.ids, u.hiding, u.node, u.asked) /\ Standing(u.layers, u.ids, u.hiding)
  BY <1>2, <1>3, <1>4, QuietIs DEF Placed
<1>6. Trailed(u.layers, u.ids, u.trail, u.node, u.asked, u.returning)
  BY <1>2, <1>4, QuietIs, NodesAssumption DEF Trailed
<1>7. Calm(u)
  BY <1>2, <1>5, <1>6, QuietIs DEF Calm, Within, Sound, Bound, Heeds, Shelved, Writing
<1> QED
  BY <1>2, <1>7, QuietGoesOn

LEMMA InsideChanges ==
  ASSUME NEW t, Quiet(t), NEW b \in BOOLEAN, NEW u,
         \/ u = [t EXCEPT !.settings = b]
         \/ u = [t EXCEPT !.busy = b] /\ (b => "editor" \in ToSet(t.layers))
  PROVE  Orderly(u)
<1>1. t \in Tabs
  BY QuietIs
<1>2. /\ u \in Tabs /\ u.entries = t.entries /\ u.at = t.at /\ u.newest = t.newest /\ u.going = t.going
      /\ u.ids = t.ids /\ u.ignore = t.ignore /\ u.layers = t.layers /\ u.hiding = t.hiding /\ u.node = t.node
      /\ u.asked = t.asked /\ u.trail = t.trail /\ u.returning = t.returning /\ (u.busy = t.busy \/ u.busy = b)
      /\ SameRest(t, u)
  BY <1>1 DEF Tabs, SameRest
<1>3. u.busy => "editor" \in ToSet(t.layers)
  BY <1>1, QuietIs DEF Writing, Tabs
<1>4. SameBook(t, u)
  BY <1>2, <1>3 DEF SameBook
<1> QED
  BY <1>2, <1>4, QuietIs, QuietKept DEF SameRest

LEMMA ControlOpens ==
  ASSUME NEW t, Quiet(t), Top(t) = "detail", t.hiding = {}, t.asked = NoNode,
         NEW u, u = Covering(t, "control")
  PROVE  Orderly(u)
<1>1. t.layers = Alone \/ t.layers = OnEditor
  BY QuietIs, TopIs
<1>2. WithControl \in Stacks /\ Full \in Stacks
  BY DEF Stacks
<1>3. Calm(u) /\ u.going = t.going /\ SameRest(t, u)
  <2>0. Calm(t) /\ "control" \in {"control", "editor"}
    BY DEF Quiet
  <2> DEFINE r == IF t.layers = Alone THEN WithControl ELSE Full
  <2>1. r \in Stacks /\ ((t.layers = Alone /\ r = WithControl) \/ (t.layers = OnEditor /\ r = Full))
    <3>1. t.layers = OnEditor => t.layers # Alone
      BY StacksDiffer
    <3> QED
      BY <1>1, <1>2, <3>1
  <2> HIDE DEF r
  <2> QED
    BY <2>0, <2>1, CoverShown
<1> QED
  BY <1>3, QuietGoesOn

LEMMA StepsOut ==
  ASSUME NEW u, Within(u), NEW b \in Nat \ {0}, Sound(u, u.at - b), u.going = <<Own(b)>>, u.left = "no",
         u.more = "waits" => "detail" \notin ToSet(u.layers)
  PROVE  Orderly(u)
<1>1. b \in 1..(u.at - 1)
  <2>1. u.at - b \in 1..Len(u.entries)
    BY DEF Sound, Bound, Book, Path
  <2> QED
    BY <2>1, WithinIs
<1>2. Stepping(u)
  BY <1>1 DEF Stepping
<1>3. u.hiding \subseteq ToSet(u.layers)
  BY DEF Sound, Shelved, Placed
<1> QED
  BY <1>2, <1>3 DEF Orderly, LeftWell, Underway

LEMMA ControlShuts ==
  ASSUME NEW t, Quiet(t), Top(t) = "control", NEW u, u = Closed([t EXCEPT !.layers = Front(t.layers)], "control")
  PROVE  Orderly(u)
<1>1. t.layers = WithControl \/ t.layers = Full
  BY QuietIs, TopIs
<1>2. Front(t.layers) = Uncovered(t)
  <2>1. CASE t.layers = WithControl
    <3>1. Front(WithControl) = SubSeq(WithControl, 1, 1)
      BY StacksAre DEF Front
    <3> QED
      BY <2>1, <3>1, Unstacking, WithoutControl DEF Uncovered
  <2>2. CASE t.layers = Full
    <3>1. Front(Full) = SubSeq(Full, 1, 2)
      BY StacksAre DEF Front
    <3> QED
      BY <2>2, <3>1, Unstacking, WithoutControl DEF Uncovered
  <2> QED
    BY <1>1, <2>1, <2>2
<1>3. Size(t.ids, "control") > 0
  <2>1. "control" \in ToSet(t.layers)
    BY <1>1, Holding
  <2>2. /\ Placed(t.layers, t.ids, t.hiding, t.node, t.asked) /\ Standing(t.layers, t.ids, t.hiding)
        /\ Size(t.ids, "control") \in Nat
    BY QuietIs, KeysAre
  <2> QED
    BY <2>1, <2>2 DEF Standing, Placed
<1>4. u = Closed(Restacked(t, Uncovered(t)), "control")
  BY <1>2 DEF Restacked
<1>5. /\ Within(u) /\ Sound(u, u.at - 1) /\ u.going = Append(t.going, Own(1)) /\ SameRest(t, u)
  BY <1>3, <1>4, QuietIs, ControlCloses
<1>6. u.going = <<Own(1)>>
  <2>1. 1 \in Int
    OBVIOUS
  <2>2. Own(1) \in Trips
    BY <2>1, TripsAre, Zenon
  <2>3. t.going = <<>>
    BY DEF Quiet
  <2> QED
    BY <1>5, <2>2, <2>3, TripsGo
<1>7. u.left = "no" /\ u.more # "waits"
  BY <1>5, QuietIs DEF SameRest
<1> QED
  BY <1>5, <1>6, <1>7, StepsOut

(* A release: the dialog's own steps back, for the others to sleep through.    *)
ReleaseLeaves(t, k, a, u) ==
    /\ u \in Tabs /\ u.entries = t.entries /\ u.at = t.at /\ u.newest = t.newest
    /\ u.going = Append(t.going, Release(Size(t.ids, k)))
    /\ u.ids = Shortened(t.ids, k, 0) /\ u.retained = [t.entries[t.at] EXCEPT ![k] = 0] /\ u.after = a
    /\ \A l \in Keys : l # k /\ Size(t.ids, l) > 0 => u.ignore[l] = TRUE
    /\ SameDialogs(t, u) /\ u.more = t.more /\ u.left = t.left
    /\ (\A l \in Keys \ {k} : Size(t.ids, l) <= 1) => u.astray = t.astray
    /\ (\E l \in Keys \ {k} : Size(t.ids, l) > 1) => u.astray = TRUE

LEMMA ReleasedIs ==
  ASSUME NEW t, Within(t), Book(t.entries, t.ids, t.layers, t.at, t.newest), NEW k \in Keys, Size(t.ids, k) > 0,
         NEW a \in Nodes \union {"editor"}, NEW u, u = Released(t, k, a)
  PROVE  ReleaseLeaves(t, k, a, u)
<1> DEFINE n == Size(t.ids, k)
           g == Shortened(t.ids, k, 0)
           w == [l \in Keys |-> t.ignore[l] \/ (l # k /\ Active(t, l))]
           page == [t.entries[t.at] EXCEPT ![k] = 0]
           lost == t.astray \/ \E l \in Keys \ {k} : Size(t.ids, l) > 1
           q == Append(t.going, Release(n))
<1>1. /\ t \in Tabs /\ t.ids \in Lists /\ t.entries \in Pages /\ t.newest \in Nat /\ t.at \in 1..Len(t.entries)
      /\ t.going \in Seq(Trips) /\ t.ignore \in [Keys -> BOOLEAN] /\ t.astray \in BOOLEAN
      /\ \A l \in Keys : Size(t.ids, l) \in Nat
  BY WithinIs DEF Tabs
<1>2. /\ Path(t.entries, t.ids, t.layers, t.at) /\ Numbered(t.ids, t.newest)
  BY DEF Book
<1>3. n \in 1..n /\ n \in Nat /\ n \in Int /\ t.ids[k] \in Seq(Nat) /\ n > 0
  BY <1>1, LengthsAre
<1>4. Depth(t, k) = n
  <2>1. t.entries[t.at][k] = t.ids[k][n]
    BY <1>1, <1>2, PathTop
  <2> QED
    BY <1>1, <1>2, <1>3, <2>1, FoundAt DEF Depth, Landing
<1>5. SubSeq(t.ids[k], 1, 0) = <<>>
  BY <1>3
<1>6. g = [t.ids EXCEPT ![k] = <<>>]
  BY <1>5 DEF Shortened
<1>7. /\ g \in Lists /\ w \in [Keys -> BOOLEAN] /\ page \in [Keys -> Nat] /\ lost \in BOOLEAN
  <2>1. g \in Lists
    <3>1. [t.ids EXCEPT ![k] = <<>>] \in Lists
      BY <1>1 DEF Lists
    <3> QED
      BY <1>6, <3>1
  <2>2. w \in [Keys -> BOOLEAN]
    BY <1>1
  <2>3. page \in [Keys -> Nat]
    BY <1>1 DEF Pages
  <2> QED
    BY <2>1, <2>2, <2>3
<1>8. \A l \in Keys : l # k /\ Size(t.ids, l) > 0 => w[l] = TRUE
  BY <1>1, ActiveIs
<1>9. q \in Seq(Trips)
  <2>1. Release(n) \in Trips
    BY <1>3, TripsAre, Zenon
  <2> QED
    BY <1>1, <2>1, Queued
<1>10. lost = (t.astray \/ \E l \in Keys \ {k} : Len(t.ids[l]) > 1)
  BY DEF Size
<1>11. q = Append(t.going, Towards(-n, TRUE, FALSE))
  BY DEF Release
<1>12. u = [t EXCEPT !.ids = g, !.after = a, !.ignore = w, !.retained = page, !.astray = lost, !.going = q]
  <2> DEFINE idle == [t EXCEPT !.ids = g, !.after = a]
  <2>1. /\ idle = [t EXCEPT !.ids[k] = <<>>, !.after = a]
        /\ idle.ignore = t.ignore /\ idle.astray = t.astray /\ idle.going = t.going
    BY <1>1, <1>6 DEF Tabs
  <2>2. u = [idle EXCEPT !.ignore = [l \in Keys |-> t.ignore[l] \/ (l # k /\ Active(t, l))],
                         !.retained = [Landing(t) EXCEPT ![k] = 0],
                         !.astray = t.astray \/ \E l \in Keys \ {k} : Len(t.ids[l]) > 1,
                         !.going = Append(t.going, Towards(-n, TRUE, FALSE))]
    <3> HIDE DEF idle, n
    <3>1. n # 0
      BY <1>3
    <3>2. u = [idle EXCEPT !.ignore = [l \in Keys |-> idle.ignore[l] \/ (l # k /\ Active(t, l))],
                         !.retained = [Landing(t) EXCEPT ![k] = 0],
                         !.astray = idle.astray \/ \E l \in Keys \ {k} : Len(t.ids[l]) > 1,
                         !.going = Append(idle.going, Towards(-n, TRUE, FALSE))]
      BY <1>4, <2>1, <3>1 DEF Released
    <3> QED
      BY <2>1, <3>2
  <2>3. page = [Landing(t) EXCEPT ![k] = 0]
    BY DEF Landing
  <2> HIDE DEF n, g, w, page, lost, q
  <2>4. u = [idle EXCEPT !.ignore = w, !.retained = page, !.astray = lost, !.going = q]
    BY <1>10, <1>11, <2>2, <2>3 DEF w
  <2> QED
    BY <1>1, <2>4 DEF Tabs
<1>13. /\ (\A l \in Keys \ {k} : Size(t.ids, l) <= 1) => lost = t.astray
       /\ (\E l \in Keys \ {k} : Size(t.ids, l) > 1) => lost = TRUE
  BY <1>1
<1>n. q = Append(t.going, Release(Size(t.ids, k))) /\ g = Shortened(t.ids, k, 0)
      /\ page = [t.entries[t.at] EXCEPT ![k] = 0]
  OBVIOUS
<1> HIDE DEF n, g, w, page, lost, q
<1>14. u \in Tabs
  BY <1>1, <1>7, <1>9, <1>12 DEF Tabs
<1>15. /\ u.entries = t.entries /\ u.at = t.at /\ u.newest = t.newest /\ u.going = q /\ u.ids = g /\ u.ignore = w
       /\ u.retained = page /\ u.after = a /\ u.astray = lost
       /\ SameDialogs(t, u) /\ u.more = t.more /\ u.left = t.left
  BY <1>1, <1>12 DEF Tabs, SameDialogs
<1> QED
  BY <1>8, <1>13, <1>14, <1>15, <1>n DEF ReleaseLeaves

LEMMA PathStart ==
  ASSUME NEW e \in Pages, NEW f \in Lists, NEW s, NEW p, Path(e, f, s, p)
  PROVE  e[1] = Blank
<1>1. p \in Nat /\ 1 \in 1..p /\ 1 \in 1..Len(e)
  BY DEF Path, Pages
<1>2. e[1] \in [Keys -> Nat]
  BY <1>1 DEF Pages
<1>3. \A k \in Keys : e[1][k] = KeyAt(f, s, k, 1)
  BY <1>1 DEF Path
<1>4. \A k \in Keys : KeyAt(f, s, k, 1) = 0
  BY ListsAre DEF KeyAt
<1> QED
  BY <1>2, <1>3, <1>4 DEF Blank

LEMMA Dropped ==
  ASSUME NEW f \in Lists, NEW n, Numbered(f, n), NEW k \in Keys, NEW g, g = Shortened(f, k, 0)
  PROVE  /\ g \in Lists /\ Numbered(g, n) /\ Size(g, k) = 0
         /\ \A l \in Keys : l # k => g[l] = f[l] /\ Size(g, l) = Size(f, l)
<1>1. f[k] \in Seq(Nat) /\ SubSeq(f[k], 1, 0) = <<>>
  BY DEF Lists
<1>2. g \in Lists /\ g[k] = <<>> /\ \A l \in Keys : l # k => g[l] = f[l]
  BY <1>1 DEF Lists, Shortened
<1>3. Size(g, k) = 0 /\ \A l \in Keys : l # k => Size(g, l) = Size(f, l)
  BY <1>2 DEF Size
<1>4. Size(g, "control") <= 1 /\ Size(g, "editor") <= 1
  BY <1>3, KeysAre DEF Numbered
<1>5. ASSUME NEW l \in Keys
      PROVE  /\ \A i \in 1..Size(g, l) : g[l][i] \in 1..n
             /\ \A i, j \in 1..Size(g, l) : g[l][i] = g[l][j] => i = j
  <2>1. CASE l = k
    BY <1>3, <2>1
  <2>2. CASE l # k
    BY <1>2, <1>3, <2>2 DEF Numbered
  <2> QED
    BY <2>1, <2>2
<1>6. Numbered(g, n)
  BY <1>4, <1>5 DEF Numbered
<1> QED
  BY <1>2, <1>3, <1>6

Without(page, k) == [page EXCEPT ![k] = 0]
LEMMA LeftOver ==
  ASSUME NEW e \in Pages, NEW f \in Lists, NEW s, NEW p, Path(e, f, s, p), NEW k \in Keys, NEW j \in Keys, j # k,
         \A l \in Keys : l # k /\ l # j => Size(f, l) = 0, Size(f, j) = 1
  PROVE  Without(e[p], k) = Only(j, f[j][1])
<1>1. e[p] \in [Keys -> Nat]
  BY DEF Path, Pages
<1>2. \A l \in Keys : l # k => e[p][l] = IF l = j THEN f[j][1] ELSE 0
  BY PathTop
<1> QED
  BY <1>1, <1>2 DEF Only, Blank, Without

LEMMA OneTrip ==
  ASSUME NEW n \in Int, NEW q, q = <<>>
  PROVE  Append(q, Own(n)) = <<Own(n)>> /\ Append(q, Release(n)) = <<Release(n)>>
<1>1. Own(n) \in Trips /\ Release(n) \in Trips
  BY TripsAre, Zenon
<1> QED
  BY <1>1, TripsGo

LEMMA EditorReleased ==
  ASSUME NEW t, Quiet(t), t.layers = OnEditor, t.hiding = {}, t.asked = NoNode, NEW u, u = Released(t, "editor", "editor")
  PROVE  Orderly(u)
<1>1. /\ t \in Tabs /\ t.ids \in Lists /\ t.entries \in Pages /\ t.newest \in Nat /\ t.at \in 1..Len(t.entries)
      /\ Within(t) /\ Size(t.ids, "detail") \in Nat /\ Size(t.ids, "control") \in Nat /\ Size(t.ids, "editor") \in Nat
      /\ t.going = <<>> /\ t.more # "waits" /\ t.left = "no" /\ t.astray = FALSE
  BY QuietIs, WithinIs, KeysAre
<1>2. /\ Placed(t.layers, t.ids, t.hiding, t.node, t.asked) /\ Standing(t.layers, t.ids, t.hiding)
      /\ Trailed(t.layers, t.ids, t.trail, t.node, t.asked, t.returning)
      /\ Book(t.entries, t.ids, t.layers, t.at, t.newest)
  BY QuietIs DEF Sound, Bound
<1>3. Numbered(t.ids, t.newest) /\ Path(t.entries, t.ids, t.layers, t.at)
  BY <1>2 DEF Book
<1>4. ToSet(t.layers) = {"detail", "editor"}
  BY Holding
<1>5. Size(t.ids, "detail") > 0 /\ Size(t.ids, "editor") = 1 /\ Size(t.ids, "control") = 0
  BY <1>1, <1>2, <1>3, <1>4, KeysAre DEF Standing, Placed, Numbered
<1>6. /\ u \in Tabs /\ u.entries = t.entries /\ u.at = t.at /\ u.newest = t.newest
      /\ u.going = Append(t.going, Release(Size(t.ids, "editor")))
      /\ u.ids = Shortened(t.ids, "editor", 0) /\ u.retained = [t.entries[t.at] EXCEPT !["editor"] = 0] /\ u.after = "editor"
      /\ (Size(t.ids, "detail") > 0 => u.ignore["detail"] = TRUE)
      /\ SameDialogs(t, u) /\ u.more = t.more /\ u.left = t.left
      /\ ((\A l \in Keys \ {"editor"} : Size(t.ids, l) <= 1) => u.astray = t.astray)
      /\ ((\E l \in Keys \ {"editor"} : Size(t.ids, l) > 1) => u.astray = TRUE)
  <2>1. "editor" \in Nodes \union {"editor"} /\ Size(t.ids, "editor") > 0
    BY <1>5
  <2>2. ReleaseLeaves(t, "editor", "editor", u)
    BY <1>1, <1>2, <2>1, KeysAre, ReleasedIs
  <2> QED
    BY <2>2, KeysAre DEF ReleaseLeaves
<1>7. Within(u) /\ u.hiding = {}
  BY <1>1, <1>6 DEF Within, SameDialogs
<1>8. CASE Size(t.ids, "detail") > 1
  <2>1. u.astray = TRUE
    BY <1>6, <1>8, KeysAre
  <2> QED
    BY <1>7, <2>1, AstrayIsOrderly
<1>9. CASE Size(t.ids, "detail") = 1
  <2>1. t.at = 3
    <3>1. t.at - 1 = Total(t.ids) /\ t.at \in Nat
      BY <1>1, <1>3, WithinIs DEF Path
    <3> QED
      BY <1>5, <1>9, <3>1 DEF Total
  <2>2. u.going = <<Release(1)>>
    <3>1. Release(Size(t.ids, "editor")) = Release(1) /\ 1 \in Int
      BY <1>5
    <3> QED
      BY <1>1, <1>6, <3>1, OneTrip
  <2>3. /\ Numbered(u.ids, u.newest) /\ Size(u.ids, "editor") = 0 /\ Size(u.ids, "detail") = 1 /\ Size(u.ids, "control") = 0
        /\ u.ids["detail"] = t.ids["detail"]
    BY <1>1, <1>3, <1>5, <1>6, <1>9, KeysAre, Dropped
  <2>4. u.entries[1] = Blank
    BY <1>1, <1>3, <1>6, PathStart
  <2>5. u.retained = Only("detail", u.ids["detail"][1])
    <3>1. \A l \in Keys : l # "editor" /\ l # "detail" => Size(t.ids, l) = 0
      BY <1>5, KeysOnly
    <3>2. Without(t.entries[t.at], "editor") = Only("detail", t.ids["detail"][1])
      <4>1. "detail" # "editor"
        OBVIOUS
      <4> QED
        BY <1>1, <1>3, <1>9, <3>1, <4>1, KeysAre, LeftOver
    <3> QED
      BY <1>6, <2>3, <3>2 DEF Without
  <2>6. Len(t.trail) = 1 /\ t.node = Last(t.trail) /\ t.returning \in {NoNode, t.node} /\ t.node # NoNode
    <3>1. t.node # NoNode
      BY <1>2, <1>4 DEF Placed
    <3>2. Size(t.ids, "detail") > 0 /\ t.asked = NoNode
      BY <1>5
    <3>3. /\ Len(t.trail) = Size(t.ids, "detail") /\ (t.node # Last(t.trail) => t.asked # NoNode)
          /\ (t.returning # NoNode => t.returning = t.node)
      BY <1>2, <3>2 DEF Trailed
    <3> QED
      BY <1>9, <3>1, <3>2, <3>3
  <2>7. /\ u.layers = OnEditor /\ u.hiding = {} /\ u.asked = NoNode /\ u.trail = t.trail /\ u.node = t.node
        /\ u.returning = t.returning
    BY <1>6 DEF SameDialogs
  <2>8. ReleasesEditor(u)
    BY <1>6, <1>9, <2>1, <2>2, <2>3, <2>4, <2>5, <2>6, <2>7 DEF ReleasesEditor
  <2> QED
    BY <1>1, <1>6, <1>7, <2>8 DEF Orderly, LeftWell, Underway
<1> QED
  BY <1>1, <1>5, <1>8, <1>9

LEMMA DetailReleased ==
  ASSUME NEW t, Quiet(t), t.layers = OnDetail, t.hiding = {}, NEW n \in Nodes, NEW u, u = Released(t, "detail", n)
  PROVE  Orderly(u)
<1> DEFINE b == Size(t.ids, "detail")
<1>1. /\ t \in Tabs /\ t.ids \in Lists /\ t.entries \in Pages /\ t.newest \in Nat /\ t.at \in 1..Len(t.entries)
      /\ Within(t) /\ b \in Nat /\ Size(t.ids, "control") \in Nat /\ Size(t.ids, "editor") \in Nat
      /\ t.going = <<>> /\ t.more # "waits" /\ t.left = "no" /\ t.astray = FALSE
  BY QuietIs, WithinIs, KeysAre
<1>2. /\ Placed(t.layers, t.ids, t.hiding, t.node, t.asked) /\ Standing(t.layers, t.ids, t.hiding)
      /\ Book(t.entries, t.ids, t.layers, t.at, t.newest)
  BY QuietIs DEF Sound, Bound
<1>3. Numbered(t.ids, t.newest) /\ Path(t.entries, t.ids, t.layers, t.at)
  BY <1>2 DEF Book
<1>4. ToSet(t.layers) = {"detail", "editor"}
  BY Holding
<1>5. b > 0 /\ Size(t.ids, "editor") = 1 /\ Size(t.ids, "control") = 0
  BY <1>1, <1>2, <1>3, <1>4, KeysAre DEF Standing, Placed, Numbered
<1> HIDE DEF b
<1>6. /\ u \in Tabs /\ u.entries = t.entries /\ u.at = t.at /\ u.newest = t.newest
      /\ u.going = Append(t.going, Release(b))
      /\ u.ids = Shortened(t.ids, "detail", 0) /\ u.retained = [t.entries[t.at] EXCEPT !["detail"] = 0] /\ u.after = n
      /\ (Size(t.ids, "editor") > 0 => u.ignore["editor"] = TRUE)
      /\ SameDialogs(t, u) /\ u.more = t.more /\ u.left = t.left
      /\ ((\A l \in Keys \ {"detail"} : Size(t.ids, l) <= 1) => u.astray = t.astray)
  <2>1. n \in Nodes \union {"editor"} /\ Size(t.ids, "detail") > 0
    BY <1>5 DEF b
  <2>2. ReleaseLeaves(t, "detail", n, u)
    BY <1>1, <1>2, <2>1, KeysAre, ReleasedIs
  <2> QED
    BY <2>2, KeysAre DEF ReleaseLeaves, b
<1>7. Within(u) /\ u.hiding = {} /\ u.layers = OnDetail
  BY <1>1, <1>6 DEF Within, SameDialogs
<1>8. t.at = b + 2
  <2>1. t.at - 1 = Total(t.ids) /\ t.at \in Nat
    BY <1>1, <1>3, WithinIs DEF Path
  <2>2. Total(t.ids) = b + 1
    BY <1>1, <1>5 DEF Total, b
  <2> QED
    BY <1>1, <2>1, <2>2
<1>9. u.going = <<Release(b)>>
  <2>1. b \in Int
    BY <1>1
  <2> QED
    BY <1>1, <1>6, <2>1, OneTrip
<1>10. /\ Numbered(u.ids, u.newest) /\ Size(u.ids, "detail") = 0 /\ Size(u.ids, "editor") = 1 /\ Size(u.ids, "control") = 0
       /\ u.ids["editor"] = t.ids["editor"]
  BY <1>1, <1>3, <1>5, <1>6, KeysAre, Dropped
<1>11. u.entries[1] = Blank
  BY <1>1, <1>3, <1>6, PathStart
<1>12. u.retained = Only("editor", u.ids["editor"][1])
  <2>1. \A l \in Keys : l # "detail" /\ l # "editor" => Size(t.ids, l) = 0
    BY <1>5, KeysOnly
  <2>2. Without(t.entries[t.at], "detail") = Only("editor", t.ids["editor"][1])
    <3>1. "detail" # "editor"
      OBVIOUS
    <3> QED
      BY <1>1, <1>3, <1>5, <2>1, <3>1, KeysAre, LeftOver
  <2> QED
    BY <1>6, <1>10, <2>2 DEF Without
<1>13. ReleasesDetail(u)
  <2>1. b \in Nat \ {0}
    BY <1>1, <1>5
  <2> QED
    BY <1>5, <1>6, <1>7, <1>8, <1>9, <1>10, <1>11, <1>12, <2>1 DEF ReleasesDetail
<1>14. u.astray = FALSE /\ u.more # "waits" /\ u.left = "no"
  <2>1. \A l \in Keys \ {"detail"} : Size(t.ids, l) <= 1
    BY <1>5, KeysOnly
  <2> QED
    BY <1>1, <1>6, <2>1
<1> QED
  BY <1>7, <1>13, <1>14 DEF Orderly, LeftWell, Underway

LEMMA EditorOpens ==
  ASSUME NEW t, Quiet(t), Top(t) \in {"page", "detail"}, t.hiding = {}, t.asked = NoNode,
         NEW u, u = IF "editor" \in ToSet(t.layers) THEN Released(t, "editor", "editor") ELSE EditorShown(t)
  PROVE  Orderly(u)
<1>1. t.layers \in {<<>>, Alone, OnEditor}
  BY QuietIs, TopIs
<1>2. CASE t.layers = OnEditor
  <2>1. u = Released(t, "editor", "editor")
    BY <1>2, Holding
  <2> QED
    BY <1>2, <2>1, EditorReleased
<1>3. CASE t.layers # OnEditor
  <2>1. (t.layers = <<>> \/ t.layers = Alone) /\ "editor" \notin ToSet(t.layers)
    BY <1>1, <1>3, Holding
  <2>2. u = Covering(t, "editor")
    BY <2>1 DEF EditorShown, Covering, Restacked
  <2> DEFINE r == IF t.layers = <<>> THEN Editing ELSE OnDetail
  <2>3. r \in Stacks /\ ((t.layers = <<>> /\ r = Editing) \/ (t.layers = Alone /\ r = OnDetail))
    <3>1. t.layers = Alone => t.layers # <<>>
      BY StacksDiffer
    <3>2. Editing \in Stacks /\ OnDetail \in Stacks
      BY DEF Stacks
    <3> QED
      BY <2>1, <3>1, <3>2
  <2> HIDE DEF r
  <2>4. Calm(t) /\ "editor" \in {"control", "editor"}
    BY DEF Quiet
  <2>5. Calm(u) /\ u.going = t.going /\ SameRest(t, u)
    BY <2>2, <2>3, <2>4, CoverShown
  <2> QED
    BY <2>5, QuietGoesOn
<1> QED
  BY <1>2, <1>3

LEMMA ControllableShown ==
  ASSUME NEW t, Quiet(t), Top(t) = "editor", t.hiding = {}, t.asked = NoNode, NEW n \in Nodes,
         NEW u, u = IF t.node # NoNode THEN Released(t, "detail", n) ELSE Shown(t, n)
  PROVE  Orderly(u)
<1>1. t.layers = OnDetail \/ t.layers = Editing
  BY QuietIs, TopIs
<1>2. t.node # NoNode <=> "detail" \in ToSet(t.layers)
  BY QuietIs DEF Placed
<1>3. CASE t.layers = OnDetail
  <2>1. u = Released(t, "detail", n)
    BY <1>2, <1>3, Holding
  <2> QED
    BY <1>3, <2>1, DetailReleased
<1>4. CASE t.layers = Editing
  <2>1. u = Shown(t, n)
    BY <1>2, <1>4, Holding
  <2>2. Calm(u) /\ u.going = t.going /\ SameRest(t, u)
    BY <1>4, <2>1, QuietIs, ShownFirst
  <2> QED
    BY <2>2, QuietGoesOn
<1> QED
  BY <1>1, <1>3, <1>4

\* u is t with the dialog k going, and perhaps its write over.
Fading(t, u, k) ==
    /\ u \in Tabs /\ u.entries = t.entries /\ u.at = t.at /\ u.newest = t.newest /\ u.going = t.going
    /\ u.ids = t.ids /\ u.ignore = t.ignore /\ u.layers = t.layers /\ u.hiding = t.hiding \union {k}
    /\ u.node = t.node /\ u.asked = t.asked /\ u.trail = t.trail /\ u.returning = t.returning
    /\ (u.busy => t.busy) /\ u.left = t.left /\ u.more # "waits"

LEMMA FadesAway ==
  ASSUME NEW t, Quiet(t), NEW k \in {"detail", "editor"}, Top(t) = k, NEW u, Fading(t, u, k)
  PROVE  Orderly(u)
<1>1. /\ t \in Tabs /\ t.layers \in Stacks /\ \A l \in Keys : Size(t.ids, l) \in Nat
      /\ Placed(t.layers, t.ids, t.hiding, t.node, t.asked) /\ Standing(t.layers, t.ids, t.hiding)
  BY QuietIs
<1>2. /\ k = "detail" => t.layers = Alone \/ t.layers = OnEditor
      /\ k = "editor" => t.layers = OnDetail \/ t.layers = Editing
  BY <1>1, TopIs
<1>3. k \in ToSet(t.layers) \ {"control"}
  BY <1>2, Holding
<1>4. k = "detail" => ~Covered(t.layers, t.ids)
  <2>1. k = "detail" => "control" \notin ToSet(t.layers) /\ t.layers # OnDetail
    BY <1>2, Holding, StacksDiffer
  <2> QED
    BY <1>1, <2>1, KeysAre DEF Covered, Placed
<1>5. k = "editor" => t.layers = OnDetail \/ "detail" \notin ToSet(t.layers)
  BY <1>2, Holding
<1>6. Placed(u.layers, u.ids, u.hiding, u.node, u.asked)
  BY <1>1, <1>3, <1>4, <1>5 DEF Placed, Fading
<1>7. Standing(u.layers, u.ids, u.hiding)
  BY <1>1 DEF Standing, Fading
<1>8. Calm(u)
  <2>1. Within(u) /\ Heeds(u)
    <3>1. Within(t) /\ Heeds(t)
      BY QuietIs
    <3> QED
      BY <3>1 DEF Fading, Within, Heeds
  <2>2. Bound(u, u.at)
    BY QuietIs DEF Fading, Sound, Bound
  <2>3. Trailed(u.layers, u.ids, u.trail, u.node, u.asked, u.returning)
    <3>1. Trailed(t.layers, t.ids, t.trail, t.node, t.asked, t.returning)
      BY QuietIs
    <3> QED
      BY <3>1 DEF Fading
  <2>4. Writing(u)
    BY QuietIs DEF Fading, Writing
  <2> QED
    BY <1>6, <1>7, <2>1, <2>2, <2>3, <2>4 DEF Calm, Sound, Shelved
<1> QED
  BY <1>8, QuietIs, CalmIsOrderly DEF Fading

LEMMA DialogHides ==
  ASSUME NEW t, Quiet(t), NEW k \in {"detail", "editor"}, Top(t) = k,
         NEW u, u = [t EXCEPT !.hiding = t.hiding \union {k}]
  PROVE  Orderly(u)
<1>1. t \in Tabs /\ t.more # "waits"
  BY QuietIs
<1>2. Fading(t, u, k)
  BY <1>1, KeysAre DEF Tabs, Fading
<1> QED
  BY <1>2, FadesAway

LEMMA MoreShown ==
  ASSUME NEW t, Quiet(t), Top(t) = "detail", t.hiding = {},
         NEW u, u = [t EXCEPT !.hiding = {"detail"}, !.more = "asked"]
  PROVE  Orderly(u)
<1>1. t \in Tabs
  BY QuietIs
<1>2. Fading(t, u, "detail")
  BY <1>1, KeysAre DEF Tabs, Fading
<1> QED
  BY <1>2, FadesAway

LEMMA SaveEnds ==
  ASSUME NEW t, Quiet(t), t.busy = TRUE, NEW ok \in BOOLEAN,
         NEW u, u = [t EXCEPT !.busy = FALSE, !.hiding = IF ok THEN t.hiding \union {"editor"} ELSE t.hiding,
                              !.astray = t.astray \/ (ok /\ Top(t) # "editor")]
  PROVE  Orderly(u)
<1>1. t \in Tabs /\ t.more # "waits" /\ "editor" \in ToSet(t.layers) /\ t.astray = FALSE /\ Within(t)
      /\ t.hiding \subseteq ToSet(t.layers)
  BY QuietIs DEF Writing, Placed
<1> DEFINE lost == t.astray \/ (ok /\ Top(t) # "editor")
           h == IF ok THEN t.hiding \union {"editor"} ELSE t.hiding
<1>2. lost \in BOOLEAN /\ (lost = FALSE \/ lost = TRUE) /\ (lost <=> ok /\ Top(t) # "editor")
  BY <1>1
<1>3. h \in SUBSET Keys /\ h \subseteq ToSet(t.layers) /\ (ok => h = t.hiding \union {"editor"}) /\ (~ok => h = t.hiding)
  BY <1>1, KeysAre DEF Tabs
<1>4. u = [t EXCEPT !.busy = FALSE, !.hiding = h, !.astray = lost]
  OBVIOUS
<1> HIDE DEF lost, h
<1>5. /\ u \in Tabs /\ u.layers = t.layers /\ u.hiding = h /\ u.astray = lost /\ u.at = t.at /\ u.entries = t.entries
      /\ u.newest = t.newest /\ u.going = t.going /\ u.ids = t.ids /\ u.ignore = t.ignore /\ u.node = t.node
      /\ u.asked = t.asked /\ u.trail = t.trail /\ u.returning = t.returning /\ u.busy = FALSE /\ u.left = t.left
      /\ u.more = t.more
  <2>1. u \in Tabs
    <3>1. lost \in BOOLEAN /\ h \in SUBSET Keys /\ t \in Tabs
      BY <1>1, <1>2, <1>3
    <3> QED
      BY <1>4, <3>1 DEF Tabs
  <2>2. t \in Tabs
    BY <1>1
  <2> QED
    BY <1>4, <2>1, <2>2 DEF Tabs
<1>6. CASE ok /\ Top(t) = "editor"
  <2>1. Fading(t, u, "editor")
    BY <1>1, <1>3, <1>5, <1>6 DEF Fading
  <2> QED
    BY <1>6, <2>1, FadesAway
<1>7. CASE ok /\ Top(t) # "editor"
  BY <1>1, <1>2, <1>3, <1>5, <1>7, AstrayIsOrderly DEF Within
<1>8. CASE ~ok
  <2>1. SameBook(t, u)
    BY <1>3, <1>5, <1>8 DEF SameBook
  <2> QED
    BY <1>1, <1>5, <2>1, QuietIs, QuietKept
<1> QED
  BY <1>6, <1>7, <1>8

LEMMA DeviceGone ==
  ASSUME NEW t, Orderly(t), NEW u, u = [Gone(t, "detail") EXCEPT !.astray = TRUE]
  PROVE  Orderly(u)
<1> DEFINE g == Gone(t, "detail")
<1>1. t \in Tabs /\ t.at \in 1..Len(t.entries) /\ t.hiding \subseteq ToSet(t.layers) /\ t.layers \in Stacks
  BY WithinIs DEF Orderly, Within
<1>2. /\ g \in Tabs /\ g.entries = t.entries /\ g.at = t.at /\ g.hiding = t.hiding \ {"detail", "control"}
      /\ g.layers = IF "editor" \in ToSet(t.layers) THEN Editing ELSE <<>>
  BY <1>1, DetailGone
<1> HIDE DEF g
<1>3. u \in Tabs /\ u.entries = g.entries /\ u.at = g.at /\ u.hiding = g.hiding /\ u.layers = g.layers /\ u.astray = TRUE
  BY <1>2 DEF Tabs, g
<1>4. t.hiding \subseteq Keys
  BY <1>1 DEF Tabs
<1>5. u.hiding \subseteq ToSet(u.layers)
  <2>1. t.hiding \ {"detail", "control"} \subseteq {"editor"}
    BY <1>4, KeysOnly
  <2>2. "editor" \notin ToSet(t.layers) => t.hiding \ {"detail", "control"} = {}
    BY <1>1, <2>1
  <2> QED
    BY <1>2, <1>3, <2>1, <2>2, Holding
<1> QED
  BY <1>1, <1>2, <1>3, <1>5, AstrayIsOrderly DEF Within

----------------------------------------------------------------------------
(* The user's Back and Forward set out.                                       *)
Setting(t, q, lost) == [t EXCEPT !.going = q, !.astray = lost]

LEMMA SettingIs ==
  ASSUME NEW t \in Tabs, NEW q \in Seq(Trips), NEW lost \in BOOLEAN, NEW u, u = Setting(t, q, lost)
  PROVE  /\ u \in Tabs /\ u.entries = t.entries /\ u.at = t.at /\ u.newest = t.newest /\ u.going = q
         /\ u.ids = t.ids /\ u.ignore = t.ignore /\ u.layers = t.layers /\ u.hiding = t.hiding
         /\ u.node = t.node /\ u.asked = t.asked /\ u.trail = t.trail /\ u.returning = t.returning
         /\ u.busy = t.busy /\ u.left = t.left /\ u.more = t.more /\ u.astray = lost
BY DEF Setting, Tabs

LEMMA SetsOutBook ==
  ASSUME NEW t, NEW u, t \in Tabs, t.busy => "editor" \in ToSet(t.layers),
         u.entries = t.entries, u.newest = t.newest, u.ids = t.ids, u.layers = t.layers, u.hiding = t.hiding,
         u.node = t.node, u.asked = t.asked, u.trail = t.trail, u.returning = t.returning, u.busy = t.busy
  PROVE  SameBook(t, u)
BY DEF SameBook

LEMMA UsersTrips ==
  /\ Pressed \in Trips /\ Forward \in Trips
  /\ <<Pressed>> \in Seq(Trips) /\ <<Forward>> \in Seq(Trips)
  /\ <<Pressed, Pressed>> \in Seq(Trips) /\ <<Forward, Pressed>> \in Seq(Trips)
<1>1. 1 \in Int
  OBVIOUS
<1>2. Pressed \in Trips /\ Forward \in Trips
  BY <1>1, TripsAre, Zenon
<1> QED
  BY <1>2

LEMMA BackSetsOut ==
  ASSUME NEW t, Quiet(t), NEW u, u = Setting(t, <<Pressed>>, t.astray)
  PROVE  Orderly(u)
<1>1. t \in Tabs /\ t.astray \in BOOLEAN /\ Writing(t) /\ t.more # "waits" /\ t.left = "no"
  <2>1. t \in Tabs /\ Writing(t) /\ t.more # "waits" /\ t.left = "no"
    BY QuietIs
  <2> QED
    BY <2>1 DEF Tabs
<1>2. /\ u \in Tabs /\ u.entries = t.entries /\ u.at = t.at /\ u.newest = t.newest /\ u.going = <<Pressed>>
      /\ u.ids = t.ids /\ u.ignore = t.ignore /\ u.layers = t.layers /\ u.hiding = t.hiding
      /\ u.node = t.node /\ u.asked = t.asked /\ u.trail = t.trail /\ u.returning = t.returning
      /\ u.busy = t.busy /\ u.left = t.left /\ u.more = t.more
  <2> DEFINE q == <<Pressed>>
  <2>1. q \in Seq(Trips) /\ u = Setting(t, q, t.astray)
    BY UsersTrips
  <2> HIDE DEF q
  <2>2. /\ u \in Tabs /\ u.entries = t.entries /\ u.at = t.at /\ u.newest = t.newest /\ u.going = q
        /\ u.ids = t.ids /\ u.ignore = t.ignore /\ u.layers = t.layers /\ u.hiding = t.hiding
        /\ u.node = t.node /\ u.asked = t.asked /\ u.trail = t.trail /\ u.returning = t.returning
        /\ u.busy = t.busy /\ u.left = t.left /\ u.more = t.more /\ u.astray = t.astray
    BY <1>1, <2>1, SettingIs
  <2> QED
    BY <2>2 DEF q
<1>3. SameBook(t, u)
  BY <1>1, <1>2, SetsOutBook DEF Writing
<1> QED
  BY <1>1, <1>2, <1>3, QuietKept

LEMMA ForwardSetsOut ==
  ASSUME NEW t, Quiet(t), t.at < Len(t.entries),
         NEW lost \in BOOLEAN, lost <=> \E k \in Keys : t.entries[t.at + 1][k] # 0 /\ ~Active(t, k),
         NEW u, u = Setting(t, <<Forward>>, lost)
  PROVE  Orderly(u)
<1>1. t \in Tabs /\ Writing(t) /\ t.more # "waits" /\ t.left = "no" /\ t.ids \in Lists
      /\ Calm(t) /\ t.hiding \subseteq ToSet(t.layers) /\ t.at \in 1..Len(t.entries)
  BY QuietIs, WithinIs DEF Placed
<1>2. /\ u \in Tabs /\ u.entries = t.entries /\ u.at = t.at /\ u.newest = t.newest /\ u.going = <<Forward>>
      /\ u.ids = t.ids /\ u.ignore = t.ignore /\ u.layers = t.layers /\ u.hiding = t.hiding
      /\ u.node = t.node /\ u.asked = t.asked /\ u.trail = t.trail /\ u.returning = t.returning
      /\ u.busy = t.busy /\ u.left = t.left /\ u.more = t.more /\ u.astray = lost
  <2> DEFINE q == <<Forward>>
  <2>1. q \in Seq(Trips) /\ u = Setting(t, q, lost)
    BY UsersTrips
  <2> HIDE DEF q
  <2>2. /\ u \in Tabs /\ u.entries = t.entries /\ u.at = t.at /\ u.newest = t.newest /\ u.going = q
        /\ u.ids = t.ids /\ u.ignore = t.ignore /\ u.layers = t.layers /\ u.hiding = t.hiding
        /\ u.node = t.node /\ u.asked = t.asked /\ u.trail = t.trail /\ u.returning = t.returning
        /\ u.busy = t.busy /\ u.left = t.left /\ u.more = t.more /\ u.astray = lost
    BY <1>1, <2>1, SettingIs
  <2> QED
    BY <2>2 DEF q
<1>3. Within(u) /\ u.hiding \subseteq ToSet(u.layers)
  BY <1>1, <1>2 DEF Within
<1>4. CASE lost = TRUE
  BY <1>2, <1>3, <1>4, AstrayIsOrderly
<1>5. CASE lost = FALSE
  <2>1. SameBook(t, u)
    BY <1>1, <1>2, SetsOutBook DEF Writing
  <2>2. Calm(u)
    BY <1>1, <1>2, <2>1, CalmKept
  <2>3. \A k \in Keys : u.entries[u.at + 1][k] # 0 => Size(u.ids, k) > 0
    <3>1. \A k \in Keys : t.entries[t.at + 1][k] # 0 => Active(t, k)
      BY <1>5
    <3> QED
      BY <1>1, <1>2, <3>1, ActiveIs
  <2>4. Ahead(u)
    BY <1>2, <2>2, <2>3 DEF Ahead
  <2> QED
    BY <1>1, <1>2, <1>3, <2>4 DEF Orderly, LeftWell, Underway
<1> QED
  BY <1>4, <1>5

\* A trip that is not the user's is not waited on by another press.
LEMMA NotTheUsers ==
  ASSUME NEW t, Underway(t), Len(t.going) = 1, Head(t.going).byUser = TRUE
  PROVE  t.more # "waits" /\ Calm(t) /\ (t.going = <<Pressed>> \/ (Ahead(t) /\ t.going = <<Forward>>))
<1>1. 1 \in Int
  OBVIOUS
<1>2. \A n \in Int : Own(n) \in Trips /\ Release(n) \in Trips /\ Own(n).byUser = FALSE /\ Release(n).byUser = FALSE
  BY TripsAre, Zenon
<1>3. Pressed \in Trips /\ Forward \in Trips
  BY UsersTrips
<1>4. \A a, b \in Trips : Len(<<a>>) = 1 /\ Head(<<a>>) = a /\ Len(<<a, b>>) = 2 /\ Len(<<>>) = 0
  BY TripsGo
<1>5. Own(1) \in Trips /\ Release(1) \in Trips /\ Own(1).byUser = FALSE /\ Release(1).byUser = FALSE
  BY <1>1, <1>2
<1>6. t.going # <<Own(1)>> /\ t.going # <<Release(1)>> /\ t.going # <<Pressed, Own(1)>>
      /\ t.going # <<Pressed, Pressed>> /\ t.going # <<Forward, Pressed>> /\ t.going # <<>>
  <2>1. Len(<<Own(1)>>) = 1 /\ Head(<<Own(1)>>) = Own(1) /\ Head(<<Release(1)>>) = Release(1)
    BY <1>4, <1>5
  <2>2. Len(<<Pressed, Own(1)>>) = 2 /\ Len(<<Pressed, Pressed>>) = 2 /\ Len(<<Forward, Pressed>>) = 2 /\ Len(<<>>) = 0
    BY <1>3, <1>4, <1>5
  <2>3. t.going # <<Own(1)>> /\ t.going # <<Release(1)>>
    BY <1>5, <2>1
  <2> QED
    BY <2>2, <2>3
<1>7. ~Doubled(t) /\ ~Owed(t) /\ ~ReleasesEditor(t)
  BY <1>6 DEF Doubled, Owed, ReleasesEditor
<1>8. ~ReleasesDetail(t) /\ ~Stepping(t)
  <2>1. \A b : b \in Nat \ {0} => b \in Int
    OBVIOUS
  <2>2. \A b \in 1..(t.at - 1) : b \in Int
    OBVIOUS
  <2>3. \A b \in Int : t.going # <<Own(b)>> /\ t.going # <<Release(b)>>
    BY <1>2, <1>4
  <2> QED
    BY <2>1, <2>2, <2>3 DEF ReleasesDetail, Stepping
<1>9. (Still(t) \/ Ahead(t)) /\ t.more # "waits"
  BY <1>7, <1>8 DEF Underway
<1> QED
  BY <1>6, <1>9 DEF Still, Ahead

LEMMA BackPressedAgain ==
  ASSUME NEW t, Orderly(t), t.astray = FALSE, t.left = "no", Len(t.going) = 1, Head(t.going).byUser = TRUE,
         NEW u, u = Setting(t, Append(t.going, Pressed), t.astray)
  PROVE  Orderly(u)
<1>1. /\ t.more # "waits" /\ Calm(t) /\ (t.going = <<Pressed>> \/ (Ahead(t) /\ t.going = <<Forward>>))
  BY NotTheUsers DEF Orderly
<1>2. t \in Tabs /\ Writing(t) /\ t.ids \in Lists /\ t.hiding \subseteq ToSet(t.layers) /\ Within(t)
  BY <1>1, WithinIs DEF Calm, Sound, Orderly
<1>3. Append(<<Pressed>>, Pressed) = <<Pressed, Pressed>> /\ Append(<<Forward>>, Pressed) = <<Forward, Pressed>>
  BY UsersTrips, TripsGo
<1> DEFINE q == Append(t.going, Pressed)
<1>4. (t.going = <<Pressed>> /\ q = <<Pressed, Pressed>>) \/ (Ahead(t) /\ q = <<Forward, Pressed>>)
  BY <1>1, <1>3
<1>5. q \in Seq(Trips) /\ t.astray \in BOOLEAN
  BY <1>4, UsersTrips
<1> HIDE DEF q
<1>6. /\ u \in Tabs /\ u.entries = t.entries /\ u.at = t.at /\ u.newest = t.newest /\ u.going = q
      /\ u.ids = t.ids /\ u.ignore = t.ignore /\ u.layers = t.layers /\ u.hiding = t.hiding
      /\ u.node = t.node /\ u.asked = t.asked /\ u.trail = t.trail /\ u.returning = t.returning
      /\ u.busy = t.busy /\ u.left = t.left /\ u.more = t.more /\ u.astray = t.astray
  <2>1. u = Setting(t, q, t.astray)
    BY DEF q
  <2> QED
    BY <1>2, <1>5, <2>1, SettingIs
<1>7. SameBook(t, u)
  BY <1>2, <1>6, SetsOutBook DEF Writing
<1>8. Calm(u)
  BY <1>1, <1>6, <1>7, CalmKept
<1>9. CASE q = <<Pressed, Pressed>>
  BY <1>1, <1>6, <1>8, <1>9, CalmIsOrderly
<1>10. CASE Ahead(t) /\ q = <<Forward, Pressed>>
  <2>1. Ahead(u)
    BY <1>6, <1>8, <1>10 DEF Ahead
  <2> QED
    BY <1>1, <1>2, <1>6, <1>8, <2>1 DEF Orderly, LeftWell, Underway, Calm
<1> QED
  BY <1>4, <1>9, <1>10

----------------------------------------------------------------------------
(* A hide is over: the dialog takes its entries off, and its element goes.    *)
Withdrawn(t, c, k) ==
    /\ c \in Tabs /\ c.entries = t.entries /\ c.at = t.at /\ c.newest = t.newest
    /\ (Size(t.ids, k) = 0 => c.going = <<>>) /\ (Size(t.ids, k) > 0 => c.going = <<Own(Size(t.ids, k))>>)
    /\ c.ids \in Lists /\ c.ids[k] = <<>> /\ (\A l \in Keys : l # k => c.ids[l] = t.ids[l])
    /\ (\A l \in Keys : l # k => c.ignore[l] = t.ignore[l])
    /\ SameDialogs(t, c) /\ SameRest(t, c)
    /\ Book(t.entries, c.ids, t.layers, t.at - Size(t.ids, k), t.newest)

LEMMA Withdraws ==
  ASSUME NEW t, Quiet(t), NEW k \in Keys, Topmost(t.ids, t.layers, k), ~Covered(t.layers, Shortened(t.ids, k, 0)),
         NEW c, c = Closed(t, k)
  PROVE  Withdrawn(t, c, k)
<1> DEFINE n == Size(t.ids, k)
<1>1. /\ t \in Tabs /\ t.ids \in Lists /\ t.entries \in Pages /\ t.newest \in Nat /\ t.at \in Nat /\ n \in Nat
      /\ Within(t) /\ t.going = <<>> /\ Book(t.entries, t.ids, t.layers, t.at, t.newest)
  BY QuietIs, WithinIs DEF Sound, Bound
<1>2. CASE n = 0
  <2>1. c = t
    BY <1>1, <1>2, ClosedIs
  <2>2. t.ids[k] = <<>>
    BY <1>1, <1>2, ActiveIs
  <2>3. t.at - n = t.at
    BY <1>1, <1>2
  <2>4. SameDialogs(t, t) /\ SameRest(t, t)
    BY DEF SameDialogs, SameRest
  <2>5. Book(t.entries, c.ids, t.layers, t.at - n, t.newest)
    BY <1>1, <2>1, <2>3
  <2> QED
    BY <1>1, <1>2, <2>1, <2>2, <2>4, <2>5 DEF Withdrawn
<1>3. CASE n > 0
  <2> DEFINE g == Shortened(t.ids, k, 0)
  <2>1. /\ c \in Tabs /\ c.entries = t.entries /\ c.at = t.at /\ c.newest = t.newest
        /\ c.going = Append(t.going, Own(n)) /\ c.ids = g /\ c.ignore = Marked(t.ignore, k, TRUE)
        /\ SameDialogs(t, c) /\ SameRest(t, c)
    BY <1>1, <1>3, ClosedIs
  <2>2. Numbered(t.ids, t.newest)
    BY <1>1 DEF Book
  <2>3. g \in Lists /\ Size(g, k) = 0 /\ \A l \in Keys : l # k => g[l] = t.ids[l]
    BY <1>1, <2>2, Dropped
  <2>4. g[k] = <<>>
    <3>1. SubSeq(t.ids[k], 1, 0) = <<>> /\ g[k] = SubSeq(t.ids[k], 1, 0)
      BY <1>1 DEF Lists, Shortened
    <3> QED
      BY <3>1
  <2>5. Book(t.entries, g, t.layers, t.at - n, t.newest)
    <3>1. 0 \in 0..Size(t.ids, k) /\ 0 < Size(t.ids, k)
      BY <1>1, <1>3
    <3>2. Book(t.entries, g, t.layers, t.at - (Size(t.ids, k) - 0), t.newest)
      BY <1>1, <3>1, BookShrinks
    <3>3. t.at - (Size(t.ids, k) - 0) = t.at - n
      BY <1>1
    <3> QED
      BY <3>2, <3>3
  <2>6. c.going = <<Own(n)>>
    <3>1. n \in Int
      BY <1>1
    <3> QED
      BY <1>1, <2>1, <3>1, OneTrip
  <2>7. \A l \in Keys : l # k => c.ignore[l] = t.ignore[l]
    BY <2>1, <1>1 DEF Marked, Tabs
  <2>8. ~(n = 0)
    BY <1>3
  <2> HIDE DEF g, n
  <2> QED
    BY <2>1, <2>3, <2>4, <2>5, <2>6, <2>7, <2>8 DEF Withdrawn, n
<1> QED
  BY <1>1, <1>2, <1>3

LEMMA NavigatesAway ==
  ASSUME NEW g, Within(g), Path(g.entries, g.ids, g.layers, g.at), Size(g.ids, "detail") = 0,
         g.hiding \subseteq ToSet(g.layers), g.going \in Seq(Trips), NEW u, u = Navigated(g)
  PROVE  Orderly(u)
<1>1. g \in Tabs /\ g.entries \in Pages /\ g.ids \in Lists /\ g.at \in Nat /\ g.at \in 1..Len(g.entries)
  BY WithinIs
<1> DEFINE d == Append(SubSeq(g.entries, 1, g.at), Blank)
<1>2. g.entries[g.at]["detail"] = 0
  BY <1>1, PathTop, KeysAre
<1>3. Blank \in [Keys -> Nat]
  BY DEF Blank
<1>4. d \in Pages /\ Len(d) = g.at + 1 /\ d[g.at] = g.entries[g.at]
  <2>1. SubSeq(g.entries, 1, g.at) \in Pages /\ Len(SubSeq(g.entries, 1, g.at)) = g.at
        /\ SubSeq(g.entries, 1, g.at)[g.at] = g.entries[g.at]
    BY <1>1 DEF Pages
  <2> QED
    BY <1>1, <1>3, <2>1 DEF Pages
<1>5. u = [g EXCEPT !.entries = d, !.at = g.at + 1, !.left = "more"]
  BY DEF Navigated
<1> HIDE DEF d
<1>6. /\ u \in Tabs /\ u.entries = d /\ u.at = g.at + 1 /\ u.left = "more" /\ u.hiding = g.hiding /\ u.layers = g.layers
  <2>1. g \in Tabs /\ d \in Pages /\ g.at + 1 \in Nat
    BY <1>1, <1>4
  <2> QED
    BY <1>5, <2>1 DEF Tabs
<1>7. Within(u)
  BY <1>1, <1>4, <1>6 DEF Within
<1>8. u.at - 1 = g.at
  BY <1>1, <1>6
<1>9. u.entries[u.at - 1]["detail"] = 0
  BY <1>2, <1>4, <1>6, <1>8
<1> QED
  BY <1>6, <1>7, <1>9 DEF Orderly, LeftWell

LEMMA OffTheHistory ==
  ASSUME NEW t, Quiet(t), "detail" \in t.hiding, NEW c, c = Closed(t, "detail"), NEW g, g = Gone(c, "detail")
  PROVE  /\ Within(g) /\ Sound(g, g.at - Size(t.ids, "detail")) /\ SameRest(t, g) /\ g.going = c.going
         /\ "detail" \notin ToSet(g.layers) /\ Size(g.ids, "detail") = 0 /\ (Size(t.ids, "detail") = 0 => Heeds(g))
         /\ (Size(t.ids, "detail") = 0 => c.going = <<>>)
         /\ (Size(t.ids, "detail") > 0 => c.going = <<Own(Size(t.ids, "detail"))>>)
<1> DEFINE n == Size(t.ids, "detail")
           r == IF "editor" \in ToSet(t.layers) THEN Editing ELSE <<>>
<1>1. /\ t \in Tabs /\ t.ids \in Lists /\ t.entries \in Pages /\ t.newest \in Nat /\ t.layers \in Stacks
      /\ Within(t) /\ t.at \in Nat /\ (\A k \in Keys : Size(t.ids, k) \in Nat) /\ n \in Nat
      /\ Placed(t.layers, t.ids, t.hiding, t.node, t.asked) /\ Standing(t.layers, t.ids, t.hiding) /\ Writing(t) /\ Heeds(t)
  BY QuietIs, WithinIs, KeysAre
<1>2. "detail" \in ToSet(t.layers) /\ ~Covered(t.layers, t.ids)
  BY <1>1 DEF Placed
<1>3. Size(t.ids, "control") = 0
  BY <1>1, <1>2, KeysAre DEF Covered
<1>4. Withdrawn(t, c, "detail")
  <2>1. Topmost(t.ids, t.layers, "detail")
    BY <1>1, <1>2, DetailOnTop
  <2>2. Numbered(t.ids, t.newest)
    BY QuietIs DEF Sound, Bound, Book
  <2>3. \A l \in Keys : l # "detail" => Size(Shortened(t.ids, "detail", 0), l) = Size(t.ids, l)
    BY <1>1, <2>2, Dropped, KeysAre
  <2>4. ~Covered(t.layers, Shortened(t.ids, "detail", 0))
    BY <1>2, <2>3, KeysAre DEF Covered
  <2> QED
    BY <2>1, <2>4, Withdraws, KeysAre
<1>5. /\ c \in Tabs /\ c.entries = t.entries /\ c.at = t.at /\ c.newest = t.newest
      /\ c.ids \in Lists /\ c.ids["detail"] = <<>> /\ c.ids["editor"] = t.ids["editor"] /\ c.ids["control"] = t.ids["control"]
      /\ c.ignore["editor"] = t.ignore["editor"]
      /\ c.layers = t.layers /\ c.hiding = t.hiding /\ c.busy = t.busy /\ SameRest(t, c)
      /\ Book(t.entries, c.ids, t.layers, t.at - n, t.newest)
  BY <1>4, KeysAre DEF Withdrawn, SameDialogs
<1>6. t.ids["control"] = <<>>
  BY <1>1, <1>3, ActiveIs, KeysAre
<1>7. /\ g \in Tabs /\ g.entries = t.entries /\ g.at = t.at /\ g.newest = t.newest /\ g.going = c.going
      /\ g.ids["detail"] = <<>> /\ g.ids["control"] = <<>> /\ g.ids["editor"] = t.ids["editor"]
      /\ g.ignore["editor"] = t.ignore["editor"]
      /\ g.layers = r /\ g.hiding = t.hiding \ {"detail", "control"}
      /\ g.node = NoNode /\ g.trail = <<>> /\ g.asked = NoNode /\ g.returning = NoNode /\ g.busy = t.busy
      /\ SameRest(t, g)
  <2>1. SameRest(c, g) => SameRest(t, g)
    BY <1>5 DEF SameRest
  <2>2. /\ g \in Tabs /\ g.entries = c.entries /\ g.at = c.at /\ g.newest = c.newest /\ g.going = c.going
        /\ g.ids["detail"] = <<>> /\ g.ids["control"] = <<>> /\ g.ids["editor"] = c.ids["editor"]
        /\ g.ignore["editor"] = c.ignore["editor"]
        /\ g.layers = IF "editor" \in ToSet(c.layers) THEN Editing ELSE <<>>
    BY <1>5, DetailGone
  <2>3. /\ g.hiding = c.hiding \ {"detail", "control"}
        /\ g.node = NoNode /\ g.trail = <<>> /\ g.asked = NoNode /\ g.returning = NoNode /\ g.busy = c.busy
        /\ SameRest(c, g)
    BY <1>5, DetailGone
  <2> QED
    BY <1>5, <2>1, <2>2, <2>3
<1>8. g.ids = c.ids /\ Size(g.ids, "detail") = 0 /\ Size(g.ids, "control") = 0 /\ Size(g.ids, "editor") = Size(t.ids, "editor")
  <2>1. g.ids \in Lists
    BY <1>7 DEF Tabs
  <2>2. \A k \in Keys : g.ids[k] = c.ids[k]
    BY <1>5, <1>6, <1>7, KeysOnly
  <2>3. g.ids = c.ids
    BY <1>5, <2>1, <2>2 DEF Lists
  <2> QED
    BY <1>7, <2>3 DEF Size
<1>9. /\ r \in Stacks /\ r # OnDetail /\ "detail" \notin ToSet(r) /\ "control" \notin ToSet(r)
      /\ ("editor" \in ToSet(r) <=> "editor" \in ToSet(t.layers))
  BY Holding, StacksDiffer DEF Stacks
<1> HIDE DEF r, n
<1>10. ~Covered(r, g.ids)
  BY <1>8, <1>9 DEF Covered
<1>11. Book(g.entries, g.ids, g.layers, g.at - n, g.newest)
  <2>1. Book(t.entries, g.ids, r, t.at - n, t.newest)
    <3>1. Book(t.entries, g.ids, t.layers, t.at - n, t.newest) /\ g.ids \in Lists
      BY <1>5, <1>8
    <3> QED
      BY <1>1, <1>8, <1>10, <3>1, BookRestacks
  <2> QED
    BY <1>7, <2>1
<1>12. Placed(g.layers, g.ids, g.hiding, g.node, g.asked)
  <2>1. g.hiding \subseteq ToSet(r) \ {"control"}
    <3>1. \A k \in g.hiding : k \in ToSet(t.layers) /\ k = "editor"
      BY <1>1, <1>7, KeysOnly DEF Placed, Tabs
    <3> QED
      BY <1>9, <3>1
  <2>2. \A k \in Keys : Size(g.ids, k) > 0 => k \in ToSet(r)
    <3>1. Size(t.ids, "editor") > 0 => "editor" \in ToSet(t.layers)
      BY <1>1, KeysAre DEF Placed
    <3>2. \A k \in Keys : Size(g.ids, k) > 0 => k = "editor"
      BY <1>8, KeysOnly
    <3> QED
      BY <1>8, <1>9, <3>1, <3>2
  <2> QED
    BY <1>7, <1>9, <1>10, <2>1, <2>2 DEF Placed
<1>13. Standing(g.layers, g.ids, g.hiding)
  <2>1. \A k \in ToSet(r) : k = "editor"
    BY <1>9, Holds, KeysOnly
  <2>2. "editor" \in ToSet(r) /\ Size(g.ids, "editor") = 0 => "editor" \in g.hiding
    BY <1>1, <1>7, <1>8, <1>9 DEF Standing
  <2> QED
    BY <1>7, <2>1, <2>2 DEF Standing
<1>14. Trailed(g.layers, g.ids, g.trail, g.node, g.asked, g.returning) /\ Writing(g)
  <2>1. ~(Size(g.ids, "detail") > 0)
    BY <1>8
  <2> QED
    BY <1>1, <1>7, <1>9, <2>1 DEF Trailed, Writing
<1>15. Within(g)
  BY <1>1, <1>7 DEF Within
<1>16. Sound(g, g.at - n)
  BY <1>11, <1>12, <1>13, <1>14 DEF Sound, Bound, Shelved
<1>17. n = 0 => Heeds(g)
  <2>1. \A k \in Keys : Size(g.ids, k) > 0 => k = "editor"
    BY <1>8, KeysOnly
  <2> QED
    BY <1>1, <1>7, <1>8, <2>1, KeysAre DEF Heeds
<1>18. (n = 0 => c.going = <<>>) /\ (n > 0 => c.going = <<Own(n)>>)
  BY <1>4 DEF Withdrawn, n
<1> QED
  BY <1>7, <1>8, <1>9, <1>15, <1>16, <1>17, <1>18 DEF n

LEMMA DetailHidden ==
  ASSUME NEW t, Quiet(t), "detail" \in t.hiding, NEW c, c = Closed(t, "detail"), NEW g, g = Gone(c, "detail"),
         NEW u, u = IF t.more = "asked" THEN IF c.going # <<>> THEN [g EXCEPT !.more = "waits"] ELSE Navigated(g) ELSE g
  PROVE  Orderly(u)
<1> DEFINE n == Size(t.ids, "detail")
<1>1. /\ t \in Tabs /\ t.more # "waits" /\ t.left = "no" /\ n \in Nat
  BY QuietIs, KeysAre
<1>2. /\ Within(g) /\ Sound(g, g.at - n) /\ SameRest(t, g) /\ g.going = c.going
      /\ "detail" \notin ToSet(g.layers) /\ Size(g.ids, "detail") = 0 /\ (n = 0 => Heeds(g))
      /\ (n = 0 => c.going = <<>>) /\ (n > 0 => c.going = <<Own(n)>>)
  BY OffTheHistory
<1> HIDE DEF n
<1>3. g \in Tabs /\ g.at \in Nat /\ g.left = "no" /\ g.more = t.more
  BY <1>1, <1>2, WithinIs DEF SameRest
<1>4. CASE n = 0
  <2>1. g.at - n = g.at
    BY <1>3, <1>4
  <2>2. Calm(g) /\ g.going = <<>>
    BY <1>2, <1>4, <2>1 DEF Calm
  <2>3. u = IF t.more = "asked" THEN Navigated(g) ELSE g
    BY <1>2, <2>2
  <2>4. CASE t.more = "asked"
    <3>1. u = Navigated(g)
      BY <2>3, <2>4
    <3>2. Path(g.entries, g.ids, g.layers, g.at) /\ g.hiding \subseteq ToSet(g.layers)
      BY <1>2, <2>1 DEF Sound, Bound, Book, Shelved, Placed
    <3>3. g.going \in Seq(Trips)
      BY <1>3 DEF Tabs
    <3> QED
      BY <1>2, <3>1, <3>2, <3>3, NavigatesAway
  <2>5. CASE t.more # "asked"
    BY <1>1, <1>3, <2>2, <2>3, <2>5, CalmIsOrderly
  <2> QED
    BY <2>4, <2>5
<1>5. CASE n > 0
  <2>1. n \in Nat \ {0} /\ n \in Int
    BY <1>1, <1>5
  <2>2. c.going = <<Own(n)>> /\ c.going # <<>>
    <3>1. Own(n) \in Trips
      BY <2>1, TripsAre, Zenon
    <3> QED
      BY <1>2, <1>5, <3>1, TripsGo
  <2>3. CASE t.more = "asked"
    <3>1. u = [g EXCEPT !.more = "waits"]
      BY <2>2, <2>3
    <3>2. /\ u \in Tabs /\ u.entries = g.entries /\ u.newest = g.newest /\ u.ids = g.ids /\ u.at = g.at
          /\ u.layers = g.layers /\ u.hiding = g.hiding /\ u.node = g.node /\ u.trail = g.trail
          /\ u.asked = g.asked /\ u.returning = g.returning /\ u.busy = g.busy /\ u.left = g.left /\ u.going = g.going
      <4>1. "waits" \in {"no", "asked", "waits"}
        OBVIOUS
      <4> QED
        BY <1>3, <3>1, <4>1 DEF Tabs
    <3>3. Writing(g)
      BY <1>2 DEF Sound
    <3>4. SameBook(g, u)
      BY <3>2, <3>3 DEF SameBook, Writing
    <3>5. Sound(u, u.at - n)
      BY <1>2, <3>2, <3>4, SoundKept
    <3>6. Within(u)
      BY <1>2, <3>2 DEF Within
    <3> QED
      BY <1>2, <1>3, <2>1, <2>2, <3>2, <3>5, <3>6, StepsOut
  <2>4. CASE t.more # "asked"
    <3>1. u = g
      BY <2>4
    <3> QED
      BY <1>1, <1>2, <1>3, <2>1, <2>2, <3>1, StepsOut
  <2> QED
    BY <2>3, <2>4
<1> QED
  BY <1>1, <1>4, <1>5

LEMMA EditorHidden ==
  ASSUME NEW t, Quiet(t), "editor" \in t.hiding, NEW c, c = Closed(t, "editor"), NEW g, g = Gone(c, "editor")
  PROVE  Orderly(g)
<1> DEFINE n == Size(t.ids, "editor")
           r == IF t.layers = Editing THEN <<>> ELSE IF t.layers \in {OnDetail, OnEditor} THEN Alone
                ELSE IF t.layers = Full THEN WithControl ELSE t.layers
<1>1. /\ t \in Tabs /\ t.ids \in Lists /\ t.entries \in Pages /\ t.newest \in Nat /\ t.layers \in Stacks
      /\ Within(t) /\ t.at \in Nat /\ (\A k \in Keys : Size(t.ids, k) \in Nat) /\ n \in Nat
      /\ Placed(t.layers, t.ids, t.hiding, t.node, t.asked) /\ Standing(t.layers, t.ids, t.hiding) /\ Heeds(t)
      /\ Trailed(t.layers, t.ids, t.trail, t.node, t.asked, t.returning) /\ t.more # "waits" /\ t.left = "no"
  BY QuietIs, WithinIs, KeysAre
<1>2. t.layers \in {OnDetail, Editing, OnEditor, Full}
  BY <1>1, Holds DEF Placed
<1>3. /\ t.layers = Editing => Size(t.ids, "detail") = 0 /\ Size(t.ids, "control") = 0
      /\ t.layers = OnDetail => Size(t.ids, "control") = 0
      /\ t.layers \in {OnEditor, Full} => n = 0
  <2>1. t.layers = Editing => "detail" \notin ToSet(t.layers) /\ "control" \notin ToSet(t.layers)
    BY Holding
  <2>2. t.layers = OnDetail => "control" \notin ToSet(t.layers)
    BY Holding
  <2>3. t.layers \in {OnEditor, Full} => "detail" \in ToSet(t.layers) /\ t.layers # OnDetail
    BY Holding, StacksDiffer
  <2>4. \A k \in Keys : k \notin ToSet(t.layers) => Size(t.ids, k) = 0
    BY <1>1 DEF Placed
  <2>5. "detail" \in ToSet(t.layers) /\ t.layers # OnDetail => n = 0
    BY <1>1 DEF Placed
  <2> HIDE DEF n
  <2> QED
    BY <2>1, <2>2, <2>3, <2>4, <2>5, KeysAre
<1>4. /\ r \in Stacks /\ r # OnDetail /\ ToSet(r) = ToSet(t.layers) \ {"editor"}
  <2>1. <<>> \in Stacks /\ Alone \in Stacks /\ WithControl \in Stacks
    BY DEF Stacks
  <2>2. /\ t.layers = Editing => r = <<>>
        /\ t.layers \in {OnDetail, OnEditor} => r = Alone
        /\ t.layers = Full => r = WithControl
    BY StacksDiffer
  <2> HIDE DEF r, n
  <2>3. r \in {<<>>, Alone, WithControl}
    BY <1>2, <2>2
  <2>4. r # OnDetail
    BY <2>3, StacksDiffer
  <2>5. ToSet(r) = ToSet(t.layers) \ {"editor"}
    BY <1>2, <2>2, Holding
  <2> QED
    BY <2>1, <2>3, <2>4, <2>5
<1> HIDE DEF r
<1>5. /\ c \in Tabs /\ c.entries = t.entries /\ c.at = t.at /\ c.newest = t.newest
      /\ (n = 0 => c.going = <<>>) /\ (n > 0 => c.going = <<Own(n)>>)
      /\ c.ids \in Lists /\ c.ids["editor"] = <<>> /\ c.ids["detail"] = t.ids["detail"] /\ c.ids["control"] = t.ids["control"]
      /\ c.ignore["detail"] = t.ignore["detail"] /\ c.ignore["control"] = t.ignore["control"]
      /\ SameDialogs(t, c) /\ SameRest(t, c)
      /\ Book(t.entries, c.ids, t.layers, t.at - n, t.newest)
  <2>1. CASE n = 0
    <3>1. Book(t.entries, t.ids, t.layers, t.at, t.newest)
      BY QuietIs DEF Sound, Bound
    <3>2. c = t /\ t.going = <<>>
      BY <1>1, <2>1, <3>1, KeysAre, ClosedIs, QuietIs
    <3>3. t.ids["editor"] = <<>>
      BY <1>1, <2>1, ActiveIs, KeysAre
    <3>4. t.at - n = t.at
      BY <1>1, <2>1
    <3>5. SameDialogs(t, t) /\ SameRest(t, t)
      BY DEF SameDialogs, SameRest
    <3>6. ~(n > 0)
      BY <2>1
    <3> HIDE DEF n
    <3> QED
      BY <1>1, <2>1, <3>1, <3>2, <3>3, <3>4, <3>5, <3>6
  <2>2. CASE n > 0
    <3>1. Size(t.ids, "control") = 0 /\ (t.layers = OnDetail \/ Size(t.ids, "detail") = 0)
      <4>1. ~(n = 0)
        BY <2>2
      <4> HIDE DEF n
      <4> QED
        BY <1>2, <1>3, <4>1
    <3>2. Topmost(t.ids, t.layers, "editor")
      BY <1>1, <3>1, EditorOnTop
    <3>3. ~Covered(t.layers, Shortened(t.ids, "editor", 0))
      <4>1. Numbered(t.ids, t.newest)
        BY QuietIs DEF Sound, Bound, Book
      <4> DEFINE h == Shortened(t.ids, "editor", 0)
      <4>2. Size(h, "editor") = 0 /\ \A l \in Keys : l # "editor" => Size(h, l) = Size(t.ids, l)
        BY <1>1, <4>1, Dropped, KeysAre
      <4> HIDE DEF h
      <4>3. ~Covered(t.layers, h)
        BY <3>1, <4>2, KeysAre DEF Covered
      <4> QED
        BY <4>3 DEF h
    <3>4. Withdrawn(t, c, "editor")
      BY <3>2, <3>3, Withdraws, KeysAre
    <3> QED
      BY <3>4, KeysAre DEF Withdrawn
  <2> QED
    BY <1>1, <2>1, <2>2
<1> HIDE DEF n
<1>6. /\ g \in Tabs /\ g.entries = t.entries /\ g.at = t.at /\ g.newest = t.newest /\ g.going = c.going
      /\ g.ids["editor"] = <<>> /\ g.ids["detail"] = t.ids["detail"] /\ g.ids["control"] = t.ids["control"]
      /\ g.ignore["detail"] = t.ignore["detail"] /\ g.ignore["control"] = t.ignore["control"]
      /\ g.layers = r /\ g.hiding = t.hiding \ {"editor"}
      /\ g.node = t.node /\ g.trail = t.trail /\ g.asked = t.asked /\ g.returning = t.returning /\ g.busy = FALSE
      /\ g.left = t.left /\ g.more = t.more
  <2>1. /\ c.layers = t.layers /\ c.hiding = t.hiding /\ c.node = t.node /\ c.trail = t.trail /\ c.asked = t.asked
        /\ c.returning = t.returning /\ c.left = t.left /\ c.more = t.more
    BY <1>5 DEF SameDialogs, SameRest
  <2>2. /\ g \in Tabs /\ g.entries = c.entries /\ g.at = c.at /\ g.newest = c.newest /\ g.going = c.going
        /\ g.ids["editor"] = <<>> /\ g.ids["control"] = c.ids["control"] /\ g.ids["detail"] = c.ids["detail"]
        /\ g.ignore["detail"] = c.ignore["detail"] /\ g.ignore["control"] = c.ignore["control"]
    BY <1>5, EditorGone
  <2>3. g.layers = IF c.layers = Editing THEN <<>> ELSE IF c.layers \in {OnDetail, OnEditor} THEN Alone
                   ELSE IF c.layers = Full THEN WithControl ELSE c.layers
    BY <1>5, EditorGone
  <2>4. /\ g.hiding = c.hiding \ {"editor"}
        /\ g.node = c.node /\ g.trail = c.trail /\ g.asked = c.asked /\ g.returning = c.returning /\ g.busy = FALSE
        /\ SameRest(c, g)
    BY <1>5, EditorGone
  <2>5. g.layers = r
    BY <2>1, <2>3 DEF r
  <2> QED
    BY <1>5, <2>1, <2>2, <2>4, <2>5 DEF SameRest
<1>7. g.ids = c.ids /\ Size(g.ids, "editor") = 0 /\ \A k \in Keys : k # "editor" => Size(g.ids, k) = Size(t.ids, k)
  <2>1. g.ids \in Lists
    BY <1>6 DEF Tabs
  <2>2. \A k \in Keys : g.ids[k] = c.ids[k]
    BY <1>5, <1>6, KeysOnly
  <2>3. g.ids = c.ids
    BY <1>5, <2>1, <2>2 DEF Lists
  <2>4. \A k \in Keys : k # "editor" => g.ids[k] = t.ids[k]
    BY <1>6, KeysOnly
  <2> QED
    BY <1>6, <2>3, <2>4 DEF Size
<1>8. Covered(r, g.ids) => Covered(t.layers, t.ids)
  BY <1>4, <1>7, KeysAre DEF Covered
<1>9. Book(g.entries, g.ids, g.layers, g.at - n, g.newest)
  <2>1. Covered(r, g.ids) => Covered(t.layers, g.ids)
    BY <1>4 DEF Covered
  <2>2. Book(t.entries, g.ids, t.layers, t.at - n, t.newest) /\ g.ids \in Lists
    BY <1>5, <1>7
  <2>3. Book(t.entries, g.ids, r, t.at - n, t.newest)
    BY <1>1, <1>7, <2>1, <2>2, BookRestacks
  <2> QED
    BY <1>6, <2>3
<1>10. Placed(g.layers, g.ids, g.hiding, g.node, g.asked)
  <2>1. g.hiding \subseteq ToSet(r) \ {"control"}
    BY <1>1, <1>4, <1>6 DEF Placed
  <2>2. \A k \in Keys : Size(g.ids, k) > 0 => k \in ToSet(r)
    <3>1. ~(Size(g.ids, "editor") > 0)
      BY <1>7
    <3> QED
      BY <1>1, <1>4, <1>7, <3>1 DEF Placed
  <2>3. Covered(r, g.ids) => Size(g.ids, "detail") > 0 /\ "detail" \notin g.hiding
    BY <1>1, <1>6, <1>7, <1>8, KeysAre DEF Placed
  <2>4. "detail" \in ToSet(r) <=> "detail" \in ToSet(t.layers)
    BY <1>4
  <2>5. "editor" \notin g.hiding
    BY <1>6
  <2> QED
    BY <1>1, <1>6, <2>1, <2>2, <2>3, <2>4, <2>5 DEF Placed
<1>11. Standing(g.layers, g.ids, g.hiding)
  <2>1. ASSUME NEW k \in ToSet(r), Size(g.ids, k) = 0 PROVE k \in g.hiding
    <3>1. k \in Keys /\ k # "editor" /\ k \in ToSet(t.layers)
      BY <1>1, <1>4, <2>1, Holds
    <3>2. Size(t.ids, k) = 0
      BY <1>7, <2>1, <3>1
    <3> QED
      BY <1>1, <1>6, <3>1, <3>2 DEF Standing
  <2> QED
    BY <1>6, <2>1 DEF Standing
<1>12. Trailed(g.layers, g.ids, g.trail, g.node, g.asked, g.returning)
  <2>1. Size(g.ids, "detail") = Size(t.ids, "detail")
    BY <1>7, KeysAre
  <2> QED
    BY <1>1, <1>6, <1>8, <2>1 DEF Trailed
<1>13. Within(g) /\ Sound(g, g.at - n)
  <2>1. Writing(g)
    BY <1>6 DEF Writing
  <2> QED
    BY <1>1, <1>6, <1>9, <1>10, <1>11, <1>12, <2>1 DEF Within, Sound, Bound, Shelved
<1>14. CASE n = 0
  <2>1. Heeds(g)
    <3>1. \A k \in Keys : Size(g.ids, k) > 0 => Size(t.ids, k) > 0 /\ k # "editor"
      BY <1>7
    <3> QED
      BY <1>1, <1>6, <3>1, KeysOnly DEF Heeds
  <2>2. g.at - n = g.at
    BY <1>1, <1>6, <1>14
  <2>3. Calm(g)
    BY <1>13, <2>1, <2>2 DEF Calm
  <2> QED
    BY <1>1, <1>5, <1>6, <1>14, <2>3, CalmIsOrderly
<1>15. CASE n > 0
  <2>1. n \in Nat \ {0}
    BY <1>1, <1>15
  <2> QED
    BY <1>1, <1>5, <1>6, <1>13, <1>15, <2>1, StepsOut
<1> QED
  BY <1>1, <1>14, <1>15

----------------------------------------------------------------------------
(* A traversal lands: what each mode makes of it.                             *)
SetDown(t, q, p) == [t EXCEPT !.going = q, !.at = p]
LeftBack(t) == [t EXCEPT !.left = "back"]
LandsAs(v, agrees, release) ==
    IF release THEN Continued(PopState(v, agrees))
    ELSE IF PopState(v, agrees).more = "waits" THEN Navigated(PopState(v, agrees)) ELSE PopState(v, agrees)
TakesOne(t, u) == \E d : StandingDialogs(t) \ StandingDialogs(u) \subseteq {d}
LandsWell(t, go, q) ==
    /\ t.at + go.by < 1 => go.byUser = TRUE /\ Orderly(LeftBack(t))
    /\ t.at + go.by >= 1 =>
          /\ t.at + go.by <= Len(t.entries)
          /\ \A agrees \in BOOLEAN :
                /\ Orderly(LandsAs(SetDown(t, q, t.at + go.by), agrees, go.release))
                /\ go.byUser = TRUE => TakesOne(t, LandsAs(SetDown(t, q, t.at + go.by), agrees, go.release))

LEMMA SetDownIs ==
  ASSUME NEW t \in Tabs, NEW q \in Seq(Trips), NEW p \in 1..Len(t.entries), NEW v, v = SetDown(t, q, p)
  PROVE  /\ v \in Tabs /\ Within(v) /\ v.entries = t.entries /\ v.at = p /\ v.newest = t.newest /\ v.going = q
         /\ v.ids = t.ids /\ v.ignore = t.ignore /\ v.layers = t.layers /\ v.hiding = t.hiding
         /\ v.node = t.node /\ v.asked = t.asked /\ v.trail = t.trail /\ v.returning = t.returning
         /\ v.busy = t.busy /\ v.settings = t.settings /\ SameRest(t, v) /\ SameDialogs(t, v)
<1>1. p \in Nat
  BY DEF Tabs, Pages
<1>2. v \in Tabs
  BY <1>1 DEF SetDown, Tabs
<1>3. /\ v.entries = t.entries /\ v.at = p /\ v.newest = t.newest /\ v.going = q
      /\ v.ids = t.ids /\ v.ignore = t.ignore /\ v.layers = t.layers /\ v.hiding = t.hiding
      /\ v.node = t.node /\ v.asked = t.asked /\ v.trail = t.trail /\ v.returning = t.returning
      /\ v.busy = t.busy /\ v.settings = t.settings /\ SameRest(t, v)
  BY DEF SetDown, Tabs, SameRest
<1> QED
  BY <1>2, <1>3 DEF Within, SameDialogs

LEMMA SetDownSound ==
  ASSUME NEW t, t \in Tabs, NEW q \in Seq(Trips), NEW p \in 1..Len(t.entries), NEW v, v = SetDown(t, q, p),
         NEW n, Sound(t, n)
  PROVE  Sound(v, n) /\ (Heeds(t) => Heeds(v))
<1>1. /\ v.entries = t.entries /\ v.newest = t.newest
      /\ v.ids = t.ids /\ v.ignore = t.ignore /\ v.layers = t.layers /\ v.hiding = t.hiding
      /\ v.node = t.node /\ v.asked = t.asked /\ v.trail = t.trail /\ v.returning = t.returning
      /\ v.busy = t.busy
  BY SetDownIs
<1>2. t.busy => "editor" \in ToSet(t.layers)
  BY DEF Sound, Writing
<1>3. SameBook(t, v)
  BY <1>1, <1>2 DEF SameBook
<1> QED
  BY <1>1, <1>3, SoundKept DEF Heeds

\* What a control's own step leaves on its way.
LEMMA DelayedIsOrderly ==
  ASSUME NEW w, Within(w), Sound(w, w.at - 1), NEW q, q = <<>> \/ q = <<Pressed>>, w.going = Append(q, Own(1)),
         Size(w.ids, "detail") > 0, ~Covered(w.layers, w.ids), w.more # "waits", w.left = "no"
  PROVE  Orderly(w)
<1>1. 1 \in Int /\ 1 \in Nat \ {0}
  OBVIOUS
<1>2. Own(1) \in Trips /\ Pressed \in Trips
  BY <1>1, TripsAre, Zenon
<1>3. CASE q = <<>>
  <2>1. w.going = <<Own(1)>>
    BY <1>2, <1>3, TripsGo
  <2> QED
    BY <1>1, <2>1, StepsOut
<1>4. CASE q = <<Pressed>>
  <2>1. w.going = <<Pressed, Own(1)>>
    BY <1>2, <1>4, TripsGo
  <2>2. Doubled(w)
    BY <2>1 DEF Doubled, DetailInFront
  <2>3. w.hiding \subseteq ToSet(w.layers)
    BY DEF Sound, Shelved, Placed
  <2> QED
    BY <2>2, <2>3 DEF Orderly, LeftWell, Underway
<1> QED
  BY <1>3, <1>4

LEMMA StandingKept ==
  ASSUME NEW t, NEW u, u.layers = t.layers, u.hiding = t.hiding, u.settings = t.settings
  PROVE  TakesOne(t, u)
BY StandingSame DEF TakesOne

LEMMA BackIsAnswered ==
  ASSUME NEW t, Calm(t), t.more # "waits", t.left = "no", t.at > 1, NEW q, q = <<>> \/ q = <<Pressed>>,
         NEW agrees \in BOOLEAN, NEW v, v = SetDown(t, q, t.at - 1)
  PROVE  Orderly(LandsAs(v, agrees, FALSE)) /\ TakesOne(t, LandsAs(v, agrees, FALSE))
<1> DEFINE w == PopState(v, agrees)
<1>1. t \in Tabs /\ t.at \in 1..Len(t.entries) /\ t.at \in Nat /\ t.at - 1 \in 1..Len(t.entries) /\ q \in Seq(Trips)
      /\ Sound(t, t.at) /\ Heeds(t)
  <2>1. Within(t) /\ Sound(t, t.at) /\ Heeds(t)
    BY DEF Calm
  <2>2. t \in Tabs /\ t.at \in 1..Len(t.entries) /\ t.at \in Nat /\ t.entries \in Pages
    BY <2>1, WithinIs
  <2>3. t.at - 1 \in 1..Len(t.entries)
    BY <2>2
  <2>4. q \in Seq(Trips)
    <3>1. <<>> \in Seq(Trips)
      OBVIOUS
    <3> QED
      BY <3>1, UsersTrips
  <2> QED
    BY <2>1, <2>2, <2>3, <2>4
<1>2. /\ Within(v) /\ v.at = t.at - 1 /\ v.going = q /\ v.layers = t.layers /\ v.hiding = t.hiding
      /\ v.settings = t.settings /\ SameRest(t, v)
  BY <1>1, SetDownIs
<1>3. Sound(v, v.at + 1) /\ Heeds(v)
  <2>1. v.at + 1 = t.at
    BY <1>1, <1>2
  <2> QED
    BY <1>1, <2>1, SetDownSound
<1>4. Answered(v, w)
  BY <1>2, <1>3, BackLands
<1> HIDE DEF w
<1>5. w.more # "waits" /\ w.left = "no"
  BY <1>2, <1>4 DEF Answered, SameRest
<1>6. Orderly(w)
  <2>1. CASE Calm(w) /\ w.going = v.going
    BY <1>2, <1>5, <2>1, CalmIsOrderly
  <2>2. CASE /\ Within(w) /\ Sound(w, w.at - 1) /\ w.going = Append(v.going, Own(1))
             /\ Size(w.ids, "detail") > 0 /\ ~Covered(w.layers, w.ids)
    BY <1>2, <1>5, <2>2, DelayedIsOrderly
  <2> QED
    BY <1>4, <2>1, <2>2 DEF Answered
<1>7. TakesOne(t, w)
  <2>1. StandingDialogs(t) = StandingDialogs(v)
    BY <1>2 DEF StandingDialogs
  <2> QED
    BY <1>4, <2>1 DEF Answered, TakesOne
<1>8. LandsAs(v, agrees, FALSE) = w
  BY <1>5 DEF LandsAs, w
<1> QED
  BY <1>6, <1>7, <1>8

LEMMA NothingOpen ==
  ASSUME NEW t, Calm(t), t.at = 1
  PROVE  ToSet(t.layers) \subseteq t.hiding
<1>1. t.ids \in Lists /\ t.layers \in Stacks /\ Path(t.entries, t.ids, t.layers, t.at) /\ Standing(t.layers, t.ids, t.hiding)
  BY WithinIs DEF Calm, Sound, Bound, Book, Shelved
<1>2. Total(t.ids) = 0
  BY <1>1, LengthsAre DEF Path
<1>3. \A k \in Keys : Size(t.ids, k) = 0
  BY <1>1, <1>2, LengthsAre, KeysOnly DEF Total
<1> QED
  BY <1>1, <1>3, Holds DEF Standing

LEMMA StillLands ==
  ASSUME NEW t, Still(t), t.more # "waits", t.left = "no", t.astray = FALSE, t.going # <<>>
  PROVE  LandsWell(t, Head(t.going), Tail(t.going))
<1>1. /\ Pressed \in Trips /\ Pressed.by = -1 /\ Pressed.release = FALSE /\ Pressed.byUser = TRUE
  <2>1. 1 \in Int
    OBVIOUS
  <2> QED
    BY <2>1, TripsAre, Zenon
<1>2. /\ Head(t.going) = Pressed /\ (Tail(t.going) = <<>> \/ Tail(t.going) = <<Pressed>>)
  <2>1. t.going = <<Pressed>> \/ t.going = <<Pressed, Pressed>>
    BY DEF Still
  <2> QED
    BY <1>1, <2>1, TripsGo
<1> DEFINE q == Tail(t.going)
<1>3. Calm(t) /\ t.at \in Nat /\ t.at \in 1..Len(t.entries) /\ Within(t) /\ t \in Tabs
  BY WithinIs DEF Still, Calm
<1> HIDE DEF q
<1>4. q = <<>> \/ q = <<Pressed>>
  BY <1>2 DEF q
<1>5. CASE t.at = 1
  <2>1. t.at + Pressed.by < 1
    BY <1>1, <1>5
  <2>2. Orderly(LeftBack(t))
    <3> DEFINE u == LeftBack(t)
    <3>1. u \in Tabs /\ u.at = t.at /\ u.entries = t.entries /\ u.left = "back" /\ u.layers = t.layers /\ u.hiding = t.hiding
      BY <1>3 DEF LeftBack, Tabs
    <3> HIDE DEF u
    <3>2. ToSet(t.layers) \subseteq t.hiding
      BY <1>3, <1>5, NothingOpen
    <3>3. t.hiding \subseteq ToSet(t.layers)
      BY <1>3 DEF Calm, Sound, Shelved, Placed
    <3>4. Orderly(u)
      BY <1>3, <3>1, <3>2, <3>3 DEF Orderly, LeftWell, Within
    <3> QED
      BY <3>4 DEF u
  <2>3. ~(t.at + Pressed.by >= 1)
    BY <1>1, <1>5
  <2> QED
    BY <1>1, <1>2, <2>1, <2>2, <2>3 DEF LandsWell
<1>6. CASE t.at > 1
  <2>1. t.at + Pressed.by = t.at - 1 /\ ~(t.at - 1 < 1) /\ t.at - 1 <= Len(t.entries)
    BY <1>1, <1>3, <1>6
  <2>2. \A agrees \in BOOLEAN : /\ Orderly(LandsAs(SetDown(t, q, t.at - 1), agrees, FALSE))
                                /\ TakesOne(t, LandsAs(SetDown(t, q, t.at - 1), agrees, FALSE))
    BY <1>3, <1>4, <1>6, BackIsAnswered
  <2>3. LandsWell(t, Pressed, q)
    BY <1>1, <2>1, <2>2 DEF LandsWell
  <2> QED
    BY <1>2, <2>3 DEF q
<1> QED
  BY <1>3, <1>5, <1>6

LEMMA AheadLands ==
  ASSUME NEW t, Ahead(t), t.more # "waits", t.left = "no", t.astray = FALSE
  PROVE  LandsWell(t, Head(t.going), Tail(t.going))
<1>1. /\ Forward \in Trips /\ Forward.by = 1 /\ Forward.release = FALSE /\ Forward.byUser = TRUE /\ Pressed \in Trips
  <2>1. 1 \in Int
    OBVIOUS
  <2> QED
    BY <2>1, TripsAre, Zenon
<1>2. /\ Head(t.going) = Forward /\ (Tail(t.going) = <<>> \/ Tail(t.going) = <<Pressed>>)
  <2>1. t.going = <<Forward>> \/ t.going = <<Forward, Pressed>>
    BY DEF Ahead
  <2>2. Head(<<Forward>>) = Forward /\ Tail(<<Forward>>) = <<>>
    BY <1>1, TripsGo
  <2>3. Head(<<Forward, Pressed>>) = Forward /\ Tail(<<Forward, Pressed>>) = <<Pressed>>
    BY <1>1, TripsGo
  <2> QED
    BY <2>1, <2>2, <2>3
<1> DEFINE q == Tail(t.going)
<1>3. /\ t.at \in Nat /\ t.at \in 1..Len(t.entries) /\ Within(t) /\ t \in Tabs /\ t.entries \in Pages
      /\ t.at < Len(t.entries) /\ Sound(t, t.at) /\ Heeds(t)
      /\ \A k \in Keys : t.entries[t.at + 1][k] # 0 => Size(t.ids, k) > 0
  <2>1. /\ Within(t) /\ t.at < Len(t.entries) /\ Sound(t, t.at) /\ Heeds(t)
        /\ \A k \in Keys : t.entries[t.at + 1][k] # 0 => Size(t.ids, k) > 0
    BY DEF Ahead, Calm
  <2> QED
    BY <2>1, WithinIs
<1> HIDE DEF q
<1>4. (q = <<>> \/ q = <<Pressed>>) /\ q \in Seq(Trips)
  <2>1. <<>> \in Seq(Trips)
    OBVIOUS
  <2> QED
    BY <1>2, <2>1, UsersTrips DEF q
<1>5. Len(t.entries) \in Nat
  BY <1>3 DEF Pages
<1>6. t.at + 1 \in 1..Len(t.entries) /\ ~(t.at + 1 < 1) /\ t.at + 1 <= Len(t.entries)
  BY <1>3, <1>5
<1>7. ASSUME NEW agrees \in BOOLEAN
      PROVE  /\ Orderly(LandsAs(SetDown(t, q, t.at + 1), agrees, FALSE))
             /\ TakesOne(t, LandsAs(SetDown(t, q, t.at + 1), agrees, FALSE))
  <2> DEFINE v == SetDown(t, q, t.at + 1)
             w == PopState(v, agrees)
  <2>1. /\ Within(v) /\ v.entries = t.entries /\ v.at = t.at + 1 /\ v.going = q /\ v.ids = t.ids /\ v.layers = t.layers
        /\ v.hiding = t.hiding /\ v.settings = t.settings /\ SameRest(t, v)
    BY <1>3, <1>4, <1>6, SetDownIs
  <2>2. Sound(v, v.at - 1) /\ Heeds(v)
    <3>1. Sound(v, t.at) /\ Heeds(v)
      BY <1>3, <1>4, <1>6, SetDownSound
    <3>2. v.at - 1 = t.at
      BY <1>3, <2>1
    <3> QED
      BY <3>1, <3>2
  <2>3. \A k \in Keys : v.entries[v.at][k] # 0 => Size(v.ids, k) > 0
    BY <1>3, <2>1
  <2> HIDE DEF v
  <2>4. /\ Within(w) /\ Sound(w, w.at - 1) /\ w.going = Append(v.going, Own(1)) /\ SameDialogs(v, w) /\ SameRest(v, w)
        /\ Size(w.ids, "detail") > 0 /\ ~Covered(w.layers, w.ids)
    BY <2>1, <2>2, <2>3, ForwardLands
  <2>5. LandsAs(v, agrees, FALSE) = IF w.more = "waits" THEN Navigated(w) ELSE w
    BY DEF LandsAs
  <2> HIDE DEF w
  <2>6. w.more # "waits" /\ w.left = "no"
    BY <2>1, <2>4 DEF SameRest
  <2>7. Orderly(w)
    BY <1>4, <2>1, <2>4, <2>6, DelayedIsOrderly
  <2>8. TakesOne(t, w)
    BY <2>1, <2>4, StandingKept DEF SameDialogs
  <2> QED
    BY <2>5, <2>6, <2>7, <2>8 DEF v
<1>8. LandsWell(t, Forward, q)
  <2>1. t.at + Forward.by = t.at + 1
    BY <1>1
  <2> QED
    BY <1>1, <1>6, <1>7, <2>1 DEF LandsWell
<1> QED
  BY <1>2, <1>8 DEF q

\* Back where its dialogs already are, a popstate only wakes the sleeping keys.
LEMMA WakesCalmly ==
  ASSUME NEW t, Within(t), NEW q \in Seq(Trips), NEW p \in 1..Len(t.entries), Sound(t, p), NEW agrees,
         NEW w, w = PopState(SetDown(t, q, p), agrees)
  PROVE  /\ Calm(w) /\ w.going = q /\ w.ids = t.ids /\ w.layers = t.layers /\ w.hiding = t.hiding
         /\ w.settings = t.settings /\ SameRest(t, w) /\ w.entries = t.entries
<1> DEFINE v == SetDown(t, q, p)
<1>1. t \in Tabs
  BY DEF Within
<1>2. /\ Within(v) /\ v.entries = t.entries /\ v.at = p /\ v.going = q
      /\ v.ids = t.ids /\ v.layers = t.layers /\ v.hiding = t.hiding /\ v.settings = t.settings /\ SameRest(t, v)
  BY <1>1, SetDownIs
<1>3. Sound(v, v.at)
  BY <1>1, <1>2, SetDownSound
<1> HIDE DEF v
<1>4. Woken(v, w) /\ Heeds(w)
  <2>1. Bound(v, v.at)
    BY <1>3 DEF Sound
  <2> QED
    BY <1>2, <2>1, PopsAtTop DEF v
<1>5. Sound(w, v.at)
  BY <1>3, <1>4, WokenKept
<1>6. /\ w.at = v.at /\ w \in Tabs /\ w.entries = v.entries /\ w.going = v.going /\ w.ids = v.ids
      /\ w.layers = v.layers /\ w.hiding = v.hiding /\ w.settings = v.settings /\ SameRest(v, w)
  BY <1>4 DEF Woken, SameDialogs
<1> QED
  BY <1>2, <1>4, <1>5, <1>6 DEF Calm, Within, SameRest

LEMMA SteppingLands ==
  ASSUME NEW t, Within(t), Stepping(t), t.more = "waits" => "detail" \notin ToSet(t.layers),
         t.left = "no", t.astray = FALSE
  PROVE  LandsWell(t, Head(t.going), Tail(t.going))
<1>1. PICK b \in 1..(t.at - 1) : t.going = <<Own(b)>> /\ Sound(t, t.at - b)
  BY DEF Stepping
<1>2. /\ t.at \in Nat /\ t.at \in 1..Len(t.entries) /\ t \in Tabs /\ t.entries \in Pages
  BY WithinIs
<1>3. b \in Int /\ Len(t.entries) \in Nat
  BY <1>2 DEF Pages
<1>4. Own(b) \in Trips /\ Own(b).by = -b /\ Own(b).release = FALSE /\ Own(b).byUser = FALSE
  BY <1>3, TripsAre, Zenon
<1>5. Head(t.going) = Own(b) /\ Tail(t.going) = <<>>
  BY <1>1, <1>4, TripsGo
<1>6. t.at + Own(b).by = t.at - b /\ ~(t.at - b < 1) /\ t.at - b <= Len(t.entries) /\ t.at - b \in 1..Len(t.entries)
  BY <1>2, <1>3, <1>4
<1>7. ASSUME NEW agrees \in BOOLEAN
      PROVE  Orderly(LandsAs(SetDown(t, <<>>, t.at - b), agrees, FALSE))
  <2> DEFINE v == SetDown(t, <<>>, t.at - b)
             w == PopState(v, agrees)
  <2>0. <<>> \in Seq(Trips)
    OBVIOUS
  <2>1. /\ Calm(w) /\ w.going = <<>> /\ w.ids = t.ids /\ w.layers = t.layers /\ SameRest(t, w)
    <3> DEFINE q == <<>>
               p == t.at - b
    <3>1. q \in Seq(Trips) /\ p \in 1..Len(t.entries) /\ Sound(t, p) /\ w = PopState(SetDown(t, q, p), agrees)
      BY <1>1, <1>6, <2>0
    <3> HIDE DEF q, p, w
    <3>2. /\ Calm(w) /\ w.going = q /\ w.ids = t.ids /\ w.layers = t.layers /\ SameRest(t, w)
      BY <3>1, WakesCalmly
    <3> QED
      BY <3>2 DEF q
  <2>2. LandsAs(v, agrees, FALSE) = IF w.more = "waits" THEN Navigated(w) ELSE w
    BY DEF LandsAs
  <2> HIDE DEF w, v
  <2>3. w.more = t.more /\ w.left = "no"
    BY <2>1 DEF SameRest
  <2>4. CASE w.more = "waits"
    <3>1. "detail" \notin ToSet(w.layers)
      BY <2>1, <2>3, <2>4
    <3>2. /\ Within(w) /\ Path(w.entries, w.ids, w.layers, w.at) /\ w.hiding \subseteq ToSet(w.layers)
          /\ \A k \in Keys : Size(w.ids, k) > 0 => k \in ToSet(w.layers)
      BY <2>1 DEF Calm, Sound, Bound, Book, Shelved, Placed
    <3>3. Size(w.ids, "detail") = 0
      BY <3>1, <3>2, WithinIs, KeysAre
    <3>4. Orderly(Navigated(w))
      BY <2>0, <2>1, <3>2, <3>3, NavigatesAway
    <3> QED
      BY <2>2, <2>4, <3>4 DEF v
  <2>5. CASE w.more # "waits"
    <3>1. Orderly(w)
      BY <2>1, <2>3, <2>5, CalmIsOrderly
    <3> QED
      BY <2>2, <2>5, <3>1 DEF v
  <2> QED
    BY <2>4, <2>5
<1>8. LandsWell(t, Own(b), <<>>)
  <2>1. Own(b).byUser # TRUE
    BY <1>4
  <2> QED
    BY <1>4, <1>6, <1>7, <2>1 DEF LandsWell
<1> QED
  BY <1>5, <1>8

LEMMA OwedLands ==
  ASSUME NEW t, Owed(t), t.more # "waits", t.left = "no", t.astray = FALSE
  PROVE  LandsWell(t, Head(t.going), Tail(t.going))
<1>1. t.going = <<Own(1)>> /\ Calm(t) /\ Size(t.ids, "detail") > 0
  BY DEF Owed, DetailInFront
<1>2. /\ t.at \in Nat /\ t.at \in 1..Len(t.entries) /\ t \in Tabs /\ t.entries \in Pages /\ t.ids \in Lists
      /\ Path(t.entries, t.ids, t.layers, t.at)
  BY <1>1, WithinIs DEF Calm, Sound, Bound, Book
<1>3. t.at > 1
  <2>1. Total(t.ids) > 0
    BY <1>1, <1>2, LengthsAre DEF Total
  <2> QED
    BY <1>2, <2>1, LengthsAre DEF Path
<1>4. Own(1) \in Trips /\ Own(1).by = -1 /\ Own(1).release = FALSE /\ Own(1).byUser = FALSE
  <2>1. 1 \in Int
    OBVIOUS
  <2> QED
    BY <2>1, TripsAre, Zenon
<1>5. Head(t.going) = Own(1) /\ Tail(t.going) = <<>>
  BY <1>1, <1>4, TripsGo
<1>6. t.at + Own(1).by = t.at - 1 /\ ~(t.at - 1 < 1) /\ t.at - 1 <= Len(t.entries)
  BY <1>2, <1>3, <1>4
<1>7. ASSUME NEW agrees \in BOOLEAN
      PROVE  Orderly(LandsAs(SetDown(t, <<>>, t.at - 1), agrees, FALSE))
  BY <1>1, <1>3, BackIsAnswered
<1>8. LandsWell(t, Own(1), <<>>)
  <2>1. Own(1).byUser # TRUE
    BY <1>4
  <2> QED
    BY <1>4, <1>6, <1>7, <2>1 DEF LandsWell
<1> QED
  BY <1>5, <1>8

LEMMA DoubledLands ==
  ASSUME NEW t, Within(t), Doubled(t), t.more # "waits", t.left = "no", t.astray = FALSE
  PROVE  LandsWell(t, Head(t.going), Tail(t.going))
<1>1. t.going = <<Pressed, Own(1)>> /\ Sound(t, t.at - 1) /\ DetailInFront(t)
  BY DEF Doubled
<1>2. /\ t.at \in Nat /\ t.at \in 1..Len(t.entries) /\ t \in Tabs /\ t.entries \in Pages
  BY WithinIs
<1>3. t.at - 1 \in 1..Len(t.entries)
  BY <1>1 DEF Sound, Bound, Book, Path
<1>4. /\ Pressed \in Trips /\ Pressed.by = -1 /\ Pressed.release = FALSE /\ Pressed.byUser = TRUE /\ Own(1) \in Trips
  <2>1. 1 \in Int
    OBVIOUS
  <2> QED
    BY <2>1, TripsAre, Zenon
<1>5. Head(t.going) = Pressed /\ Tail(t.going) = <<Own(1)>>
  BY <1>1, <1>4, TripsGo
<1>6. t.at + Pressed.by = t.at - 1 /\ ~(t.at - 1 < 1) /\ t.at - 1 <= Len(t.entries)
  BY <1>2, <1>3, <1>4
<1> DEFINE q == <<Own(1)>>
<1>7. q \in Seq(Trips)
  BY <1>4
<1> HIDE DEF q
<1>8. ASSUME NEW agrees \in BOOLEAN
      PROVE  /\ Orderly(LandsAs(SetDown(t, q, t.at - 1), agrees, FALSE))
             /\ TakesOne(t, LandsAs(SetDown(t, q, t.at - 1), agrees, FALSE))
  <2> DEFINE v == SetDown(t, q, t.at - 1)
             w == PopState(v, agrees)
  <2>1. /\ Calm(w) /\ w.going = q /\ w.ids = t.ids /\ w.layers = t.layers /\ w.hiding = t.hiding
        /\ w.settings = t.settings /\ SameRest(t, w)
    BY <1>1, <1>3, <1>7, WakesCalmly
  <2>2. LandsAs(v, agrees, FALSE) = IF w.more = "waits" THEN Navigated(w) ELSE w
    BY DEF LandsAs
  <2> HIDE DEF w, v
  <2>3. w.more # "waits" /\ w.left = "no"
    BY <2>1 DEF SameRest
  <2>4. Owed(w)
    BY <1>1, <2>1 DEF Owed, DetailInFront, q
  <2>5. Orderly(w)
    BY <2>1, <2>3, <2>4 DEF Orderly, LeftWell, Underway, Calm, Sound, Shelved, Placed
  <2>6. TakesOne(t, w)
    BY <2>1, StandingKept
  <2> QED
    BY <2>2, <2>3, <2>5, <2>6 DEF v
<1>9. LandsWell(t, Pressed, q)
  BY <1>4, <1>6, <1>8 DEF LandsWell
<1> QED
  BY <1>5, <1>9 DEF q

(* A release lands: the entry keeps the sleepers' keys, and the dialog is shown again. *)
Rewritten(e, p, page) == [e EXCEPT ![p] = page]
Renewed(t) == [t EXCEPT !.entries = Rewritten(t.entries, t.at, t.retained), !.after = NoNode]

LEMMA RewrittenIs ==
  ASSUME NEW e \in Pages, NEW p \in 1..Len(e), NEW page \in [Keys -> Nat], NEW d, d = Rewritten(e, p, page)
  PROVE  d \in Pages /\ Len(d) = Len(e) /\ d[p] = page /\ \A j \in 1..Len(e) : j # p => d[j] = e[j]
BY ExceptSeq DEF Rewritten, Pages

LEMMA RenewedIs ==
  ASSUME NEW t, Within(t), NEW u, u = Renewed(t)
  PROVE  /\ u \in Tabs /\ Len(u.entries) = Len(t.entries) /\ u.entries[t.at] = t.retained
         /\ (\A j \in 1..Len(t.entries) : j # t.at => u.entries[j] = t.entries[j])
         /\ u.at = t.at /\ u.newest = t.newest /\ u.going = t.going /\ u.ids = t.ids /\ u.ignore = t.ignore
         /\ SameDialogs(t, u) /\ u.more = t.more /\ u.left = t.left /\ u.astray = t.astray /\ u.after = NoNode
<1> DEFINE d == Rewritten(t.entries, t.at, t.retained)
<1>1. t \in Tabs /\ t.entries \in Pages /\ t.at \in 1..Len(t.entries) /\ t.retained \in [Keys -> Nat]
  BY WithinIs DEF Tabs
<1>2. d \in Pages /\ Len(d) = Len(t.entries) /\ d[t.at] = t.retained
      /\ \A j \in 1..Len(t.entries) : j # t.at => d[j] = t.entries[j]
  <2>1. d = Rewritten(t.entries, t.at, t.retained)
    OBVIOUS
  <2> HIDE DEF d
  <2> QED
    BY <1>1, <2>1, RewrittenIs
<1>3. u = [t EXCEPT !.entries = d, !.after = NoNode]
  BY DEF Renewed
<1> HIDE DEF d
<1>4. u \in Tabs
  <2>1. t \in Tabs /\ d \in Pages /\ NoNode \in Nodes \union {NoNode, "editor"}
    BY <1>1, <1>2
  <2> QED
    BY <1>3, <2>1 DEF Tabs
<1>5. /\ u.entries = d /\ u.at = t.at /\ u.newest = t.newest /\ u.going = t.going /\ u.ids = t.ids /\ u.ignore = t.ignore
      /\ SameDialogs(t, u) /\ u.more = t.more /\ u.left = t.left /\ u.astray = t.astray /\ u.after = NoNode
  <2>1. t \in Tabs
    BY <1>1
  <2> QED
    BY <1>3, <2>1 DEF Tabs, SameDialogs
<1> QED
  BY <1>2, <1>4, <1>5

LEMMA ContinuedIs ==
  ASSUME NEW t, Within(t)
  PROVE  Continued(t) = IF t.after = "editor" THEN EditorShown(Gone(Renewed(t), "editor"))
                        ELSE Shown(Gone(Renewed(t), "detail"), t.after)
<1> DEFINE x == [t EXCEPT !.entries[t.at] = t.retained]
<1>1. t \in Tabs
  BY DEF Within
<1>2. x.after = t.after
  BY <1>1 DEF Tabs
<1>3. [x EXCEPT !.after = NoNode] = Renewed(t)
  BY <1>1 DEF Tabs, Renewed, Rewritten
<1>4. Continued(t) = GoesOn(x)
  BY DEF Continued
<1> HIDE DEF x
<1> QED
  BY <1>2, <1>3, <1>4 DEF GoesOn

Woke(t, q, agrees) == PopState(SetDown(t, q, 2), agrees)
Awake(t, q, k, w, y) ==
    /\ Within(w) /\ w.after = t.after
    /\ Within(y) /\ y.at = 2 /\ y.entries[2] = t.retained /\ y.entries[1] = t.entries[1] /\ y.going = q
    /\ y.newest = t.newest /\ y.ids = t.ids /\ y.ignore[k] = FALSE /\ SameDialogs(t, y)
    /\ y.more = t.more /\ y.left = t.left /\ y.astray = t.astray

\* What every release that lands shares: the sleepers wake, and nothing else moves.
LEMMA SleepersWake ==
  ASSUME NEW t, Within(t), NEW q \in Seq(Trips), 2 <= Len(t.entries), NEW k \in Keys, t.ignore[k] = TRUE, Size(t.ids, k) = 1,
         \A l \in Keys : l # k => Size(t.ids, l) = 0, NEW agrees
  PROVE  Awake(t, q, k, Woke(t, q, agrees), Renewed(Woke(t, q, agrees)))
<1> DEFINE v == SetDown(t, q, 2)
           w == Woke(t, q, agrees)
           y == Renewed(w)
<1>1. t \in Tabs /\ t.entries \in Pages /\ 2 \in 1..Len(t.entries) /\ 1 \in 1..Len(t.entries)
  <2>1. t \in Tabs /\ t.entries \in Pages
    BY WithinIs
  <2>2. Len(t.entries) \in Nat
    BY <2>1 DEF Pages
  <2> QED
    BY <2>1, <2>2
<1>2. /\ Within(v) /\ v.entries = t.entries /\ v.at = 2 /\ v.newest = t.newest /\ v.going = q
      /\ v.ids = t.ids /\ v.ignore = t.ignore /\ SameRest(t, v) /\ SameDialogs(t, v) /\ v \in Tabs
  BY <1>1, SetDownIs
<1> HIDE DEF v
<1> HIDE DEF y
<1>3. Woken(v, w) /\ w.ignore[k] = FALSE
  <2>1. /\ v \in Tabs /\ Size(v.ids, k) > 0 /\ v.ignore[k] = TRUE /\ (\A l \in Keys : l # k => Size(v.ids, l) = 0)
        /\ w = PopState(v, agrees)
    BY <1>2 DEF v, Woke
  <2> HIDE DEF w
  <2> QED
    BY <2>1, PopsAsleep
<1> HIDE DEF w
<1>4. /\ w \in Tabs /\ w.entries = t.entries /\ w.at = 2 /\ w.newest = t.newest /\ w.going = q /\ w.ids = t.ids
      /\ SameDialogs(t, w) /\ SameRest(t, w)
  BY <1>2, <1>3 DEF Woken, SameDialogs, SameRest
<1>5. Within(w) /\ w.retained = t.retained /\ w.after = t.after
  BY <1>1, <1>4 DEF Within, SameRest
<1>6. /\ y \in Tabs /\ Len(y.entries) = Len(w.entries) /\ y.entries[w.at] = w.retained
      /\ (\A j \in 1..Len(w.entries) : j # w.at => y.entries[j] = w.entries[j])
      /\ y.at = w.at /\ y.newest = w.newest /\ y.going = w.going /\ y.ids = w.ids /\ y.ignore = w.ignore
      /\ SameDialogs(w, y) /\ y.more = w.more /\ y.left = w.left /\ y.astray = w.astray
  BY <1>5, RenewedIs DEF y
<1>7. Within(y) /\ y.at = 2 /\ y.entries[2] = t.retained /\ y.entries[1] = t.entries[1]
  BY <1>1, <1>4, <1>5, <1>6 DEF Within
<1>8. Awake(t, q, k, w, y)
  BY <1>3, <1>4, <1>5, <1>6, <1>7 DEF Awake, SameDialogs, SameRest
<1> QED
  BY <1>8 DEF w, y

LEMMA ReleasedEditorLands ==
  ASSUME NEW t, Within(t), ReleasesEditor(t), t.more # "waits", t.left = "no", t.astray = FALSE
  PROVE  LandsWell(t, Head(t.going), Tail(t.going))
<1>1. t.going = <<Release(1)>> /\ t.at = 3
  BY DEF ReleasesEditor
<1>2. t \in Tabs /\ t.entries \in Pages /\ t.at \in 1..Len(t.entries)
  BY WithinIs
<1>3. 2 <= Len(t.entries) /\ t.at - 1 = 2
  <2>1. Len(t.entries) \in Nat
    BY <1>2 DEF Pages
  <2> QED
    BY <1>1, <1>2, <2>1
<1>4. Release(1) \in Trips /\ Release(1).by = -1 /\ Release(1).release = TRUE /\ Release(1).byUser = FALSE
  <2>1. 1 \in Int
    OBVIOUS
  <2> QED
    BY <2>1, TripsAre, Zenon
<1>5. Head(t.going) = Release(1) /\ Tail(t.going) = <<>>
  BY <1>1, <1>4, TripsGo
<1>6. t.at + Release(1).by = 2
  BY <1>1, <1>4
<1> DEFINE q == <<>>
<1>7. q \in Seq(Trips)
  OBVIOUS
<1> HIDE DEF q
<1>8. ASSUME NEW agrees \in BOOLEAN
      PROVE  Orderly(LandsAs(SetDown(t, q, 2), agrees, TRUE))
  <2> DEFINE w == PopState(SetDown(t, q, 2), agrees)
             y == Renewed(w)
             g == Gone(y, "editor")
             u == EditorShown(g)
  <2>1. /\ t.after = "editor" /\ t.layers = OnEditor /\ t.hiding = {} /\ t.asked = NoNode
        /\ Numbered(t.ids, t.newest) /\ Size(t.ids, "detail") = 1 /\ Size(t.ids, "editor") = 0 /\ Size(t.ids, "control") = 0
        /\ t.entries[1] = Blank /\ t.ignore["detail"] = TRUE /\ t.retained = Only("detail", t.ids["detail"][1])
        /\ Len(t.trail) = 1 /\ t.node = Last(t.trail) /\ t.returning \in {NoNode, t.node} /\ t.node # NoNode
    BY DEF ReleasesEditor
  <2>2. \A l \in Keys : l # "detail" => Size(t.ids, l) = 0
    BY <2>1, KeysOnly
  <2>3. /\ Within(w) /\ w.after = "editor"
        /\ Within(y) /\ y.at = 2 /\ y.entries[2] = t.retained /\ y.entries[1] = t.entries[1] /\ y.going = q
        /\ y.newest = t.newest /\ y.ids = t.ids /\ y.ignore["detail"] = FALSE /\ SameDialogs(t, y)
        /\ y.more = t.more /\ y.left = t.left /\ y.astray = t.astray
    <3>1. "detail" \in Keys /\ t.ignore["detail"] = TRUE /\ Size(t.ids, "detail") = 1
      BY <2>1, KeysAre
    <3>2. Awake(t, q, "detail", Woke(t, q, agrees), Renewed(Woke(t, q, agrees)))
      BY <1>3, <1>7, <2>2, <3>1, SleepersWake
    <3>3. Awake(t, q, "detail", w, y)
      BY <3>2 DEF Woke
    <3> HIDE DEF w, y
    <3> QED
      BY <2>1, <3>3 DEF Awake
  <2>4. LandsAs(SetDown(t, q, 2), agrees, TRUE) = u
    <3>1. Continued(w) = EditorShown(Gone(Renewed(w), "editor"))
      BY <2>3, ContinuedIs
    <3> QED
      BY <3>1 DEF LandsAs
  <2> HIDE DEF w, y
  <2>5. /\ y \in Tabs /\ y.layers = OnEditor /\ y.hiding = {} /\ y.asked = NoNode /\ y.node = t.node /\ y.trail = t.trail
        /\ y.returning = t.returning
    BY <2>1, <2>3 DEF SameDialogs, Within
  <2>6. /\ g \in Tabs /\ g.entries = y.entries /\ g.at = y.at /\ g.newest = y.newest /\ g.going = y.going
        /\ g.ids["editor"] = <<>> /\ g.ids["control"] = y.ids["control"] /\ g.ids["detail"] = y.ids["detail"]
        /\ g.ignore["detail"] = y.ignore["detail"]
        /\ g.layers = Alone
    <3>1. g.layers = IF y.layers = Editing THEN <<>> ELSE IF y.layers \in {OnDetail, OnEditor} THEN Alone
                     ELSE IF y.layers = Full THEN WithControl ELSE y.layers
      BY <2>5, EditorGone
    <3>2. g.layers = Alone
      BY <2>5, <3>1, StacksDiffer
    <3> QED
      BY <2>5, <3>2, EditorGone
  <2>7. /\ g.hiding = y.hiding \ {"editor"} /\ g.node = y.node /\ g.trail = y.trail /\ g.asked = y.asked
        /\ g.returning = y.returning /\ g.busy = FALSE /\ SameRest(y, g)
    BY <2>5, EditorGone
  <2> HIDE DEF g
  <2>8. g.ids = t.ids
    <3>1. t.ids["editor"] = <<>>
      BY <1>2, <2>1, ActiveIs, KeysAre DEF Tabs
    <3>2. g.ids \in Lists /\ t.ids \in Lists
      BY <1>2, <2>6 DEF Tabs
    <3>3. \A k \in Keys : g.ids[k] = t.ids[k]
      BY <2>3, <2>6, <3>1, KeysOnly
    <3> QED
      BY <3>2, <3>3 DEF Lists
  <2>9. Fresh(g, "detail")
    <3>1. Within(g) /\ g.at = 2 /\ g.hiding = {} /\ g.asked = NoNode
      BY <2>3, <2>5, <2>6, <2>7 DEF Within
    <3>2. g.entries[1] = Blank /\ g.entries[2] = Only("detail", g.ids["detail"][1])
      BY <2>1, <2>3, <2>6, <2>8
    <3>3. Size(g.ids, "detail") = 1 /\ (\A l \in Keys : l # "detail" => Size(g.ids, l) = 0) /\ Numbered(g.ids, g.newest)
      BY <2>1, <2>2, <2>3, <2>6, <2>8
    <3>4. g.ignore["detail"] = FALSE /\ g.layers = Alone /\ g.node # NoNode /\ Len(g.trail) = 1 /\ g.node = Last(g.trail)
          /\ g.returning \in {NoNode, g.node} /\ g.busy = FALSE
      BY <2>1, <2>3, <2>5, <2>6, <2>7
    <3> QED
      BY <3>1, <3>2, <3>3, <3>4 DEF Fresh
  <2>10. Calm(u) /\ u.going = g.going /\ SameRest(g, u)
    BY <2>9, FreshEditor
  <2> HIDE DEF u
  <2>11. u.going = <<>> /\ u.more # "waits" /\ u.left = "no"
    BY <2>3, <2>6, <2>7, <2>10 DEF SameRest, q
  <2>12. Orderly(u)
    BY <2>10, <2>11, CalmIsOrderly
  <2> QED
    BY <2>4, <2>12
<1>9. LandsWell(t, Release(1), q)
  <2>1. Release(1).byUser # TRUE
    BY <1>4
  <2>2. ~(2 < 1)
    OBVIOUS
  <2> QED
    BY <1>3, <1>4, <1>6, <1>8, <2>1, <2>2 DEF LandsWell
<1> QED
  BY <1>5, <1>9 DEF q

LEMMA ReleasedDetailLands ==
  ASSUME NEW t, Within(t), ReleasesDetail(t), t.more # "waits", t.left = "no", t.astray = FALSE
  PROVE  LandsWell(t, Head(t.going), Tail(t.going))
<1>1. PICK b \in Nat \ {0} : t.going = <<Release(b)>> /\ t.at = b + 2
  BY DEF ReleasesDetail
<1>2. t \in Tabs /\ t.entries \in Pages /\ t.at \in 1..Len(t.entries)
  BY WithinIs
<1>3. 2 <= Len(t.entries)
  <2>1. Len(t.entries) \in Nat
    BY <1>2 DEF Pages
  <2> QED
    BY <1>1, <1>2, <2>1
<1>4. Release(b) \in Trips /\ Release(b).by = -b /\ Release(b).release = TRUE /\ Release(b).byUser = FALSE
  <2>1. b \in Int
    OBVIOUS
  <2> QED
    BY <2>1, TripsAre, Zenon
<1>5. Head(t.going) = Release(b) /\ Tail(t.going) = <<>>
  BY <1>1, <1>4, TripsGo
<1>6. t.at + Release(b).by = 2
  BY <1>1, <1>4
<1> DEFINE q == <<>>
<1>7. q \in Seq(Trips)
  OBVIOUS
<1> HIDE DEF q
<1>8. ASSUME NEW agrees \in BOOLEAN
      PROVE  Orderly(LandsAs(SetDown(t, q, 2), agrees, TRUE))
  <2> DEFINE w == PopState(SetDown(t, q, 2), agrees)
             y == Renewed(w)
             g == Gone(y, "detail")
             u == Shown(g, t.after)
  <2>1. /\ t.after \in Nodes /\ t.layers = OnDetail /\ t.hiding = {}
        /\ Numbered(t.ids, t.newest) /\ Size(t.ids, "editor") = 1 /\ Size(t.ids, "detail") = 0 /\ Size(t.ids, "control") = 0
        /\ t.entries[1] = Blank /\ t.ignore["editor"] = TRUE /\ t.retained = Only("editor", t.ids["editor"][1])
    BY DEF ReleasesDetail
  <2>2. \A l \in Keys : l # "editor" => Size(t.ids, l) = 0
    BY <2>1, KeysOnly
  <2>3. /\ Within(w) /\ w.after = t.after
        /\ Within(y) /\ y.at = 2 /\ y.entries[2] = t.retained /\ y.entries[1] = t.entries[1] /\ y.going = q
        /\ y.newest = t.newest /\ y.ids = t.ids /\ y.ignore["editor"] = FALSE /\ SameDialogs(t, y)
        /\ y.more = t.more /\ y.left = t.left /\ y.astray = t.astray
    <3>1. "editor" \in Keys /\ t.ignore["editor"] = TRUE /\ Size(t.ids, "editor") = 1
      BY <2>1, KeysAre
    <3>2. Awake(t, q, "editor", Woke(t, q, agrees), Renewed(Woke(t, q, agrees)))
      BY <1>3, <1>7, <2>2, <3>1, SleepersWake
    <3>3. Awake(t, q, "editor", w, y)
      BY <3>2 DEF Woke
    <3> HIDE DEF w, y
    <3> QED
      BY <2>1, <3>3 DEF Awake
  <2>4. LandsAs(SetDown(t, q, 2), agrees, TRUE) = u
    <3>1. t.after # "editor"
      BY <2>1, NodesAssumption
    <3>2. Continued(w) = Shown(Gone(Renewed(w), "detail"), t.after)
      BY <2>3, <3>1, ContinuedIs
    <3> QED
      BY <3>2 DEF LandsAs
  <2> HIDE DEF w, y
  <2>5. y \in Tabs /\ y.layers = OnDetail /\ y.hiding = {}
    BY <2>1, <2>3 DEF SameDialogs, Within
  <2>6. /\ g \in Tabs /\ g.entries = y.entries /\ g.at = y.at /\ g.newest = y.newest /\ g.going = y.going
        /\ g.ids["detail"] = <<>> /\ g.ids["control"] = <<>> /\ g.ids["editor"] = y.ids["editor"]
        /\ g.ignore["editor"] = y.ignore["editor"]
        /\ g.layers = Editing
    <3>1. g.layers = IF "editor" \in ToSet(y.layers) THEN Editing ELSE <<>>
      BY <2>5, DetailGone
    <3>2. g.layers = Editing
      BY <2>5, <3>1, Holding
    <3> QED
      BY <2>5, <3>2, DetailGone
  <2>7. /\ g.hiding = y.hiding \ {"detail", "control"} /\ g.node = NoNode /\ g.trail = <<>> /\ g.asked = NoNode
        /\ SameRest(y, g)
    BY <2>5, DetailGone
  <2> HIDE DEF g
  <2>8. g.ids = t.ids
    <3>1. t.ids["detail"] = <<>> /\ t.ids["control"] = <<>>
      BY <1>2, <2>1, ActiveIs, KeysAre DEF Tabs
    <3>2. g.ids \in Lists /\ t.ids \in Lists
      BY <1>2, <2>6 DEF Tabs
    <3>3. \A k \in Keys : g.ids[k] = t.ids[k]
      BY <2>3, <2>6, <3>1, KeysOnly
    <3> QED
      BY <3>2, <3>3 DEF Lists
  <2>9. Fresh(g, "editor")
    <3>1. Within(g) /\ g.at = 2 /\ g.hiding = {} /\ g.asked = NoNode
      BY <2>3, <2>5, <2>6, <2>7 DEF Within
    <3>2. g.entries[1] = Blank /\ g.entries[2] = Only("editor", g.ids["editor"][1])
      BY <2>1, <2>3, <2>6, <2>8
    <3>3. Size(g.ids, "editor") = 1 /\ (\A l \in Keys : l # "editor" => Size(g.ids, l) = 0) /\ Numbered(g.ids, g.newest)
      BY <2>1, <2>2, <2>3, <2>6, <2>8
    <3>4. g.ignore["editor"] = FALSE /\ g.layers = Editing /\ g.node = NoNode /\ g.trail = <<>>
      BY <2>3, <2>6, <2>7
    <3> QED
      BY <3>1, <3>2, <3>3, <3>4 DEF Fresh
  <2>10. Calm(u) /\ u.going = g.going /\ SameRest(g, u)
    BY <2>1, <2>9, FreshDetail
  <2> HIDE DEF u
  <2>11. u.going = <<>> /\ u.more # "waits" /\ u.left = "no"
    BY <2>3, <2>6, <2>7, <2>10 DEF SameRest, q
  <2>12. Orderly(u)
    BY <2>10, <2>11, CalmIsOrderly
  <2> QED
    BY <2>4, <2>12
<1>9. LandsWell(t, Release(b), q)
  <2>1. Release(b).byUser # TRUE
    BY <1>4
  <2>2. ~(2 < 1)
    OBVIOUS
  <2> QED
    BY <1>3, <1>4, <1>6, <1>8, <2>1, <2>2 DEF LandsWell
<1> QED
  BY <1>5, <1>9 DEF q

----------------------------------------------------------------------------
(* The whole tab: every step keeps it in order.                               *)

LEMMA LandsInOrder ==
  ASSUME NEW t, Orderly(t), t.astray = FALSE, t.left = "no", t.going # <<>>
  PROVE  LandsWell(t, Head(t.going), Tail(t.going))
<1>1. Within(t) /\ Underway(t)
  BY DEF Orderly
<1>2. CASE t.more # "waits" /\ Still(t)
  BY <1>2, StillLands
<1>3. CASE t.more # "waits" /\ Ahead(t)
  BY <1>3, AheadLands
<1>4. CASE t.more # "waits" /\ Doubled(t)
  BY <1>1, <1>4, DoubledLands
<1>5. CASE t.more # "waits" /\ Owed(t)
  BY <1>5, OwedLands
<1>6. CASE t.more # "waits" /\ ReleasesEditor(t)
  BY <1>1, <1>6, ReleasedEditorLands
<1>7. CASE t.more # "waits" /\ ReleasesDetail(t)
  BY <1>1, <1>7, ReleasedDetailLands
<1>8. CASE Stepping(t) /\ (t.more = "waits" => "detail" \notin ToSet(t.layers))
  BY <1>1, <1>8, SteppingLands
<1> QED
  BY <1>1, <1>2, <1>3, <1>4, <1>5, <1>6, <1>7, <1>8 DEF Underway

LEMMA LandingKeepsOrder ==
  ASSUME Orderly(tab), tab.astray = FALSE, Lands
  PROVE  Orderly(tab') /\ (Head(tab.going).byUser = TRUE => TakesOne(tab, tab'))
<1> DEFINE go == Head(tab.going)
           to == tab.at + go.by
<1>1. tab.going # <<>> /\ tab.left = "no" /\ LandsWell(tab, go, Tail(tab.going))
  BY LandsInOrder DEF Lands
<1>2. /\ tab \in Tabs /\ tab.at \in Nat /\ go \in Trips /\ to \in Int /\ tab.entries \in Pages /\ Len(tab.entries) \in Nat
  <2>1. tab \in Tabs /\ tab.at \in Nat /\ tab.going \in Seq(Trips) /\ tab.entries \in Pages
    BY WithinIs DEF Orderly
  <2>2. go \in Trips
    BY <1>1, <2>1
  <2>3. go.by \in Int
    BY <2>2 DEF Trips
  <2>4. Len(tab.entries) \in Nat
    BY <2>1 DEF Pages
  <2> QED
    BY <2>1, <2>2, <2>3, <2>4
<1>3. CASE to < 1
  <2>1. go.byUser = TRUE /\ Orderly(LeftBack(tab))
    BY <1>1, <1>3 DEF LandsWell
  <2>2. tab' = [tab EXCEPT !.left = IF go.byUser THEN "back" ELSE "pushed"]
    BY <1>3 DEF Lands
  <2>3. tab' = LeftBack(tab)
    BY <2>1, <2>2 DEF LeftBack
  <2>4. tab'.layers = tab.layers /\ tab'.hiding = tab.hiding /\ tab'.settings = tab.settings
    BY <1>2, <2>3 DEF LeftBack, Tabs
  <2>5. TakesOne(tab, tab')
    BY <2>4, StandingKept
  <2> QED
    BY <2>1, <2>3, <2>5
<1>4. CASE ~(to < 1)
  <2>0. to >= 1
    BY <1>2, <1>4
  <2>1. to <= Len(tab.entries) /\ ~(to > Len(tab.entries))
    <3>1. to <= Len(tab.entries)
      BY <1>1, <2>0 DEF LandsWell
    <3> QED
      BY <1>2, <3>1
  <2>2. \E agrees \in BOOLEAN : tab' = LandsAs(SetDown(tab, Tail(tab.going), to), agrees, go.release)
    <3> DEFINE t == [tab EXCEPT !.going = Tail(@), !.at = to]
    <3>1. \E agrees \in BOOLEAN :
             tab' = IF go.release THEN Continued(PopState(t, agrees))
                    ELSE IF PopState(t, agrees).more = "waits" THEN Navigated(PopState(t, agrees)) ELSE PopState(t, agrees)
      BY <1>4, <2>1 DEF Lands
    <3>2. t = SetDown(tab, Tail(tab.going), to)
      BY DEF SetDown
    <3> QED
      BY <3>1, <3>2 DEF LandsAs
  <2> QED
    BY <1>1, <2>0, <2>2 DEF LandsWell
<1> QED
  BY <1>3, <1>4

LEMMA StartsInOrder ==
  ASSUME HistoryInit
  PROVE  Orderly(tab)
<1>1. /\ tab.entries = <<Blank>> /\ tab.at = 1 /\ tab.going = <<>> /\ tab.newest = 0
      /\ tab.ids = [k \in Keys |-> <<>>] /\ tab.ignore = [k \in Keys |-> FALSE]
      /\ tab.layers = <<>> /\ tab.hiding = {} /\ tab.node = NoNode /\ tab.trail = <<>>
      /\ tab.returning = NoNode /\ tab.asked = NoNode /\ tab.busy = FALSE /\ tab.more = "no"
      /\ tab.left = "no"
  BY DEF HistoryInit
<1>2. tab \in Tabs
  <2>1. <<Blank>> \in Pages
    BY DEF Pages, Blank
  <2>2. [k \in Keys |-> <<>>] \in Lists /\ <<>> \in Seq(Trips) /\ <<>> \in Seq(Nodes) /\ <<>> \in Stacks
    BY DEF Lists, Stacks
  <2>3. Blank \in [Keys -> Nat] /\ [k \in Keys |-> FALSE] \in [Keys -> BOOLEAN] /\ {} \in SUBSET Keys
    BY DEF Blank
  <2> HIDE DEF Blank, Keys
  <2> QED
    BY <2>1, <2>2, <2>3 DEF HistoryInit, Tabs
<1>3. Within(tab) /\ \A k \in Keys : Size(tab.ids, k) = 0
  BY <1>1, <1>2 DEF Within, Size
<1>4. ~Covered(tab.layers, tab.ids) /\ Total(tab.ids) = 0
  BY <1>3, KeysAre DEF Covered, Total
<1>5. Bound(tab, tab.at)
  <2>1. Numbered(tab.ids, tab.newest)
    BY <1>3, KeysAre DEF Numbered
  <2>2. Path(tab.entries, tab.ids, tab.layers, tab.at)
    <3>1. \A j \in 1..1, k \in Keys : tab.entries[j][k] = 0
      BY <1>1 DEF Blank
    <3>2. \A j, k \in Keys : KeyAt(tab.ids, tab.layers, k, j) = 0
      BY <1>3 DEF KeyAt
    <3>3. \A j \in 1..1, k \in Keys : KeyAt(tab.ids, tab.layers, k, j) = 0
      BY <1>3 DEF KeyAt
    <3>4. tab.at \in 1..Len(tab.entries)
      BY <1>3 DEF Within
    <3> QED
      BY <1>1, <1>4, <3>1, <3>3, <3>4 DEF Path
  <2>3. Beyond(tab.entries, tab.ids, tab.layers, tab.at)
    BY <1>1, <1>4 DEF Beyond
  <2> QED
    BY <2>1, <2>2, <2>3 DEF Bound, Book
<1>6. Placed(tab.layers, tab.ids, tab.hiding, tab.node, tab.asked) /\ Standing(tab.layers, tab.ids, tab.hiding)
  BY <1>1, <1>3, <1>4, Holding DEF Placed, Standing
<1>7. Trailed(tab.layers, tab.ids, tab.trail, tab.node, tab.asked, tab.returning) /\ Writing(tab)
  BY <1>1, <1>3, KeysAre DEF Trailed, Writing
<1>8. Heeds(tab)
  BY <1>3 DEF Heeds
<1>9. Calm(tab)
  BY <1>3, <1>5, <1>6, <1>7, <1>8 DEF Calm, Sound, Shelved
<1> QED
  BY <1>1, <1>9, CalmIsOrderly

LEMMA UsersStepKeepsOrder ==
  ASSUME Orderly(tab), tab.astray = FALSE, HistoryUser
  PROVE  Orderly(tab')
<1>1. CASE BackAgain
  <2>1. tab.left = "no" /\ Len(tab.going) = 1 /\ Head(tab.going).byUser
    BY <1>1 DEF BackAgain
  <2>2. tab \in Tabs /\ tab.going \in Seq(Trips)
    BY WithinIs DEF Orderly
  <2>3. Head(tab.going).byUser = TRUE
    <3>1. Head(tab.going) \in Trips
      BY <2>1, <2>2
    <3> QED
      BY <2>1, <3>1 DEF Trips
  <2>4. tab' = Setting(tab, Append(tab.going, Pressed), tab.astray)
    <3>1. tab' = [tab EXCEPT !.going = Append(tab.going, Pressed)]
      BY <1>1 DEF BackAgain, Pressed
    <3> QED
      BY <2>2, <3>1 DEF Setting, Tabs
  <2> QED
    BY <2>1, <2>3, <2>4, BackPressedAgain
<1>2. CASE ~BackAgain
  <2>1. Resting
    BY <1>2 DEF HistoryUser
  <2>2. Quiet(tab)
    BY <2>1, OrderlyRests DEF Resting
  <2>3. ASSUME NEW n \in Nodes, OpensDetail(n) PROVE Orderly(tab')
    BY <2>2, <2>3, DetailOpens DEF OpensDetail
  <2>4. ASSUME NEW n \in Nodes, AsksNode(n) PROVE Orderly(tab')
    BY <2>2, <2>4, NodeAsked DEF AsksNode
  <2>5. ASSUME NEW n \in Nodes, ShowsControllable(n) PROVE Orderly(tab')
    BY <2>2, <2>5, ControllableShown DEF ShowsControllable
  <2>6. CASE OpensSettings
    <3>1. TRUE \in BOOLEAN /\ tab' = [tab EXCEPT !.settings = TRUE]
      BY <2>6 DEF OpensSettings
    <3> QED
      BY <2>2, <3>1, InsideChanges
  <2>7. CASE ClosesSettings
    <3>1. FALSE \in BOOLEAN /\ tab' = [tab EXCEPT !.settings = FALSE]
      BY <2>7 DEF ClosesSettings
    <3> QED
      BY <2>2, <3>1, InsideChanges
  <2>8. CASE OpensControl
    <3>1. tab' = Covering(tab, "control")
      BY <2>8 DEF OpensControl, Covering, Restacked
    <3> QED
      BY <2>2, <2>8, <3>1, ControlOpens DEF OpensControl
  <2>9. CASE ClosesControl
    <3>1. Top(tab) = "control" /\ tab' = Closed([tab EXCEPT !.layers = Front(tab.layers)], "control")
      BY <2>9 DEF ClosesControl
    <3> QED
      BY <2>2, <3>1, ControlShuts
  <2>10. CASE OpensEditor
    BY <2>2, <2>10, EditorOpens DEF OpensEditor
  <2>11. CASE Saves
    <3>1. TRUE \in BOOLEAN /\ tab' = [tab EXCEPT !.busy = TRUE] /\ Top(tab) = "editor"
      BY <2>11 DEF Saves
    <3>2. "editor" \in ToSet(tab.layers)
      <4>1. tab.layers = OnDetail \/ tab.layers = Editing
        BY <2>2, <3>1, QuietIs, TopIs
      <4> QED
        BY <4>1, Holding
    <3> QED
      BY <2>2, <3>1, <3>2, InsideChanges
  <2>12. CASE Hides("detail")
    <3>1. Top(tab) = "detail" /\ tab' = [tab EXCEPT !.hiding = tab.hiding \union {"detail"}]
      BY <2>12 DEF Hides
    <3> QED
      BY <2>2, <3>1, DialogHides
  <2>13. CASE Hides("editor")
    <3>1. Top(tab) = "editor" /\ tab' = [tab EXCEPT !.hiding = tab.hiding \union {"editor"}]
      BY <2>13 DEF Hides
    <3> QED
      BY <2>2, <3>1, DialogHides
  <2>14. CASE ShowsMore
    BY <2>2, <2>14, MoreShown DEF ShowsMore
  <2>15. CASE Traverses(-1)
    <3>1. tab' = [tab EXCEPT !.going = <<Pressed>>,
                    !.astray = tab.astray \/ (-1 = 1 /\ \E k \in Keys : tab.entries[tab.at + 1][k] # 0 /\ ~Active(tab, k))]
      BY <2>15 DEF Traverses, Pressed
    <3>2. ~(-1 = 1)
      OBVIOUS
    <3>3. tab' = [tab EXCEPT !.going = <<Pressed>>, !.astray = FALSE]
      BY <3>1, <3>2
    <3>4. tab' = Setting(tab, <<Pressed>>, tab.astray)
      BY <3>3 DEF Setting
    <3> QED
      BY <2>2, <3>4, BackSetsOut
  <2>16. CASE Traverses(1)
    <3> DEFINE lost == tab.astray \/ \E k \in Keys : tab.entries[tab.at + 1][k] # 0 /\ ~Active(tab, k)
    <3>1. /\ tab.at < Len(tab.entries)
          /\ tab' = [tab EXCEPT !.going = <<Forward>>,
                    !.astray = tab.astray \/ (1 = 1 /\ \E k \in Keys : tab.entries[tab.at + 1][k] # 0 /\ ~Active(tab, k))]
      BY <2>16 DEF Traverses, Forward
    <3>2. tab' = Setting(tab, <<Forward>>, lost)
      BY <3>1 DEF Setting
    <3>3. lost \in BOOLEAN /\ (lost <=> \E k \in Keys : tab.entries[tab.at + 1][k] # 0 /\ ~Active(tab, k))
      OBVIOUS
    <3> HIDE DEF lost
    <3> QED
      BY <2>2, <3>1, <3>2, <3>3, ForwardSetsOut
  <2> QED
    BY <1>2, <2>3, <2>4, <2>5, <2>6, <2>7, <2>8, <2>9, <2>10, <2>11, <2>12, <2>13, <2>14, <2>15, <2>16 DEF HistoryUser
<1> QED
  BY <1>1, <1>2

LEMMA StepKeepsOrder ==
  ASSUME Orderly(tab), [HistoryNext]_historyVars
  PROVE  Orderly(tab')
<1>1. CASE UNCHANGED historyVars
  BY <1>1 DEF historyVars
<1>2. CASE HistoryNext
  <2>1. tab.astray = FALSE
    BY <1>2, WithinIs DEF HistoryNext, Orderly, Tabs
  <2>2. Resting => Quiet(tab)
    BY <2>1, OrderlyRests DEF Resting
  <2>3. CASE HistoryUser
    BY <2>1, <2>3, UsersStepKeepsOrder
  <2>4. CASE Lands
    BY <2>1, <2>4, LandingKeepsOrder
  <2>5. CASE HostShows
    <3>1. Quiet(tab) /\ tab.asked # NoNode /\ tab' = Shown([tab EXCEPT !.asked = NoNode], tab.asked)
      BY <2>2, <2>5 DEF HostShows
    <3>2. Calm(tab') /\ tab'.going = tab.going /\ SameRest(tab, tab')
      BY <3>1, QuietIs, HostShowsIt
    <3> QED
      BY <3>1, <3>2, QuietGoesOn
  <2>6. CASE Renders
    <3>1. Quiet(tab) /\ tab' = Updated(tab)
      BY <2>2, <2>6 DEF Renders
    <3>2. Calm(tab') /\ tab'.going = tab.going /\ SameRest(tab, tab')
      BY <3>1, QuietIs, RendersIt
    <3> QED
      BY <3>1, <3>2, QuietGoesOn
  <2>7. CASE DeviceLost
    BY <2>7, DeviceGone DEF DeviceLost
  <2>8. ASSUME NEW k \in Keys, Hidden(k) PROVE Orderly(tab')
    <3> DEFINE c == Closed(tab, k)
               g == Gone(c, k)
    <3>1. Quiet(tab) /\ k \in tab.hiding
      BY <2>2, <2>8 DEF Hidden
    <3>2. tab' = IF k = "detail" /\ tab.more = "asked"
                 THEN IF c.going # <<>> THEN [g EXCEPT !.more = "waits"] ELSE Navigated(g) ELSE g
      BY <2>8 DEF Hidden
    <3>3. k # "control"
      BY <3>1, QuietIs DEF Placed
    <3>4. CASE k = "detail"
      <4>1. /\ "detail" \in tab.hiding /\ c = Closed(tab, "detail") /\ g = Gone(c, "detail")
            /\ tab' = IF tab.more = "asked"
                      THEN IF c.going # <<>> THEN [g EXCEPT !.more = "waits"] ELSE Navigated(g) ELSE g
        BY <3>1, <3>2, <3>4
      <4> HIDE DEF c, g
      <4> QED
        BY <3>1, <4>1, DetailHidden
    <3>5. CASE k = "editor"
      <4>1. /\ "editor" \in tab.hiding /\ c = Closed(tab, "editor") /\ g = Gone(c, "editor") /\ tab' = g
        BY <3>1, <3>2, <3>5
      <4> HIDE DEF c, g
      <4> QED
        BY <3>1, <4>1, EditorHidden
    <3> QED
      BY <3>3, <3>4, <3>5, KeysOnly
  <2>9. ASSUME NEW ok \in BOOLEAN, EditorSaveEnds(ok) PROVE Orderly(tab')
    <3>1. /\ Quiet(tab) /\ tab.busy
          /\ tab' = [tab EXCEPT !.busy = FALSE, !.hiding = IF ok THEN tab.hiding \union {"editor"} ELSE tab.hiding,
                                !.astray = tab.astray \/ (ok /\ Top(tab) # "editor")]
      BY <2>2, <2>9 DEF EditorSaveEnds
    <3>2. tab.busy = TRUE
      BY <3>1, QuietIs DEF Tabs
    <3> QED
      BY <3>1, <3>2, SaveEnds
  <2> QED
    BY <1>2, <2>3, <2>4, <2>5, <2>6, <2>7, <2>8, <2>9 DEF HistoryNext
<1> QED
  BY <1>1, <1>2

(* The history is in order, at rest and under every traversal that is on its *)
(* way: each open dialog has its entries, in the order they opened, and what *)
(* is on its way will find them (dialog-history-controller.ts).              *)
THEOREM TabKeepsOrder == HistorySpec => []Orderly(tab)
<1>1. HistoryInit => Orderly(tab)
  BY StartsInOrder
<1>2. Orderly(tab) /\ [HistoryNext]_historyVars => Orderly(tab')
  BY StepKeepsOrder
<1>3. Orderly(tab)' <=> Orderly(tab')
  OBVIOUS
<1> QED
  BY <1>1, <1>2, <1>3, PTL DEF HistorySpec

LEMMA TopAnswers ==
  ASSUME NEW t, Quiet(t), t.hiding = {}, NEW k, k = Top(t), t.layers # <<>>
  PROVE  /\ k \in Keys /\ Size(t.ids, k) > 0 /\ t.entries[t.at][k] > 0
         /\ t.entries[t.at][k] # t.entries[t.at - 1][k]
<1>1. /\ t.ids \in Lists /\ t.entries \in Pages /\ t.newest \in Nat /\ t.layers \in Stacks
      /\ (\A l \in Keys : Size(t.ids, l) \in Nat)
      /\ Placed(t.layers, t.ids, t.hiding, t.node, t.asked) /\ Standing(t.layers, t.ids, t.hiding)
      /\ Numbered(t.ids, t.newest) /\ Path(t.entries, t.ids, t.layers, t.at)
  BY QuietIs, WithinIs DEF Sound, Bound, Book
<1>2. /\ k = "detail" => t.layers = Alone \/ t.layers = OnEditor
      /\ k = "control" => t.layers = WithControl \/ t.layers = Full
      /\ k = "editor" => t.layers = OnDetail \/ t.layers = Editing
  BY <1>1, TopIs
<1>3. k \in Keys /\ k \in ToSet(t.layers)
  <2>1. t.layers \in {Alone, WithControl, OnDetail, Editing, OnEditor, Full}
    BY <1>1 DEF Stacks
  <2>2. k = Last(t.layers)
    BY DEF Top
  <2> QED
    BY <2>1, <2>2, LastOf, Holding, KeysAre
<1>4. Size(t.ids, k) > 0
  BY <1>1, <1>3 DEF Standing
<1>5. Topmost(t.ids, t.layers, k)
  <2>1. CASE k = "detail"
    <3>1. "control" \notin ToSet(t.layers) /\ t.layers # OnDetail
      BY <1>2, <2>1, Holding, StacksDiffer
    <3>2. ~Covered(t.layers, t.ids)
      BY <1>1, <3>1, KeysAre DEF Covered, Placed
    <3> QED
      BY <1>1, <2>1, <3>2, DetailOnTop
  <2>2. CASE k = "control"
    <3>1. Shelved(t.layers, t.ids, t.hiding, t.node, t.asked)
      BY <1>1 DEF Shelved
    <3> QED
      BY <1>1, <1>4, <2>2, <3>1, ControlOnTop
  <2>3. CASE k = "editor"
    <3>1. "control" \notin ToSet(t.layers) /\ (t.layers = OnDetail \/ "detail" \notin ToSet(t.layers))
      BY <1>2, <2>3, Holding
    <3>2. Size(t.ids, "control") = 0 /\ (t.layers = OnDetail \/ Size(t.ids, "detail") = 0)
      BY <1>1, <3>1, KeysAre DEF Placed
    <3> QED
      BY <1>1, <2>3, <3>2, EditorOnTop
  <2> QED
    BY <1>3, <2>1, <2>2, <2>3, KeysOnly
<1> DEFINE n == Size(t.ids, k)
<1>6. t.entries[t.at][k] = t.ids[k][n]
  BY <1>1, <1>3, <1>4, PathTop
<1>7. t.entries[t.at - 1][k] = IF n = 1 THEN 0 ELSE t.ids[k][n - 1]
  BY <1>1, <1>3, <1>4, <1>5, PathBelow
<1>8. n \in Nat /\ n > 0
  BY <1>1, <1>3, <1>4
<1>9. /\ (\A i \in 1..n : t.ids[k][i] \in 1..t.newest)
      /\ (\A i, j \in 1..n : t.ids[k][i] = t.ids[k][j] => i = j)
  BY <1>1, <1>3 DEF Numbered
<1> HIDE DEF n
<1>10. t.ids[k][n] > 0
  BY <1>1, <1>8, <1>9
<1>11. n # 1 => t.ids[k][n - 1] # t.ids[k][n]
  <2>1. n # 1 => n - 1 \in 1..n /\ n \in 1..n /\ n - 1 # n
    BY <1>8
  <2> QED
    BY <1>9, <2>1
<1> QED
  BY <1>3, <1>4, <1>6, <1>7, <1>10, <1>11

LEMMA InOrderHolds ==
  ASSUME Orderly(tab)
  PROVE  HistoryInvariant
<1>1. /\ tab \in Tabs /\ tab.at \in 1..Len(tab.entries) /\ tab.hiding \subseteq ToSet(tab.layers) /\ tab.layers \in Stacks
      /\ tab.ids \in Lists /\ tab.entries \in Pages
  BY WithinIs DEF Orderly
<1>2. HistoryTypeOK
  BY <1>1, Holds DEF HistoryTypeOK, Tabs
<1>3. ASSUME ~tab.astray PROVE OneBackEach /\ LeavesByHand
  <2>1. tab.astray = FALSE
    BY <1>1, <1>3 DEF Tabs
  <2>2. LeavesByHand
    BY <2>1 DEF Orderly, LeftWell, LeavesByHand
  <2>3. ASSUME Resting, tab.hiding = {}, tab.asked = NoNode
        PROVE  /\ \A k \in Keys : k \in ToSet(tab.layers) <=> Active(tab, k)
               /\ tab.at - 1 = Len(tab.ids["detail"]) + Len(tab.ids["control"]) + Len(tab.ids["editor"])
               /\ \A k \in ToSet(tab.layers) : Landing(tab)[k] = Last(tab.ids[k])
               /\ tab.layers # <<>> => Landing(tab)[Top(tab)] > 0
                                       /\ Landing(tab)[Top(tab)] # tab.entries[tab.at - 1][Top(tab)]
               /\ Len(tab.trail) = Len(tab.ids["detail"])
               /\ tab.node # NoNode => tab.node = Last(tab.trail)
    <3>1. Quiet(tab)
      BY <2>1, <2>3, OrderlyRests DEF Resting
    <3>2. /\ (\A k \in Keys : Size(tab.ids, k) \in Nat)
          /\ Placed(tab.layers, tab.ids, tab.hiding, tab.node, tab.asked)
          /\ Standing(tab.layers, tab.ids, tab.hiding)
          /\ Trailed(tab.layers, tab.ids, tab.trail, tab.node, tab.asked, tab.returning)
          /\ Path(tab.entries, tab.ids, tab.layers, tab.at)
      BY <3>1, QuietIs DEF Sound, Bound, Book
    <3>3. ASSUME NEW k \in Keys PROVE k \in ToSet(tab.layers) <=> Size(tab.ids, k) > 0
      BY <2>3, <3>2 DEF Placed, Standing
    <3>4. \A k \in Keys : k \in ToSet(tab.layers) <=> Active(tab, k)
      BY <1>1, <3>3, ActiveIs
    <3>5. tab.at - 1 = Len(tab.ids["detail"]) + Len(tab.ids["control"]) + Len(tab.ids["editor"])
      BY <3>2 DEF Path, Total, Size
    <3>6. ASSUME NEW k \in ToSet(tab.layers) PROVE Landing(tab)[k] = Last(tab.ids[k])
      <4>1. k \in Keys
        BY <1>1, <3>6, Holds
      <4>2. Size(tab.ids, k) # 0
        BY <3>2, <3>3, <4>1
      <4>3. tab.entries[tab.at][k] = tab.ids[k][Size(tab.ids, k)]
        BY <1>1, <3>2, <4>1, <4>2, PathTop
      <4> QED
        BY <4>3 DEF Landing, Last, Size
    <3>7. ASSUME tab.layers # <<>>
          PROVE  Landing(tab)[Top(tab)] > 0 /\ Landing(tab)[Top(tab)] # tab.entries[tab.at - 1][Top(tab)]
      <4> DEFINE k == Top(tab)
      <4>1. k = Top(tab)
        OBVIOUS
      <4> HIDE DEF k
      <4>2. tab.entries[tab.at][k] > 0 /\ tab.entries[tab.at][k] # tab.entries[tab.at - 1][k]
        BY <2>3, <3>1, <3>7, <4>1, TopAnswers
      <4> QED
        BY <4>1, <4>2 DEF Landing
    <3>8. Len(tab.trail) = Len(tab.ids["detail"]) /\ (tab.node # NoNode => tab.node = Last(tab.trail))
      <4>1. Len(tab.ids["detail"]) = Size(tab.ids, "detail") /\ Size(tab.ids, "detail") \in Nat
        BY <3>2, KeysAre DEF Size
      <4>2. CASE Size(tab.ids, "detail") > 0
        BY <2>3, <3>2, <4>1, <4>2 DEF Trailed
      <4>3. CASE Size(tab.ids, "detail") = 0
        <5>1. "detail" \notin ToSet(tab.layers)
          BY <3>3, <4>3, KeysAre
        <5>2. tab.node = NoNode
          BY <3>2, <5>1 DEF Placed
        <5>3. tab.trail = <<>>
          BY <3>2, <5>2 DEF Trailed
        <5> QED
          BY <4>1, <4>3, <5>2, <5>3
      <4> QED
        BY <4>1, <4>2, <4>3
    <3> QED
      BY <3>4, <3>5, <3>6, <3>7, <3>8
  <2>4. OneBackEach
    BY <2>3 DEF OneBackEach
  <2> QED
    BY <2>2, <2>4
<1> QED
  BY <1>2, <1>3 DEF HistoryInvariant

(* Whatever is opened, asked, saved, shown more of, lost, pressed back or    *)
(* forward: at rest the next Back is the top dialog's and one more leaves    *)
(* each of the others, only the user's Back leaves the page, with nothing    *)
(* kept open over it, and Show more leaves from where the detail was opened  *)
(* (_handlePopState, push, advance, close and release of                     *)
(* dialog-history-controller.ts).                                            *)
THEOREM HistoryHolds == HistorySpec => []HistoryInvariant
<1>1. Orderly(tab) => HistoryInvariant
  BY InOrderHolds
<1> QED
  BY <1>1, TabKeepsOrder, PTL

(* No press of Back or Forward takes two dialogs away, though its popstate   *)
(* reaches every one of them: those that are not in front find their own     *)
(* entry landed on, sleep through it, or are closed already                  *)
(* (_handlePopState of dialog-history-controller.ts).                        *)
THEOREM BackTakesOneHolds == HistorySpec => BackTakesOne
<1>1. ASSUME Orderly(tab), [HistoryNext]_historyVars
      PROVE  [\A k, l \in StandingDialogs(tab) \ StandingDialogs(tab)' :
                Lands /\ Head(tab.going).byUser /\ ~tab'.astray => k = l]_historyVars
  <2>1. ASSUME HistoryNext,
               NEW k \in StandingDialogs(tab) \ StandingDialogs(tab'), NEW l \in StandingDialogs(tab) \ StandingDialogs(tab'),
               Lands, Head(tab.going).byUser
        PROVE  k = l
    <3>1. tab.astray = FALSE /\ tab.going \in Seq(Trips) /\ tab.going # <<>>
      BY <1>1, <2>1, WithinIs DEF HistoryNext, Orderly, Tabs, Lands
    <3>2. Head(tab.going) \in Trips
      BY <3>1
    <3>3. Head(tab.going).byUser = TRUE
      BY <2>1, <3>2 DEF Trips
    <3>4. TakesOne(tab, tab')
      BY <1>1, <2>1, <3>1, <3>3, LandingKeepsOrder
    <3> QED
      BY <2>1, <3>4 DEF TakesOne
  <2>2. StandingDialogs(tab)' = StandingDialogs(tab')
    BY DEF StandingDialogs
  <2> QED
    BY <1>1, <2>1, <2>2
<1> QED
  BY <1>1, TabKeepsOrder, PTL DEF HistorySpec, BackTakesOne
==============================================================================
