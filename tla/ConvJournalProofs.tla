-------------------------- MODULE ConvJournalProofs --------------------------
(***************************************************************************)
(* The journal of a direct conversation, for any members, devices, number  *)
(* of requests, messages, edits and rows.                                  *)
(*                                                                         *)
(* Each operation is looked at twice: what it does to the state            *)
(* (JournalInv), and what each person then sees against the rows he gets   *)
(* (Logged).  JournalInv has to say that pins and rows name messages that  *)
(* are there: a new message would else show through an old pin.            *)
(***************************************************************************)
EXTENDS ConvJournal, SequenceTheorems, FiniteSetTheorems, NaturalsInduction, WellFoundedInduction, TLAPS

Messages ==
    [author : Users, client : Clients \cup {NoClient}, ver : 0 .. MaxVer,
     deleted : BOOLEAN, hidden : SUBSET Users, withheld : BOOLEAN, service : BOOLEAN]

JournalRows == [kind : {"msg", "read", "draft", "pin"}, msg : Nat]

\* A row names a message exactly when it is about one, which is there and not
\* withheld from the person.
FineRow(u, row) ==
    /\ row.kind = "msg" => row.msg \in Keys /\ (msgs[row.msg].withheld => msgs[row.msg].author = u)
    /\ row.kind # "msg" => row.msg = 0

InPlace ==
    /\ Len(msgs) <= MaxMsgs
    /\ \A p \in pins : p.msg \in Keys
    /\ \A u \in Users : readKey[u] <= Len(msgs)
    /\ \A r \in Requests : req[r].stage = "sent" => req[r].key \in Keys

RowsInOrder ==
    \A u \in Users :
        /\ minPts[u] <= pts[u]
        /\ DOMAIN rows[u] \subseteq 1 .. pts[u]
        /\ \A p \in DOMAIN rows[u] : FineRow(u, rows[u][p])

JournalInv == TypeOK /\ InPlace /\ RowsInOrder /\ PinsAreVisible /\ NoDuplicateSend

\* The journal of `u` does what a journal may do.
Logged(u) == UNCHANGED Log(u)!logVars \/ Log(u)!LogNext \/ TicksUntold(u)

----------------------------------------------------------------------------
(* Rows.                                                                   *)

Tells(list, row) == \E i \in DOMAIN list : list[i] = row

LEMMA OneRowTells ==
    ASSUME NEW row \in JournalRows
    PROVE  <<row>> \in Seq(JournalRows) /\ <<row>> # <<>> /\ \A x : Tells(<<row>>, x) <=> x = row
<1>1. <<row>> \in Seq(JournalRows) /\ DOMAIN <<row>> = {1} /\ <<row>>[1] = row
  OBVIOUS
<1> QED
  BY <1>1 DEF Tells

LEMMA NoRowTells == <<>> \in Seq(JournalRows) /\ \A x : ~ Tells(<<>>, x)
<1>1. <<>> \in Seq(JournalRows) /\ DOMAIN <<>> = {}
  OBVIOUS
<1> QED
  BY <1>1 DEF Tells

LEMMA RowShapes ==
    /\ PinRow = <<[kind |-> "pin", msg |-> 0]>> /\ [kind |-> "pin", msg |-> 0] \in JournalRows
    /\ \A k \in Nat : MsgRow(k) = <<[kind |-> "msg", msg |-> k]>> /\ [kind |-> "msg", msg |-> k] \in JournalRows
    /\ \A kind \in {"read", "draft"} : OwnRow(kind) = <<[kind |-> kind, msg |-> 0]>> /\ [kind |-> kind, msg |-> 0] \in JournalRows
BY DEF PinRow, MsgRow, OwnRow, JournalRows

LEMMA BothTell ==
    ASSUME NEW s \in Seq(JournalRows), NEW t \in Seq(JournalRows)
    PROVE  /\ s \o t \in Seq(JournalRows)
           /\ \A x : Tells(s \o t, x) <=> Tells(s, x) \/ Tells(t, x)
<1>1. /\ s \o t \in Seq(JournalRows)
      /\ Len(s \o t) = Len(s) + Len(t)
      /\ \A i \in 1 .. Len(s) + Len(t) : (s \o t)[i] = IF i <= Len(s) THEN s[i] ELSE t[i - Len(s)]
  BY ConcatProperties
<1>2. /\ Len(s) \in Nat /\ Len(t) \in Nat
      /\ DOMAIN s = 1 .. Len(s) /\ DOMAIN t = 1 .. Len(t) /\ DOMAIN (s \o t) = 1 .. Len(s) + Len(t)
  BY <1>1, LenProperties
<1>3. ASSUME NEW x, Tells(s \o t, x) PROVE Tells(s, x) \/ Tells(t, x)
  <2>1. PICK i \in 1 .. Len(s) + Len(t) : (s \o t)[i] = x
    BY <1>2, <1>3 DEF Tells
  <2>2. CASE i <= Len(s)
    <3>1. i \in DOMAIN s /\ s[i] = x
      BY <1>1, <1>2, <2>1, <2>2
    <3> QED
      BY <3>1 DEF Tells
  <2>3. CASE ~ (i <= Len(s))
    <3>1. i - Len(s) \in DOMAIN t /\ t[i - Len(s)] = x
      BY <1>1, <1>2, <2>1, <2>3
    <3> QED
      BY <3>1 DEF Tells
  <2> QED
    BY <2>2, <2>3
<1>4. ASSUME NEW x, Tells(s, x) PROVE Tells(s \o t, x)
  <2>1. PICK i \in 1 .. Len(s) : s[i] = x
    BY <1>2, <1>4 DEF Tells
  <2>2. i \in DOMAIN (s \o t) /\ (s \o t)[i] = x
    BY <1>1, <1>2, <2>1
  <2> QED
    BY <2>2 DEF Tells
<1>5. ASSUME NEW x, Tells(t, x) PROVE Tells(s \o t, x)
  <2>1. PICK i \in 1 .. Len(t) : t[i] = x
    BY <1>2, <1>5 DEF Tells
  <2>2. i + Len(s) \in DOMAIN (s \o t) /\ (s \o t)[i + Len(s)] = x
    <3>1. i + Len(s) \in 1 .. Len(s) + Len(t) /\ ~ (i + Len(s) <= Len(s)) /\ (i + Len(s)) - Len(s) = i
      BY <1>2
    <3> QED
      BY <1>1, <1>2, <2>1, <3>1
  <2> QED
    BY <2>2 DEF Tells
<1> QED
  BY <1>1, <1>3, <1>4, <1>5

LEMMA ToSome ==
    ASSUME NEW us, NEW list \in Seq(JournalRows)
    PROVE  /\ To(us, list) \in [Users -> Seq(JournalRows)]
           /\ \A u \in Users : /\ u \in us => To(us, list)[u] = list
                               /\ u \notin us => To(us, list)[u] = <<>>
BY DEF To

LEMMA OneThenOther ==
    ASSUME NEW first \in [Users -> Seq(JournalRows)], NEW second \in [Users -> Seq(JournalRows)]
    PROVE  /\ Then(first, second) \in [Users -> Seq(JournalRows)]
           /\ \A u \in Users : \A x : Tells(Then(first, second)[u], x) <=> Tells(first[u], x) \/ Tells(second[u], x)
<1>1. \A u \in Users : Then(first, second)[u] = first[u] \o second[u]
  BY DEF Then
<1>2. \A u \in Users : first[u] \o second[u] \in Seq(JournalRows)
  BY BothTell
<1>3. Then(first, second) \in [Users -> Seq(JournalRows)]
  BY <1>2 DEF Then
<1>4. ASSUME NEW u \in Users, NEW x PROVE Tells(Then(first, second)[u], x) <=> Tells(first[u], x) \/ Tells(second[u], x)
  <2>1. first[u] \in Seq(JournalRows) /\ second[u] \in Seq(JournalRows)
    OBVIOUS
  <2>2. Tells(first[u] \o second[u], x) <=> Tells(first[u], x) \/ Tells(second[u], x)
    BY <2>1, BothTell, Zenon
  <2> QED
    BY <1>1, <2>2
<1> QED
  BY <1>3, <1>4

\* What the two forms of rows the operations write come to.
LEMMA RowsTo ==
    ASSUME NEW us, NEW row \in JournalRows
    PROVE  /\ To(us, <<row>>) \in [Users -> Seq(JournalRows)]
           /\ \A u \in Users : \A x : Tells(To(us, <<row>>)[u], x) <=> u \in us /\ x = row
<1>1. \A x : Tells(<<row>>, x) <=> x = row
  BY OneRowTells
<1>2. <<row>> \in Seq(JournalRows)
  BY OneRowTells
<1>3. To(us, <<row>>) \in [Users -> Seq(JournalRows)]
  BY <1>2, ToSome
<1>4. ASSUME NEW u \in Users, NEW x PROVE Tells(To(us, <<row>>)[u], x) <=> u \in us /\ x = row
  <2>1. CASE u \in us
    <3>1. To(us, <<row>>)[u] = <<row>>
      BY <1>2, <2>1, ToSome
    <3> QED
      BY <1>1, <2>1, <3>1
  <2>2. CASE u \notin us
    <3>1. To(us, <<row>>)[u] = <<>>
      BY <1>2, <2>2, ToSome
    <3>2. ~ Tells(<<>>, x)
      BY NoRowTells
    <3> QED
      BY <2>2, <3>1, <3>2
  <2> QED
    BY <2>1, <2>2
<1> QED
  BY <1>3, <1>4

\* `us` are told `row`, `vs` are told `other`.
TellsBoth(new, us, row, vs, other) ==
    /\ new \in [Users -> Seq(JournalRows)]
    /\ \A u \in Users : \A x : Tells(new[u], x) <=> (u \in us /\ x = row) \/ (u \in vs /\ x = other)

LEMMA RowsToBoth ==
    ASSUME NEW us, NEW row \in JournalRows, NEW vs, NEW other \in JournalRows,
           NEW new, new = Then(To(us, <<row>>), To(vs, <<other>>))
    PROVE  TellsBoth(new, us, row, vs, other)
<1> DEFINE first == To(us, <<row>>)
           second == To(vs, <<other>>)
<1>1. first \in [Users -> Seq(JournalRows)] /\ \A u \in Users : \A x : Tells(first[u], x) <=> u \in us /\ x = row
  BY RowsTo
<1>2. second \in [Users -> Seq(JournalRows)] /\ \A u \in Users : \A x : Tells(second[u], x) <=> u \in vs /\ x = other
  BY RowsTo
<1> HIDE DEF first, second
<1>3. /\ Then(first, second) \in [Users -> Seq(JournalRows)]
      /\ \A u \in Users : \A x : Tells(Then(first, second)[u], x) <=> Tells(first[u], x) \/ Tells(second[u], x)
  BY <1>1, <1>2, OneThenOther
<1>4. \A u \in Users : \A x : Tells(Then(first, second)[u], x) <=> (u \in us /\ x = row) \/ (u \in vs /\ x = other)
  BY <1>1, <1>2, <1>3
<1> QED
  BY <1>3, <1>4 DEF first, second, TellsBoth

\* The rows about a message and the pins of it, in either order.
LEMMA RowsOfMessage ==
    ASSUME NEW k \in Nat, NEW us, NEW vs, NEW new,
           \/ new = Then(To(us, MsgRow(k)), To(vs, PinRow))
           \/ new = Then(To(vs, PinRow), To(us, MsgRow(k)))
    PROVE  TellsBoth(new, us, [kind |-> "msg", msg |-> k], vs, [kind |-> "pin", msg |-> 0])
<1>1. PICK row \in JournalRows : row = [kind |-> "msg", msg |-> k] /\ MsgRow(k) = <<row>>
  BY RowShapes
<1>2. PICK other \in JournalRows : other = [kind |-> "pin", msg |-> 0] /\ PinRow = <<other>>
  BY RowShapes
<1>3. CASE new = Then(To(us, MsgRow(k)), To(vs, PinRow))
  <2>1. new = Then(To(us, <<row>>), To(vs, <<other>>))
    BY <1>1, <1>2, <1>3
  <2>2. TellsBoth(new, us, row, vs, other)
    BY <2>1, RowsToBoth, Zenon
  <2> QED
    BY <1>1, <1>2, <2>2
<1>4. CASE new = Then(To(vs, PinRow), To(us, MsgRow(k)))
  <2>1. new = Then(To(vs, <<other>>), To(us, <<row>>))
    BY <1>1, <1>2, <1>4
  <2>2. TellsBoth(new, vs, other, us, row)
    BY <2>1, RowsToBoth, Zenon
  <2> QED
    BY <1>1, <1>2, <2>2 DEF TellsBoth
<1> QED
  BY <1>3, <1>4

LEMMA RowsOfMessageAlone ==
    ASSUME NEW k \in Nat, NEW us, NEW new, new = To(us, MsgRow(k))
    PROVE  TellsBoth(new, us, [kind |-> "msg", msg |-> k], {}, [kind |-> "pin", msg |-> 0])
<1>1. PICK row \in JournalRows : row = [kind |-> "msg", msg |-> k] /\ MsgRow(k) = <<row>>
  BY RowShapes
<1>2. new = To(us, <<row>>)
  BY <1>1
<1>3. To(us, <<row>>) \in [Users -> Seq(JournalRows)]
      /\ \A u \in Users : \A x : Tells(To(us, <<row>>)[u], x) <=> u \in us /\ x = row
  BY RowsTo, Zenon
<1> QED
  BY <1>1, <1>2, <1>3 DEF TellsBoth

LEMMA RowsOfPinsAlone ==
    ASSUME NEW k, NEW vs, NEW new, new = To(vs, PinRow)
    PROVE  TellsBoth(new, {}, [kind |-> "msg", msg |-> k], vs, [kind |-> "pin", msg |-> 0])
<1>1. PICK row \in JournalRows : row = [kind |-> "pin", msg |-> 0] /\ PinRow = <<row>>
  BY RowShapes
<1>2. new = To(vs, <<row>>)
  BY <1>1
<1>3. To(vs, <<row>>) \in [Users -> Seq(JournalRows)]
      /\ \A u \in Users : \A x : Tells(To(vs, <<row>>)[u], x) <=> u \in vs /\ x = row
  BY RowsTo, Zenon
<1> QED
  BY <1>1, <1>2, <1>3 DEF TellsBoth

\* What is never changed in a message.
MessagesStay ==
    \A k \in Keys : /\ k \in Keys'
                    /\ msgs'[k].author = msgs[k].author
                    /\ msgs'[k].withheld = msgs[k].withheld

LEMMA FineStaysFine ==
    ASSUME MessagesStay, NEW u, NEW row, FineRow(u, row)
    PROVE  FineRow(u, row)'
BY DEF MessagesStay, FineRow

LEMMA JournalWrites ==
    ASSUME TypeOK, RowsInOrder, NEW new \in [Users -> Seq(JournalRows)], Journal(new)
    PROVE  /\ pts' \in [Users -> Nat] /\ minPts' = minPts /\ DOMAIN rows' = Users
           /\ \A u \in Users :
                /\ pts'[u] = pts[u] + Len(new[u])
                /\ DOMAIN rows'[u] = DOMAIN rows[u] \cup (pts[u] + 1) .. pts'[u]
                /\ \A p \in DOMAIN rows[u] : p \in 1 .. pts[u] /\ rows'[u][p] = rows[u][p]
                /\ \A i \in 1 .. Len(new[u]) : rows'[u][pts[u] + i] = new[u][i]
                /\ \A p \in (pts[u] + 1) .. pts'[u] : Tells(new[u], rows'[u][p])
                /\ \A x : Tells(new[u], x) => x \in JournalRows
<1>1. /\ pts' = [u \in Users |-> pts[u] + Len(new[u])]
      /\ rows' = [u \in Users |->
                  [p \in DOMAIN rows[u] \cup (pts[u] + 1) .. (pts[u] + Len(new[u])) |->
                     IF p > pts[u] THEN new[u][p - pts[u]] ELSE rows[u][p]]]
      /\ minPts' = minPts
  BY DEF Journal
<1>2. \A u \in Users : Len(new[u]) \in Nat /\ DOMAIN new[u] = 1 .. Len(new[u]) /\ new[u] \in Seq(JournalRows)
  BY LenProperties
<1>3. pts \in [Users -> Nat] /\ \A u \in Users : DOMAIN rows[u] \subseteq 1 .. pts[u]
  BY DEF TypeOK, RowsInOrder
<1>4. pts' \in [Users -> Nat] /\ DOMAIN rows' = Users
  BY <1>1, <1>2, <1>3
<1>5. ASSUME NEW u \in Users
      PROVE  /\ pts'[u] = pts[u] + Len(new[u])
             /\ DOMAIN rows'[u] = DOMAIN rows[u] \cup (pts[u] + 1) .. pts'[u]
             /\ \A p \in DOMAIN rows[u] : p \in 1 .. pts[u] /\ rows'[u][p] = rows[u][p]
             /\ \A i \in 1 .. Len(new[u]) : rows'[u][pts[u] + i] = new[u][i]
             /\ \A p \in (pts[u] + 1) .. pts'[u] : Tells(new[u], rows'[u][p])
             /\ \A x : Tells(new[u], x) => x \in JournalRows
  <2>1. /\ pts'[u] = pts[u] + Len(new[u])
        /\ rows'[u] = [p \in DOMAIN rows[u] \cup (pts[u] + 1) .. (pts[u] + Len(new[u])) |->
                         IF p > pts[u] THEN new[u][p - pts[u]] ELSE rows[u][p]]
    BY <1>1
  <2>2. pts[u] \in Nat /\ Len(new[u]) \in Nat /\ DOMAIN rows[u] \subseteq 1 .. pts[u]
    BY <1>2, <1>3
  <2>3. DOMAIN rows'[u] = DOMAIN rows[u] \cup (pts[u] + 1) .. pts'[u]
    BY <2>1
  <2>4. ASSUME NEW p \in DOMAIN rows[u] PROVE p \in 1 .. pts[u] /\ rows'[u][p] = rows[u][p]
    <3>1. p \in 1 .. pts[u] /\ ~ (p > pts[u])
      BY <2>2
    <3> QED
      BY <2>1, <3>1
  <2>5. ASSUME NEW i \in 1 .. Len(new[u]) PROVE rows'[u][pts[u] + i] = new[u][i]
    <3>1. pts[u] + i \in (pts[u] + 1) .. (pts[u] + Len(new[u])) /\ pts[u] + i > pts[u] /\ (pts[u] + i) - pts[u] = i
      BY <2>2
    <3> QED
      BY <2>1, <3>1
  <2>6. ASSUME NEW p \in (pts[u] + 1) .. pts'[u] PROVE Tells(new[u], rows'[u][p])
    <3>1. p - pts[u] \in 1 .. Len(new[u]) /\ pts[u] + (p - pts[u]) = p
      BY <2>1, <2>2
    <3>2. rows'[u][p] = new[u][p - pts[u]]
      BY <2>5, <3>1
    <3> QED
      BY <1>2, <3>1, <3>2 DEF Tells
  <2>7. ASSUME NEW x, Tells(new[u], x) PROVE x \in JournalRows
    BY <1>2, <2>7, ElementOfSeq DEF Tells
  <2> QED
    BY <2>1, <2>3, <2>4, <2>5, <2>6, <2>7
<1> QED
  BY <1>1, <1>4, <1>5

\* The journal stays in order when the new rows are fine.
LEMMA RowsKept ==
    ASSUME JournalInv, MessagesStay, NEW new \in [Users -> Seq(JournalRows)], Journal(new),
           \A u \in Users : \A row : Tells(new[u], row) => FineRow(u, row)'
    PROVE  /\ RowsInOrder' /\ pts' \in [Users -> Nat] /\ minPts' \in [Users -> Nat] /\ DOMAIN rows' = Users
           /\ \A u \in Users : rows'[u] \in [DOMAIN rows'[u] -> JournalRows]
<1>0. TypeOK /\ RowsInOrder
  BY DEF JournalInv
<1>1. /\ pts \in [Users -> Nat] /\ minPts \in [Users -> Nat]
      /\ \A u \in Users : rows[u] \in [DOMAIN rows[u] -> JournalRows]
  BY <1>0 DEF TypeOK, JournalRows
<1>2. /\ pts' \in [Users -> Nat] /\ minPts' = minPts /\ DOMAIN rows' = Users
  BY <1>0, JournalWrites
<1>3. ASSUME NEW u \in Users
      PROVE  /\ minPts'[u] <= pts'[u]
             /\ DOMAIN rows'[u] \subseteq 1 .. pts'[u]
             /\ \A p \in DOMAIN rows'[u] : FineRow(u, rows[u][p])'
             /\ rows'[u] \in [DOMAIN rows'[u] -> JournalRows]
  <2>1. /\ pts'[u] = pts[u] + Len(new[u])
        /\ DOMAIN rows'[u] = DOMAIN rows[u] \cup (pts[u] + 1) .. pts'[u]
        /\ \A p \in DOMAIN rows[u] : p \in 1 .. pts[u] /\ rows'[u][p] = rows[u][p]
        /\ \A p \in (pts[u] + 1) .. pts'[u] : Tells(new[u], rows'[u][p])
        /\ \A x : Tells(new[u], x) => x \in JournalRows
    BY <1>0, JournalWrites
  <2>2. Len(new[u]) \in Nat /\ pts[u] \in Nat /\ minPts[u] \in Nat /\ minPts[u] <= pts[u]
    BY <1>0, <1>1, LenProperties DEF RowsInOrder
  <2>3. minPts'[u] <= pts'[u]
    BY <1>2, <2>1, <2>2
  <2>4. DOMAIN rows'[u] \subseteq 1 .. pts'[u]
    BY <2>1, <2>2
  <2>5. ASSUME NEW p \in DOMAIN rows'[u] PROVE FineRow(u, rows[u][p])' /\ rows'[u][p] \in JournalRows
    <3>1. CASE p \in DOMAIN rows[u]
      <4>1. FineRow(u, rows[u][p]) /\ rows[u][p] \in JournalRows /\ rows'[u][p] = rows[u][p]
        BY <1>0, <1>1, <2>1, <3>1 DEF RowsInOrder
      <4>2. PICK x : x = rows[u][p]
        OBVIOUS
      <4>3. FineRow(u, x)'
        BY <4>1, <4>2, FineStaysFine
      <4> QED
        BY <4>1, <4>2, <4>3 DEF FineRow
    <3>2. CASE p \in (pts[u] + 1) .. pts'[u]
      <4>1. PICK x : x = rows'[u][p]
        OBVIOUS
      <4>2. FineRow(u, x)'
        BY <2>1, <3>2, <4>1
      <4> QED
        BY <2>1, <3>2, <4>1, <4>2 DEF FineRow
    <3> QED
      BY <2>1, <3>1, <3>2
  <2>6. \E D, f : rows'[u] = [p \in D |-> f[p]]
    <3>1. rows'[u] = [p \in DOMAIN rows[u] \cup (pts[u] + 1) .. (pts[u] + Len(new[u])) |->
                     IF p > pts[u] THEN new[u][p - pts[u]] ELSE rows[u][p]]
      BY DEF Journal
    <3> DEFINE D == DOMAIN rows[u] \cup (pts[u] + 1) .. (pts[u] + Len(new[u]))
               f == [p \in D |-> IF p > pts[u] THEN new[u][p - pts[u]] ELSE rows[u][p]]
    <3>2. f = [p \in D |-> f[p]]
      OBVIOUS
    <3> QED
      BY <3>1, <3>2
  <2>7. rows'[u] = [p \in DOMAIN rows'[u] |-> rows'[u][p]]
    BY <2>6
  <2>8. rows'[u] \in [DOMAIN rows'[u] -> JournalRows]
    BY <2>5, <2>7
  <2> QED
    BY <2>3, <2>4, <2>5, <2>8
<1> QED
  BY <1>1, <1>2, <1>3 DEF RowsInOrder

LEMMA RowsUntouched ==
    ASSUME JournalInv, MessagesStay, UNCHANGED journalVars
    PROVE  /\ RowsInOrder' /\ pts' \in [Users -> Nat] /\ minPts' \in [Users -> Nat] /\ DOMAIN rows' = Users
           /\ \A u \in Users : rows'[u] \in [DOMAIN rows'[u] -> JournalRows]
<1>1. /\ pts \in [Users -> Nat] /\ minPts \in [Users -> Nat] /\ DOMAIN rows = Users
      /\ \A u \in Users : rows[u] \in [DOMAIN rows[u] -> JournalRows]
  BY DEF JournalInv, TypeOK, JournalRows
<1>2. ASSUME NEW u \in Users, NEW p \in DOMAIN rows[u] PROVE FineRow(u, rows[u][p])'
  <2>1. PICK x : x = rows[u][p]
    OBVIOUS
  <2>2. FineRow(u, x)'
    BY <2>1, FineStaysFine DEF JournalInv, RowsInOrder
  <2> QED
    BY <2>1, <2>2 DEF FineRow, journalVars
<1>3. RowsInOrder'
  BY <1>2 DEF JournalInv, RowsInOrder, journalVars
<1> QED
  BY <1>1, <1>3 DEF journalVars

----------------------------------------------------------------------------
(* How far the peer has read, as a member sees it.                         *)

LEMMA MessagesTyped ==
    ASSUME TypeOK
    PROVE  /\ msgs \in Seq(Messages) /\ Len(msgs) \in Nat /\ Keys = 1 .. Len(msgs)
           /\ \A k \in Keys : k \in Nat /\ msgs[k] \in Messages
<1>1. msgs \in Seq(Messages)
  BY DEF TypeOK, Messages
<1> QED
  BY <1>1, LenProperties, ElementOfSeq DEF Keys

LEMMA Typed ==
    ASSUME TypeOK
    PROVE  /\ msgs \in Seq(Messages) /\ readKey \in [Users -> Nat] /\ marked \in [Users -> BOOLEAN]
           /\ archived \in [Users -> BOOLEAN] /\ pins \subseteq [user : Users, msg : Nat, both : BOOLEAN]
           /\ blocks \subseteq Users \X Users /\ blockedAt \in [Users \X Users -> Nat]
           /\ pts \in [Users -> Nat] /\ minPts \in [Users -> Nat] /\ DOMAIN rows = Users
           /\ \A u \in Users : rows[u] \in [DOMAIN rows[u] -> JournalRows]
           /\ req \in [Requests -> RequestStates]
BY DEF TypeOK, Messages, JournalRows

LEMMA AnyoneHasAPeer ==
    ASSUME NEW u \in Users
    PROVE  Peer(u) \in Users /\ Peer(u) # u
<1>1. \E v \in Users : v # u
  BY ConvAssumption
<1> QED
  BY <1>1 DEF Peer

LEMMA Smallest ==
    ASSUME NEW T, T \subseteq Nat, T # {}
    PROVE  \E n \in T : \A k \in T : n <= k
<1> DEFINE Less == OpToRel(<, Nat)
<1>1. \A k, n \in Nat : k < n => <<k, n>> \in Less
  BY DEF OpToRel
<1>2. IsWellFoundedOn(Less, Nat)
  BY NatLessThanWellFounded
<1> HIDE DEF Less
<1>3. PICK n \in T : \A k \in T : ~ (<<k, n>> \in Less)
  BY <1>2, WFMin, Zenon
<1>4. ASSUME NEW k \in T PROVE n <= k
  <2>1. ~ (k < n) /\ k \in Nat /\ n \in Nat
    BY <1>1, <1>3
  <2> QED
    BY <2>1
<1> QED
  BY <1>4

\* What the peer of `u` keeps `u` from seeing as read, as long as he blocks him.
Kept(u) == {k \in Keys : /\ <<Peer(u), u>> \in blocks
                         /\ msgs[k].author = u /\ msgs[k].withheld
                         /\ k > blockedAt[<<Peer(u), u>>]}

\* The mark is the highest one below everything kept.
ReadMarks ==
    \A u \in Users :
        /\ PeerRead(u) \in Nat /\ PeerRead(u) <= readKey[Peer(u)]
        /\ \A k \in Kept(u) : PeerRead(u) < k
        /\ \A x \in Nat : x <= readKey[Peer(u)] /\ (\A k \in Kept(u) : x < k) => x <= PeerRead(u)

\* The types it needs.
MarkTypes == msgs \in Seq(Messages) /\ readKey \in [Users -> Nat]

LEMMA ReadMarksRight == MarkTypes => ReadMarks
<1> SUFFICES ASSUME MarkTypes, NEW u \in Users
             PROVE  /\ PeerRead(u) \in Nat /\ PeerRead(u) <= readKey[Peer(u)]
                    /\ \A k \in Kept(u) : PeerRead(u) < k
                    /\ \A x \in Nat : x <= readKey[Peer(u)] /\ (\A k \in Kept(u) : x < k) => x <= PeerRead(u)
  BY DEF ReadMarks
<1>1. PICK R \in Nat : R = readKey[Peer(u)]
  BY AnyoneHasAPeer DEF MarkTypes
<1>2. PICK K : K = Kept(u)
  OBVIOUS
<1>3. K \subseteq Nat \ {0}
  <2>1. Keys = 1 .. Len(msgs) /\ Len(msgs) \in Nat
    BY LenProperties DEF MarkTypes, Keys
  <2>2. K \subseteq Keys
    BY <1>2 DEF Kept
  <2> QED
    BY <2>1, <2>2
<1>4. PeerRead(u) = IF \E k \in K : k <= R THEN (CHOOSE k \in K : \A j \in K : k <= j) - 1 ELSE R
  BY <1>1, <1>2 DEF PeerRead, Kept
<1>5. CASE \E k \in K : k <= R
  <2>1. PICK least \in K : least = CHOOSE k \in K : \A j \in K : k <= j
    <3>1. \E k \in K : \A j \in K : k <= j
      BY <1>3, <1>5, Smallest
    <3> QED
      BY <3>1, Zenon
  <2>2. \A j \in K : least <= j
    <3>1. \E k \in K : \A j \in K : k <= j
      BY <1>3, <1>5, Smallest
    <3> QED
      BY <2>1, <3>1, Zenon
  <2>3. PeerRead(u) = least - 1 /\ least \in Nat \ {0}
    BY <1>3, <1>4, <1>5, <2>1
  <2>4. least <= R
    BY <1>3, <1>5, <2>2, <2>3
  <2>5. PeerRead(u) \in Nat /\ PeerRead(u) <= R
    BY <2>3, <2>4
  <2>6. \A k \in K : PeerRead(u) < k
    BY <1>3, <2>2, <2>3
  <2>7. ASSUME NEW x \in Nat, \A k \in K : x < k PROVE x <= PeerRead(u)
    BY <2>3, <2>7
  <2> QED
    BY <1>1, <1>2, <2>5, <2>6, <2>7
<1>6. CASE ~ \E k \in K : k <= R
  <2>1. PeerRead(u) = R
    BY <1>4, <1>6
  <2>2. \A k \in K : R < k
    BY <1>3, <1>6
  <2> QED
    BY <1>1, <1>2, <2>1, <2>2
<1> QED
  BY <1>5, <1>6

LEMMA ReadMarksAfter == MarkTypes' => ReadMarks'
BY ReadMarksRight, PTL

\* What the mark is made of stays, so does the mark.
LEMMA MarkOfKept ==
    ASSUME NEW u, Kept(u)' = Kept(u), readKey' = readKey
    PROVE  PeerRead(u)' = PeerRead(u)
<1>1. PICK K : K = Kept(u)
  OBVIOUS
<1>2. PICK R : R = readKey[Peer(u)]
  OBVIOUS
<1>3. PeerRead(u) = IF \E k \in K : k <= R THEN (CHOOSE k \in K : \A j \in K : k <= j) - 1 ELSE R
  BY <1>1, <1>2 DEF PeerRead, Kept
<1>4. PeerRead(u)' = IF \E k \in K : k <= R THEN (CHOOSE k \in K : \A j \in K : k <= j) - 1 ELSE R
  <2>1. K = Kept(u)' /\ R = readKey'[Peer(u)]
    BY <1>1, <1>2
  <2> QED
    BY <2>1 DEF PeerRead, Kept
<1> QED
  BY <1>3, <1>4

LEMMA MarkSame ==
    ASSUME UNCHANGED <<msgs, readKey, blockVars>>
    PROVE  \A u : PeerRead(u)' = PeerRead(u)
<1> SUFFICES ASSUME NEW u PROVE PeerRead(u)' = PeerRead(u)
  OBVIOUS
<1>1. Kept(u)' = Kept(u)
  BY DEF Kept, Keys, blockVars
<1> QED
  BY <1>1, MarkOfKept

\* A mark that is kept back from no more than before does not go back; the
\* same holds if what is new in it is past all that the peer has read.
LEMMA MarkGrows ==
    ASSUME MarkTypes, MarkTypes', NEW u \in Users, readKey'[Peer(u)] >= readKey[Peer(u)],
           \A k \in Kept(u)' : k \in Kept(u) \/ k > readKey[Peer(u)]
    PROVE  PeerRead(u)' >= PeerRead(u)
<1>1. /\ Peer(u) \in Users /\ readKey[Peer(u)] \in Nat /\ readKey'[Peer(u)] \in Nat
  BY AnyoneHasAPeer DEF MarkTypes
<1>2. PICK x \in Nat : x = PeerRead(u) /\ x <= readKey[Peer(u)] /\ \A k \in Kept(u) : x < k
  BY ReadMarksRight DEF ReadMarks
<1>3. /\ PeerRead(u)' \in Nat
      /\ \A y \in Nat : y <= readKey'[Peer(u)] /\ (\A k \in Kept(u)' : y < k) => y <= PeerRead(u)'
  BY ReadMarksAfter DEF ReadMarks
<1>4. Kept(u)' \subseteq Nat
  <2>1. Len(msgs') \in Nat
    BY LenProperties DEF MarkTypes
  <2> QED
    BY <2>1 DEF Kept, Keys
<1>5. \A k \in Kept(u)' : x < k
  BY <1>1, <1>2, <1>4
<1>6. x <= readKey'[Peer(u)]
  BY <1>1, <1>2
<1> QED
  BY <1>2, <1>3, <1>5, <1>6

\* With what is kept back the same up to where the peer has read, so is the mark.
LEMMA MarkStays ==
    ASSUME MarkTypes, MarkTypes', NEW u \in Users, readKey'[Peer(u)] = readKey[Peer(u)],
           \A k \in Kept(u)' : k \in Kept(u) \/ k > readKey[Peer(u)],
           Kept(u) \subseteq Kept(u)'
    PROVE  PeerRead(u)' = PeerRead(u)
<1>1. PeerRead(u)' >= PeerRead(u)
  <2>1. readKey[Peer(u)] \in Nat
    BY AnyoneHasAPeer DEF MarkTypes
  <2> QED
    BY <2>1, MarkGrows
<1>2. /\ PeerRead(u)' \in Nat /\ PeerRead(u)' <= readKey'[Peer(u)]
      /\ \A k \in Kept(u)' : PeerRead(u)' < k
  BY ReadMarksAfter DEF ReadMarks
<1>3. /\ PeerRead(u) \in Nat
      /\ \A x \in Nat : x <= readKey[Peer(u)] /\ (\A k \in Kept(u) : x < k) => x <= PeerRead(u)
  BY ReadMarksRight DEF ReadMarks
<1>4. PeerRead(u)' <= PeerRead(u)
  BY <1>2, <1>3
<1> QED
  BY <1>1, <1>2, <1>3, <1>4

----------------------------------------------------------------------------
(* What a person sees.                                                     *)

ViewsInParts ==
    \A u : /\ ConvView(u)[Summary] = SummaryLook(u)
           /\ ConvView(u)[Ticks] = TicksLook(u)
           /\ ConvView(u)[PinList] = PinsLook(u)
           /\ \A k \in 1 .. MaxMsgs : ConvView(u)[Message(k)] = MessageLook(u, k)
           /\ ConvView(u) = [e \in ConvEntities |-> ConvView(u)[e]]

LEMMA ViewParts == ViewsInParts
<1> SUFFICES ASSUME NEW u
             PROVE  /\ ConvView(u)[Summary] = SummaryLook(u)
                    /\ ConvView(u)[Ticks] = TicksLook(u)
                    /\ ConvView(u)[PinList] = PinsLook(u)
                    /\ \A k \in 1 .. MaxMsgs : ConvView(u)[Message(k)] = MessageLook(u, k)
                    /\ ConvView(u) = [e \in ConvEntities |-> ConvView(u)[e]]
  BY DEF ViewsInParts
<1>1. Summary \in ConvEntities /\ Ticks \in ConvEntities /\ PinList \in ConvEntities /\ \A k \in 1 .. MaxMsgs : Message(k) \in ConvEntities
  BY DEF ConvEntities
<1>2. /\ Summary # PinList /\ Summary # Ticks /\ Ticks # PinList
      /\ \A k \in Nat : Message(k) # Summary /\ Message(k) # Ticks /\ Message(k) # PinList /\ Message(k)[2] = k
  BY DEF Summary, Ticks, PinList, Message
<1>3. \A e \in ConvEntities :
        ConvView(u)[e] = CASE e = Summary -> SummaryLook(u)
                           [] e = Ticks   -> TicksLook(u)
                           [] e = PinList -> PinsLook(u)
                           [] OTHER       -> MessageLook(u, e[2])
  BY Zenon DEF ConvView
<1>4. ConvView(u)[Summary] = SummaryLook(u)
  BY <1>1, <1>2, <1>3, Zenon
<1>5. ConvView(u)[Ticks] = TicksLook(u) /\ ConvView(u)[PinList] = PinsLook(u)
  BY <1>1, <1>2, <1>3, Zenon
<1>6. ASSUME NEW k \in 1 .. MaxMsgs PROVE ConvView(u)[Message(k)] = MessageLook(u, k)
  <2>1. Message(k) # Summary /\ Message(k) # Ticks /\ Message(k) # PinList /\ Message(k)[2] = k /\ Message(k) \in ConvEntities
    BY <1>1, <1>2
  <2>2. ConvView(u)[Message(k)] = MessageLook(u, Message(k)[2])
    BY <1>3, <2>1, Zenon
  <2> QED
    BY <2>1, <2>2
<1>7. ConvView(u) = [e \in ConvEntities |-> ConvView(u)[e]]
  <2> DEFINE Look(e) == CASE e = Summary -> SummaryLook(u)
                          [] e = Ticks   -> TicksLook(u)
                          [] e = PinList -> PinsLook(u)
                          [] OTHER       -> MessageLook(u, e[2])
  <2>1. ConvView(u) = [e \in ConvEntities |-> Look(e)]
    BY Zenon DEF ConvView
  <2> HIDE DEF Look
  <2> QED
    BY <2>1
<1> QED
  BY <1>4, <1>5, <1>6, <1>7

LooksAreSets ==
    \A u \in Users :
        /\ SummaryLook(u) \in SUBSET Seq(Nat)
        /\ TicksLook(u) \in SUBSET Seq(Nat)
        /\ PinsLook(u) \in SUBSET Seq(Nat)
        /\ \A k \in 1 .. MaxMsgs : MessageLook(u, k) \in SUBSET Seq(Nat)

LEMMA LooksTyped == TypeOK /\ InPlace => LooksAreSets
<1> SUFFICES ASSUME TypeOK, InPlace, NEW u \in Users
             PROVE  /\ SummaryLook(u) \in SUBSET Seq(Nat)
                    /\ TicksLook(u) \in SUBSET Seq(Nat)
                    /\ PinsLook(u) \in SUBSET Seq(Nat)
                    /\ \A k \in 1 .. MaxMsgs : MessageLook(u, k) \in SUBSET Seq(Nat)
  BY DEF LooksAreSets
<1>1. /\ Len(msgs) \in Nat
      /\ \A k \in Keys : k \in Nat /\ msgs[k].ver \in Nat
      /\ \A p \in pins : p.msg \in Keys
      /\ readKey[u] \in Nat
  <2>1. msgs \in Seq(Messages)
    BY DEF TypeOK, Messages
  <2>2. \A k \in Keys : msgs[k] \in Messages
    BY <2>1, ElementOfSeq DEF Keys
  <2>3. Len(msgs) \in Nat
    BY <2>1, LenProperties
  <2>4. \A m \in Messages : m.ver \in Nat
    BY ConvAssumption DEF Messages
  <2>5. (\A p \in pins : p.msg \in Keys) /\ readKey[u] \in Nat
    BY DEF TypeOK, InPlace
  <2> QED
    BY <2>2, <2>3, <2>4, <2>5 DEF Keys
<1>2. SeenBy(u) \subseteq Keys /\ SeenPins(u) \subseteq pins
  BY DEF SeenBy, SeenPins
<1>3. \A b : Flag(b) \in Nat
  BY DEF Flag
<1>4. Unread(u) \in Nat
  <2> DEFINE S == {k \in SeenBy(u) : msgs[k].author # u /\ k > readKey[u]}
  <2>1. IsFiniteSet(1 .. Len(msgs))
    BY <1>1, FS_Interval
  <2>2. S \subseteq 1 .. Len(msgs)
    BY <1>2 DEF Keys
  <2>3. Cardinality(S) \in Nat
    BY <2>1, <2>2, FS_Subset, FS_CardinalityType
  <2> QED
    BY <2>3 DEF Unread
<1>5. SummaryLook(u) \in SUBSET Seq(Nat)
  <2>1. \A k \in SeenBy(u) : <<k, msgs[k].ver>> \in Seq(Nat)
    BY <1>1, <1>2
  <2>2. <<Unread(u), readKey[u], Flag(marked[u]), Flag(archived[u])>> \in Seq(Nat)
    BY <1>1, <1>3, <1>4
  <2> QED
    BY <2>1, <2>2 DEF SummaryLook
<1>6. PinsLook(u) \in SUBSET Seq(Nat)
  <2>1. \A p \in SeenPins(u) : <<p.msg, msgs[p.msg].ver, Flag(p.both)>> \in Seq(Nat)
    BY <1>1, <1>2, <1>3
  <2> QED
    BY <2>1 DEF PinsLook
<1>7. ASSUME NEW k \in 1 .. MaxMsgs PROVE MessageLook(u, k) \in SUBSET Seq(Nat)
  <2>1. k \in SeenBy(u) => <<msgs[k].ver>> \in Seq(Nat)
    BY <1>1, <1>2
  <2> QED
    BY <2>1 DEF MessageLook
<1>8. TicksLook(u) \in SUBSET Seq(Nat)
  BY Typed, ReadMarksRight DEF ReadMarks, MarkTypes, TicksLook
<1> QED
  BY <1>5, <1>6, <1>7, <1>8

\* Both in the state after a step.
LEMMA ViewsAfter == ViewsInParts' /\ (TypeOK' /\ InPlace' => LooksAreSets')
BY ViewParts, LooksTyped, PTL

\* What a person sees of a message, of his pins and of the conversation
\* stays as long as what it is made of does.
LEMMA MessageSame ==
    ASSUME NEW u, NEW k, k \in SeenBy(u)' <=> k \in SeenBy(u),
           k \in SeenBy(u) => msgs'[k].ver = msgs[k].ver
    PROVE  MessageLook(u, k)' = MessageLook(u, k)
BY DEF MessageLook

LEMMA PinsSame ==
    ASSUME NEW u, SeenPins(u)' = SeenPins(u),
           \A p \in SeenPins(u) : msgs'[p.msg].ver = msgs[p.msg].ver
    PROVE  PinsLook(u)' = PinsLook(u)
<1>1. PinsLook(u)' = {<<p.msg, msgs'[p.msg].ver, Flag(p.both)>> : p \in SeenPins(u)}
  BY DEF PinsLook
<1>2. \A p \in SeenPins(u) :
        <<p.msg, msgs'[p.msg].ver, Flag(p.both)>> = <<p.msg, msgs[p.msg].ver, Flag(p.both)>>
  OBVIOUS
<1> QED
  BY <1>1, <1>2, Zenon DEF PinsLook

LEMMA SummarySame ==
    ASSUME NEW u, SeenBy(u)' = SeenBy(u),
           \A k \in SeenBy(u) : msgs'[k].ver = msgs[k].ver /\ msgs'[k].author = msgs[k].author,
           readKey'[u] = readKey[u], marked'[u] = marked[u], archived'[u] = archived[u]
    PROVE  SummaryLook(u)' = SummaryLook(u)
<1>1. {k \in SeenBy(u)' : \A j \in SeenBy(u)' : j <= k} = {k \in SeenBy(u) : \A j \in SeenBy(u) : j <= k}
  OBVIOUS
<1>2. {<<k, msgs'[k].ver>> : k \in {k \in SeenBy(u)' : \A j \in SeenBy(u)' : j <= k}}
      = {<<k, msgs[k].ver>> : k \in {k \in SeenBy(u) : \A j \in SeenBy(u) : j <= k}}
  <2> DEFINE last == {k \in SeenBy(u) : \A j \in SeenBy(u) : j <= k}
  <2>1. \A k \in last : <<k, msgs'[k].ver>> = <<k, msgs[k].ver>>
    OBVIOUS
  <2>2. {<<k, msgs'[k].ver>> : k \in last} = {<<k, msgs[k].ver>> : k \in last}
    <3> HIDE DEF last
    <3> QED
      BY <2>1
  <2> QED
    BY <1>1, <2>2
<1>3. Unread(u)' = Unread(u)
  <2>1. {k \in SeenBy(u)' : msgs'[k].author # u /\ k > readKey'[u]} = {k \in SeenBy(u) : msgs[k].author # u /\ k > readKey[u]}
    OBVIOUS
  <2> QED
    BY <2>1 DEF Unread
<1>4. <<Unread(u)', readKey'[u], Flag(marked'[u]), Flag(archived'[u])>>
      = <<Unread(u), readKey[u], Flag(marked[u]), Flag(archived[u])>>
  BY <1>3
<1>5. SummaryLook(u)' = {<<k, msgs'[k].ver>> : k \in {k \in SeenBy(u)' : \A j \in SeenBy(u)' : j <= k}}
                        \cup {<<Unread(u)', readKey'[u], Flag(marked'[u]), Flag(archived'[u])>>}
  BY Zenon DEF SummaryLook, Flag
<1> QED
  BY <1>2, <1>4, <1>5 DEF SummaryLook

LEMMA ViewSame ==
    ASSUME NEW u, SummaryLook(u)' = SummaryLook(u), PinsLook(u)' = PinsLook(u), PeerRead(u)' = PeerRead(u),
           \A k \in 1 .. MaxMsgs : MessageLook(u, k)' = MessageLook(u, k)
    PROVE  ConvView(u)' = ConvView(u)
<1>0. TicksLook(u)' = TicksLook(u)
  BY DEF TicksLook
<1>1. \A e \in ConvEntities : ConvView(u)'[e] = ConvView(u)[e]
  BY <1>0, ViewParts, ViewsAfter DEF ViewsInParts, ConvEntities
<1>2. /\ ConvView(u) = [e \in ConvEntities |-> ConvView(u)[e]]
      /\ ConvView(u)' = [e \in ConvEntities |-> ConvView(u)'[e]]
  BY ViewParts, ViewsAfter DEF ViewsInParts
<1> QED
  BY <1>1, <1>2

\* "Read by peer" moves, and nothing else of what he sees or has stored.
LEMMA OnlyTicksMove ==
    ASSUME NEW u, <<Peer(u), u>> \in blocks, PeerRead(u)' > PeerRead(u),
           SummaryLook(u)' = SummaryLook(u), PinsLook(u)' = PinsLook(u),
           \A k \in 1 .. MaxMsgs : MessageLook(u, k)' = MessageLook(u, k),
           pts'[u] = pts[u], minPts'[u] = minPts[u], rows'[u] = rows[u]
    PROVE  Logged(u)
<1>1. \A e \in ConvEntities \ {Ticks} : ConvView(u)'[e] = ConvView(u)[e]
  BY ViewParts, ViewsAfter DEF ViewsInParts, ConvEntities
<1> QED
  BY <1>1 DEF Logged, TicksUntold

\* A step that leaves what a person sees and his journal as they were.
LEMMA NothingToTell ==
    ASSUME NEW u, ConvView(u)' = ConvView(u), pts'[u] = pts[u], minPts'[u] = minPts[u],
           DOMAIN rows'[u] = DOMAIN rows[u], \A p \in DOMAIN rows[u] : rows'[u][p] = rows[u][p]
    PROVE  Logged(u)
<1>1. [p \in DOMAIN rows'[u] |-> Refreshes(rows'[u][p])] = [p \in DOMAIN rows[u] |-> Refreshes(rows[u][p])]
  OBVIOUS
<1>2. [p \in DOMAIN rows[u] |-> Refreshes(rows[u][p])]' = [p \in DOMAIN rows[u] |-> Refreshes(rows[u][p])]
  BY <1>1 DEF Refreshes
<1> QED
  BY <1>2 DEF Logged, Log!logVars

\* A step that tells a person of everything that changes for him.
LEMMA ToldIsLogged ==
    ASSUME TypeOK, RowsInOrder, TypeOK', InPlace', RowsInOrder',
           NEW u \in Users, NEW new \in [Users -> Seq(JournalRows)], Journal(new),
           SummaryLook(u)' # SummaryLook(u) => \E x : Tells(new[u], x),
           PeerRead(u)' # PeerRead(u) => \E x : Tells(new[u], x),
           PinsLook(u)' # PinsLook(u) => Tells(new[u], [kind |-> "pin", msg |-> 0]),
           \A k \in 1 .. MaxMsgs :
             MessageLook(u, k)' # MessageLook(u, k) => Tells(new[u], [kind |-> "msg", msg |-> k])
    PROVE  Logged(u)
<1>1. /\ pts'[u] = pts[u] + Len(new[u])
      /\ DOMAIN rows'[u] = DOMAIN rows[u] \cup (pts[u] + 1) .. pts'[u]
      /\ \A p \in DOMAIN rows[u] : p \in 1 .. pts[u] /\ rows'[u][p] = rows[u][p]
      /\ \A i \in 1 .. Len(new[u]) : rows'[u][pts[u] + i] = new[u][i]
      /\ minPts' = minPts
  BY JournalWrites
<1>2. /\ Len(new[u]) \in Nat /\ pts[u] \in Nat /\ pts'[u] \in Nat
      /\ DOMAIN new[u] = 1 .. Len(new[u])
  BY LenProperties DEF TypeOK
<1>3. CASE Len(new[u]) = 0
  <2>1. \A x : ~ Tells(new[u], x)
    BY <1>2, <1>3 DEF Tells
  <2>2. ConvView(u)' = ConvView(u)
    BY <2>1, ViewSame
  <2>3. pts'[u] = pts[u] /\ DOMAIN rows'[u] = DOMAIN rows[u] /\ \A p \in DOMAIN rows[u] : rows'[u][p] = rows[u][p]
    BY <1>1, <1>2, <1>3
  <2> QED
    BY <1>1, <2>2, <2>3, NothingToTell
<1>4. CASE Len(new[u]) # 0
  <2> DEFINE changes == [p \in DOMAIN rows[u] |-> Refreshes(rows[u][p])]
             after == [p \in DOMAIN rows'[u] |-> Refreshes(rows'[u][p])]
  <2>1. changes' = after
    BY DEF Refreshes
  <2>2. pts'[u] > pts[u]
    BY <1>1, <1>2, <1>4
  <2>3. ASSUME NEW p \in DOMAIN rows'[u] PROVE Refreshes(rows'[u][p]) \subseteq ConvEntities
    <3>1. rows'[u][p].kind = "msg" => rows'[u][p].msg \in 1 .. MaxMsgs
      <4>1. FineRow(u, rows[u][p])'
        BY DEF RowsInOrder
      <4>2. Len(msgs') <= MaxMsgs /\ Len(msgs') \in Nat
        BY LenProperties DEF InPlace, TypeOK
      <4> QED
        BY <4>1, <4>2, ConvAssumption DEF FineRow, Keys
    <3> QED
      BY <3>1 DEF Refreshes, ConvEntities
  <2>4. after \in [DOMAIN changes \cup (pts[u] + 1) .. pts'[u] -> SUBSET ConvEntities]
    BY <1>1, <2>3
  <2>5. \A p \in DOMAIN changes : after[p] = changes[p]
    BY <1>1
  <2>6. ConvView(u)' \in [ConvEntities -> SUBSET Seq(Nat)]
    <3>1. \A e \in ConvEntities : ConvView(u)'[e] \in SUBSET Seq(Nat)
      BY ViewsAfter DEF ViewsInParts, LooksAreSets, ConvEntities
    <3>2. ConvView(u)' = [e \in ConvEntities |-> ConvView(u)'[e]]
      BY ViewsAfter DEF ViewsInParts
    <3> QED
      BY <3>1, <3>2
  <2>7. ASSUME NEW x, Tells(new[u], x)
        PROVE  \E p \in (pts[u] + 1) .. pts'[u] : p \in DOMAIN rows'[u] /\ after[p] = Refreshes(x)
    <3>1. PICK i \in 1 .. Len(new[u]) : new[u][i] = x
      BY <1>2, <2>7 DEF Tells
    <3>2. pts[u] + i \in (pts[u] + 1) .. pts'[u]
      BY <1>1, <1>2
    <3>3. rows'[u][pts[u] + i] = x /\ pts[u] + i \in DOMAIN rows'[u]
      BY <1>1, <3>1, <3>2
    <3> QED
      BY <3>2, <3>3
  <2>8. ASSUME NEW e \in ConvEntities, ConvView(u)'[e] # ConvView(u)[e]
        PROVE  \E p \in (pts[u] + 1) .. pts'[u] : e \in after[p]
    <3>1. CASE e = Summary \/ e = Ticks
      <4>1. \E x : Tells(new[u], x)
        <5>1. 1 \in DOMAIN new[u]
          BY <1>2, <1>4
        <5> QED
          BY <5>1 DEF Tells
      <4>2. \A x : Summary \in Refreshes(x) /\ Ticks \in Refreshes(x)
        BY DEF Refreshes
      <4> QED
        BY <2>7, <3>1, <4>1, <4>2
    <3>2. CASE e = PinList
      <4>1. Tells(new[u], [kind |-> "pin", msg |-> 0])
        BY <2>8, <3>2, ViewParts, ViewsAfter DEF ViewsInParts
      <4>2. PinList \in Refreshes([kind |-> "pin", msg |-> 0])
        BY DEF Refreshes
      <4> QED
        BY <2>7, <3>2, <4>1, <4>2
    <3>3. ASSUME NEW k \in 1 .. MaxMsgs, e = Message(k) PROVE \E p \in (pts[u] + 1) .. pts'[u] : e \in after[p]
      <4>1. Tells(new[u], [kind |-> "msg", msg |-> k])
        BY <2>8, <3>3, ViewParts, ViewsAfter DEF ViewsInParts
      <4>2. Message(k) \in Refreshes([kind |-> "msg", msg |-> k])
        BY DEF Refreshes
      <4> QED
        BY <2>7, <3>3, <4>1, <4>2
    <3> QED
      BY <3>1, <3>2, <3>3 DEF ConvEntities
  <2>9. Log(u)!Write
    <3> HIDE DEF after
    <3> QED
      BY <1>1, <1>2, <2>1, <2>2, <2>4, <2>5, <2>6, <2>8 DEF Log!Write
  <2> QED
    BY <2>9 DEF Logged, Log!LogNext
<1> QED
  BY <1>3, <1>4

----------------------------------------------------------------------------
(* What the operations do.                                                 *)

StepHolds == JournalInv' /\ MessagesStay /\ \A u \in Users : Logged(u)

LEMMA OneChanged ==
    ASSUME TypeOK, NEW k \in Keys, NEW m \in Messages, msgs' = [msgs EXCEPT ![k] = m]
    PROVE  /\ msgs' \in Seq(Messages) /\ Len(msgs') = Len(msgs) /\ Keys' = Keys
           /\ msgs'[k] = m /\ \A j \in Keys \ {k} : msgs'[j] = msgs[j]
<1>1. msgs \in Seq(Messages) /\ k \in 1 .. Len(msgs)
  BY MessagesTyped DEF Keys
<1>2. /\ msgs' \in Seq(Messages) /\ Len(msgs') = Len(msgs)
      /\ \A j \in 1 .. Len(msgs) : msgs'[j] = IF j = k THEN m ELSE msgs[j]
  BY <1>1, ExceptSeq
<1> QED
  BY <1>1, <1>2 DEF Keys

LEMMA OneAppended ==
    ASSUME TypeOK, NEW m \in Messages, msgs' = Append(msgs, m)
    PROVE  /\ msgs' \in Seq(Messages) /\ Len(msgs') = Len(msgs) + 1 /\ Keys' = Keys \cup {Len(msgs) + 1}
           /\ msgs'[Len(msgs) + 1] = m /\ Len(msgs) + 1 \notin Keys /\ Len(msgs) + 1 \in Nat \ {0}
           /\ \A j \in Keys : msgs'[j] = msgs[j]
<1>1. msgs \in Seq(Messages) /\ Len(msgs) \in Nat
  BY MessagesTyped
<1>2. /\ msgs' \in Seq(Messages) /\ Len(msgs') = Len(msgs) + 1
      /\ msgs'[Len(msgs) + 1] = m /\ \A j \in 1 .. Len(msgs) : msgs'[j] = msgs[j]
  BY <1>1, AppendProperties
<1>3. Keys' = 1 .. Len(msgs) + 1 /\ Keys = 1 .. Len(msgs)
  BY <1>2 DEF Keys
<1> QED
  BY <1>1, <1>2, <1>3

\* The types, put together again.
LEMMA TypesAgain ==
    ASSUME msgs' \in Seq(Messages), readKey' \in [Users -> Nat], marked' \in [Users -> BOOLEAN],
           archived' \in [Users -> BOOLEAN], pins' \subseteq [user : Users, msg : Nat, both : BOOLEAN],
           blocks' \subseteq Users \X Users, blockedAt' \in [Users \X Users -> Nat],
           pts' \in [Users -> Nat], minPts' \in [Users -> Nat], DOMAIN rows' = Users,
           \A u \in Users : rows'[u] \in [DOMAIN rows'[u] -> JournalRows],
           req' \in [Requests -> RequestStates]
    PROVE  TypeOK'
BY DEF TypeOK, Messages, JournalRows, RequestStates, Idle

LEMMA RequestShapes ==
    ASSUME NEW q \in RequestStates
    PROVE  /\ q.stage \in {"idle", "decided", "sent"}
           /\ q.stage = "decided" => q.user \in Users /\ q.client \in Clients /\ q.withheld \in BOOLEAN
           /\ q.stage = "sent" => q.user \in Users /\ q.key \in Nat
           /\ q = Idle => q.stage = "idle"
BY DEF RequestStates, Idle

\* With the messages and the pins as they were, so is what is shown of them.
LEMMA FeedSame ==
    ASSUME UNCHANGED <<msgs, pins>>
    PROVE  /\ MessagesStay
           /\ \A u : /\ PinsLook(u)' = PinsLook(u)
                     /\ \A k : MessageLook(u, k)' = MessageLook(u, k)
                     /\ (readKey'[u] = readKey[u] /\ marked'[u] = marked[u] /\ archived'[u] = archived[u])
                          => SummaryLook(u)' = SummaryLook(u)
<1>1. MessagesStay
  BY DEF MessagesStay, Keys
<1>2. \A u : SeenBy(u)' = SeenBy(u) /\ SeenPins(u)' = SeenPins(u)
  BY DEF SeenBy, SeenPins, Visible, Keys
<1>3. \A u : PinsLook(u)' = PinsLook(u)
  BY <1>2, PinsSame
<1>4. \A u : \A k : MessageLook(u, k)' = MessageLook(u, k)
  BY <1>2, MessageSame
<1>5. ASSUME NEW u, readKey'[u] = readKey[u], marked'[u] = marked[u], archived'[u] = archived[u]
      PROVE  SummaryLook(u)' = SummaryLook(u)
  BY <1>2, <1>5, SummarySame
<1> QED
  BY <1>1, <1>3, <1>4, <1>5

\* The invariant after a step that changes no message and no pin, but for the journal.
LEMMA FeedKept ==
    ASSUME JournalInv, UNCHANGED <<msgs, pins>>, TypeOK', RowsInOrder',
           \A u \in Users : readKey'[u] <= Len(msgs),
           \A r \in Requests : req'[r].stage = "sent" => req'[r].key \in Keys
    PROVE  JournalInv'
<1>1. InPlace'
  BY DEF JournalInv, InPlace, Keys
<1>2. PinsAreVisible'
  BY DEF JournalInv, PinsAreVisible, Visible
<1>3. NoDuplicateSend'
  BY DEF JournalInv, NoDuplicateSend, Keys
<1> QED
  BY <1>1, <1>2, <1>3 DEF JournalInv

\* A step that changes neither what is shown nor the journal.
LEMMA AsideFromView ==
    ASSUME JournalInv, UNCHANGED <<convVars, journalVars>>,
           blocks' \subseteq Users \X Users, blockedAt' \in [Users \X Users -> Nat],
           req' \in [Requests -> RequestStates],
           \A r \in Requests : req'[r].stage = "sent" => req'[r].key \in Keys,
           \A u \in Users : \/ PeerRead(u)' = PeerRead(u)
                            \/ <<Peer(u), u>> \in blocks /\ PeerRead(u)' > PeerRead(u)
    PROVE  StepHolds
<1>0. TypeOK
  BY DEF JournalInv
<1>1. MessagesStay
  BY FeedSame DEF convVars
<1>2. /\ RowsInOrder' /\ pts' \in [Users -> Nat] /\ minPts' \in [Users -> Nat] /\ DOMAIN rows' = Users
      /\ \A u \in Users : rows'[u] \in [DOMAIN rows'[u] -> JournalRows]
  BY <1>1, RowsUntouched
<1>3. TypeOK'
  BY <1>0, <1>2, Typed, TypesAgain DEF convVars
<1>4. JournalInv'
  BY <1>2, <1>3, FeedKept DEF JournalInv, InPlace, convVars
<1>5. ASSUME NEW u \in Users PROVE Logged(u)
  <2>1. /\ SummaryLook(u)' = SummaryLook(u) /\ PinsLook(u)' = PinsLook(u)
        /\ \A k \in 1 .. MaxMsgs : MessageLook(u, k)' = MessageLook(u, k)
    BY FeedSame DEF convVars
  <2>2. CASE PeerRead(u)' = PeerRead(u)
    BY <2>1, <2>2, ViewSame, NothingToTell DEF journalVars
  <2>3. CASE <<Peer(u), u>> \in blocks /\ PeerRead(u)' > PeerRead(u)
    BY <2>1, <2>3, OnlyTicksMove DEF journalVars
  <2> QED
    BY <2>2, <2>3
<1> QED
  BY <1>1, <1>4, <1>5 DEF StepHolds

\* Who is told nothing keeps his journal.
LEMMA UntoldKeepRows ==
    ASSUME TypeOK, RowsInOrder, NEW new \in [Users -> Seq(JournalRows)], Journal(new),
           NEW u \in Users, \A x : ~ Tells(new[u], x)
    PROVE  pts'[u] = pts[u] /\ minPts' = minPts /\ rows'[u] = rows[u]
<1>1. /\ Len(new[u]) \in Nat /\ pts[u] \in Nat /\ DOMAIN new[u] = 1 .. Len(new[u])
      /\ rows[u] = [p \in DOMAIN rows[u] |-> rows[u][p]]
  BY Typed, LenProperties
<1>2. Len(new[u]) = 0
  <2>1. 1 \notin DOMAIN new[u]
    BY DEF Tells
  <2> QED
    BY <1>1, <2>1
<1>3. /\ pts'[u] = pts[u] + Len(new[u])
      /\ DOMAIN rows'[u] = DOMAIN rows[u] \cup (pts[u] + 1) .. pts'[u]
      /\ \A p \in DOMAIN rows[u] : rows'[u][p] = rows[u][p]
      /\ minPts' = minPts
  BY JournalWrites
<1>4. pts'[u] = pts[u] /\ DOMAIN rows'[u] = DOMAIN rows[u]
  BY <1>1, <1>2, <1>3
<1>5. rows'[u] = [p \in DOMAIN rows'[u] |-> rows'[u][p]]
  BY DEF Journal
<1>6. [p \in DOMAIN rows'[u] |-> rows'[u][p]] = [p \in DOMAIN rows[u] |-> rows[u][p]]
  BY <1>3, <1>4
<1> QED
  BY <1>1, <1>3, <1>4, <1>5, <1>6

\* A step that changes marks of people, all of whom get a row.
LEMMA OwnRowsTold ==
    ASSUME JournalInv, UNCHANGED <<msgs, pins, blockVars>>,
           NEW told, NEW kind \in {"read", "draft"}, Journal(To(told, OwnRow(kind))),
           readKey' \in [Users -> Nat], marked' \in [Users -> BOOLEAN], archived' \in [Users -> BOOLEAN],
           \A u \in Users : readKey'[u] <= Len(msgs),
           req' \in [Requests -> RequestStates],
           \A r \in Requests : req'[r].stage = "sent" => req'[r].key \in Keys,
           \A u \in Users : u \notin told =>
             /\ readKey'[u] = readKey[u] /\ marked'[u] = marked[u] /\ archived'[u] = archived[u]
             /\ \/ PeerRead(u)' = PeerRead(u)
                \/ <<Peer(u), u>> \in blocks /\ PeerRead(u)' > PeerRead(u)
    PROVE  StepHolds
<1>0. TypeOK /\ RowsInOrder
  BY DEF JournalInv
<1>1. MessagesStay
  BY FeedSame
<1> DEFINE row == [kind |-> kind, msg |-> 0]
           new == To(told, <<row>>)
<1>2. row \in JournalRows /\ OwnRow(kind) = <<row>> /\ row.kind # "msg" /\ row.msg = 0
  BY RowShapes
<1> HIDE DEF row
<1>3. new \in [Users -> Seq(JournalRows)] /\ \A u \in Users : \A x : Tells(new[u], x) <=> u \in told /\ x = row
  BY <1>2, RowsTo
<1>4. Journal(new)
  BY <1>2
<1> HIDE DEF new
<1>5. \A u \in Users : \A x : Tells(new[u], x) => FineRow(u, x)'
  BY <1>2, <1>3 DEF FineRow
<1>6. /\ RowsInOrder' /\ pts' \in [Users -> Nat] /\ minPts' \in [Users -> Nat] /\ DOMAIN rows' = Users
      /\ \A u \in Users : rows'[u] \in [DOMAIN rows'[u] -> JournalRows]
  BY <1>1, <1>3, <1>4, <1>5, RowsKept
<1>7. TypeOK'
  BY <1>0, <1>6, Typed, TypesAgain DEF blockVars
<1>8. JournalInv'
  BY <1>6, <1>7, FeedKept
<1>9. ASSUME NEW u \in Users PROVE Logged(u)
  <2>1. PinsLook(u)' = PinsLook(u) /\ \A k : MessageLook(u, k)' = MessageLook(u, k)
    BY FeedSame
  <2>2. SummaryLook(u)' # SummaryLook(u) => u \in told
    BY FeedSame
  <2>3. u \in told => \E x : Tells(new[u], x)
    BY <1>3
  <2>4. CASE u \in told \/ PeerRead(u)' = PeerRead(u)
    BY <1>0, <1>3, <1>4, <1>8, <2>1, <2>2, <2>3, <2>4, ToldIsLogged DEF JournalInv
  <2>5. CASE u \notin told /\ <<Peer(u), u>> \in blocks /\ PeerRead(u)' > PeerRead(u)
    <3>1. pts'[u] = pts[u] /\ minPts' = minPts /\ rows'[u] = rows[u]
      BY <1>0, <1>3, <1>4, <2>5, UntoldKeepRows
    <3> QED
      BY <2>1, <2>2, <2>5, <3>1, OnlyTicksMove
  <2> QED
    BY <2>4, <2>5
<1> QED
  BY <1>1, <1>8, <1>9 DEF StepHolds

LEMMA RequestsKept ==
    ASSUME JournalInv, NEW r \in Requests, NEW q \in RequestStates, q.stage # "sent",
           req' = [req EXCEPT ![r] = q]
    PROVE  /\ req' \in [Requests -> RequestStates]
           /\ \A x \in Requests : req'[x].stage = "sent" => req'[x].key \in Keys
<1>1. req \in [Requests -> RequestStates]
  BY DEF JournalInv, TypeOK
<1>2. \A x \in Requests : req[x].stage = "sent" => req[x].key \in Keys
  BY DEF JournalInv, InPlace
<1> QED
  BY <1>1, <1>2

LEMMA DecideHolds ==
    ASSUME JournalInv, NEW r \in Requests, NEW u \in Users, NEW c \in Clients, Decide(r, u, c)
    PROVE  StepHolds
<1> DEFINE blocked == <<Peer(u), u>> \in blocks
<1>0. blocked \in BOOLEAN
  OBVIOUS
<1> HIDE DEF blocked
<1> DEFINE q == [stage |-> "decided", user |-> u, client |-> c, withheld |-> blocked]
<1>1. q \in RequestStates /\ q.stage # "sent"
  BY <1>0 DEF RequestStates
<1>2. req' = [req EXCEPT ![r] = q] /\ UNCHANGED <<convVars, blockVars, journalVars>>
  BY DEF Decide, blocked
<1> HIDE DEF q
<1>3. /\ req' \in [Requests -> RequestStates]
      /\ \A x \in Requests : req'[x].stage = "sent" => req'[x].key \in Keys
  BY <1>1, <1>2, RequestsKept
<1> QED
  <2>1. \A v \in Users : PeerRead(v)' = PeerRead(v)
    BY <1>2, MarkSame DEF convVars
  <2> QED
    BY <1>2, <1>3, <2>1, AsideFromView, Typed DEF JournalInv, blockVars

LEMMA IdleHolds ==
    ASSUME JournalInv, NEW r \in Requests, Replay(r) \/ Abort(r)
    PROVE  StepHolds
<1>1. Idle \in RequestStates /\ Idle.stage # "sent"
  BY DEF RequestStates, Idle
<1>2. req' = [req EXCEPT ![r] = Idle] /\ UNCHANGED <<convVars, blockVars, journalVars>>
  BY DEF Replay, Abort
<1>3. /\ req' \in [Requests -> RequestStates]
      /\ \A x \in Requests : req'[x].stage = "sent" => req'[x].key \in Keys
  BY <1>1, <1>2, RequestsKept
<1> QED
  <2>1. \A v \in Users : PeerRead(v)' = PeerRead(v)
    BY <1>2, MarkSame DEF convVars
  <2> QED
    BY <1>2, <1>3, <2>1, AsideFromView, Typed DEF JournalInv, blockVars

\* A block that begins keeps nothing back of what is there.
LEMMA BlockKeepsMarks ==
    ASSUME TypeOK, NEW u \in Users, Block(u), NEW v \in Users
    PROVE  PeerRead(v)' = PeerRead(v)
<1>1. PICK pair : pair = <<u, Peer(u)>>
  OBVIOUS
<1>2. PICK mine : mine = <<Peer(v), v>>
  OBVIOUS
<1>3. /\ blocks' = blocks \cup {pair} /\ msgs' = msgs /\ readKey' = readKey
      /\ blockedAt' = IF pair \in blocks THEN blockedAt ELSE [blockedAt EXCEPT ![pair] = Len(msgs)]
  BY <1>1 DEF Block, convVars
<1>4. /\ pair \in Users \X Users /\ mine \in Users \X Users /\ blockedAt \in [Users \X Users -> Nat]
      /\ Len(msgs) \in Nat /\ Keys = 1 .. Len(msgs) /\ readKey \in [Users -> Nat]
  BY <1>1, <1>2, AnyoneHasAPeer, MessagesTyped, Typed
<1>5. CASE pair \in blocks
  <2>1. UNCHANGED <<msgs, readKey, blockVars>>
    BY <1>3, <1>5 DEF blockVars
  <2> QED
    BY <2>1, MarkSame
<1>6. CASE pair \notin blocks /\ pair # mine
  <2>1. (mine \in blocks' <=> mine \in blocks) /\ blockedAt'[mine] = blockedAt[mine]
    BY <1>3, <1>4, <1>6
  <2>2. Kept(v)' = Kept(v)
    BY <1>2, <1>3, <2>1 DEF Kept, Keys
  <2> QED
    BY <1>3, <2>2, MarkOfKept
<1>7. CASE pair \notin blocks /\ pair = mine
  <2>1. mine \notin blocks /\ blockedAt'[mine] = Len(msgs)
    BY <1>3, <1>4, <1>7
  <2>2. PeerRead(v) = readKey[Peer(v)]
    BY <1>2, <2>1 DEF PeerRead
  <2>3. \A k \in Keys' : ~ (k > blockedAt'[mine])
    BY <1>3, <1>4, <2>1 DEF Keys
  <2>4. PeerRead(v)' = readKey'[Peer(v)]
    BY <1>2, <2>3 DEF PeerRead
  <2> QED
    BY <1>3, <2>2, <2>4
<1> QED
  BY <1>5, <1>6, <1>7

\* The end of a block uncovers what the peer has read meanwhile.
LEMMA UnblockMovesMarks ==
    ASSUME TypeOK, NEW u \in Users, Unblock(u), NEW v \in Users
    PROVE  \/ PeerRead(v)' = PeerRead(v)
           \/ <<Peer(v), v>> \in blocks /\ PeerRead(v)' > PeerRead(v)
<1>1. PICK pair : pair = <<u, Peer(u)>>
  OBVIOUS
<1>2. PICK mine : mine = <<Peer(v), v>>
  OBVIOUS
<1>3. /\ blocks' = blocks \ {pair} /\ msgs' = msgs /\ readKey' = readKey
      /\ blockedAt' = [blockedAt EXCEPT ![pair] = 0]
  BY <1>1 DEF Unblock, convVars
<1>4. /\ mine \in Users \X Users /\ blockedAt \in [Users \X Users -> Nat] /\ readKey[Peer(v)] \in Nat
      /\ MarkTypes /\ MarkTypes'
  BY <1>2, <1>3, AnyoneHasAPeer, Typed DEF MarkTypes
<1>5. CASE pair # mine
  <2>1. (mine \in blocks' <=> mine \in blocks) /\ blockedAt'[mine] = blockedAt[mine]
    BY <1>3, <1>4, <1>5
  <2>2. Kept(v)' = Kept(v)
    BY <1>2, <1>3, <2>1 DEF Kept, Keys
  <2> QED
    BY <1>3, <2>2, MarkOfKept
<1>6. CASE pair = mine /\ mine \notin blocks
  <2>1. Kept(v)' = {} /\ Kept(v) = {}
    BY <1>2, <1>3, <1>6 DEF Kept
  <2> QED
    BY <1>3, <2>1, MarkOfKept
<1>7. CASE pair = mine /\ mine \in blocks
  <2>1. Kept(v)' = {}
    BY <1>2, <1>3, <1>7 DEF Kept
  <2>2. PeerRead(v)' >= PeerRead(v)
    BY <1>3, <1>4, <2>1, MarkGrows
  <2>3. PeerRead(v) \in Nat /\ PeerRead(v)' \in Nat
    BY <1>4, ReadMarksRight, ReadMarksAfter DEF ReadMarks
  <2> QED
    BY <1>2, <1>7, <2>2, <2>3
<1> QED
  BY <1>5, <1>6, <1>7

LEMMA BlockHolds ==
    ASSUME JournalInv, NEW u \in Users, Block(u) \/ Unblock(u)
    PROVE  StepHolds
<1>0. /\ blocks \subseteq Users \X Users /\ blockedAt \in [Users \X Users -> Nat]
      /\ req \in [Requests -> RequestStates] /\ Len(msgs) \in Nat
      /\ \A r \in Requests : req[r].stage = "sent" => req[r].key \in Keys
  BY Typed, MessagesTyped DEF JournalInv, InPlace
<1>1. <<u, Peer(u)>> \in Users \X Users
  BY AnyoneHasAPeer
<1>2. UNCHANGED <<convVars, journalVars, req>>
  BY DEF Block, Unblock
<1>3. CASE Block(u)
  <2>1. blocks' \subseteq Users \X Users
    BY <1>0, <1>1, <1>3 DEF Block
  <2>2. blockedAt' \in [Users \X Users -> Nat]
    <3>1. blockedAt' = blockedAt \/ blockedAt' = [blockedAt EXCEPT ![<<u, Peer(u)>>] = Len(msgs)]
      BY <1>3 DEF Block
    <3>2. [blockedAt EXCEPT ![<<u, Peer(u)>>] = Len(msgs)] \in [Users \X Users -> Nat]
      BY <1>0
    <3> QED
      BY <1>0, <3>1, <3>2
  <2>3. \A v \in Users : PeerRead(v)' = PeerRead(v)
    BY <1>3, BlockKeepsMarks DEF JournalInv
  <2> QED
    BY <1>0, <1>2, <2>1, <2>2, <2>3, AsideFromView
<1>4. CASE Unblock(u)
  <2>1. blocks' \subseteq Users \X Users
    BY <1>0, <1>4 DEF Unblock
  <2>2. blockedAt' \in [Users \X Users -> Nat]
    BY <1>0, <1>4 DEF Unblock
  <2>3. \A v \in Users : \/ PeerRead(v)' = PeerRead(v)
                         \/ <<Peer(v), v>> \in blocks /\ PeerRead(v)' > PeerRead(v)
    BY <1>4, UnblockMovesMarks DEF JournalInv
  <2> QED
    BY <1>0, <1>2, <2>1, <2>2, <2>3, AsideFromView
<1> QED
  BY <1>3, <1>4

LEMMA OwnMarkHolds ==
    ASSUME JournalInv, NEW u \in Users, SetUnreadMark(u) \/ SetArchived(u)
    PROVE  StepHolds
<1>0. /\ readKey \in [Users -> Nat] /\ marked \in [Users -> BOOLEAN] /\ archived \in [Users -> BOOLEAN]
      /\ req \in [Requests -> RequestStates]
      /\ \A r \in Requests : req[r].stage = "sent" => req[r].key \in Keys
      /\ \A v \in Users : readKey[v] <= Len(msgs)
  BY Typed DEF JournalInv, InPlace
<1>1. /\ UNCHANGED <<msgs, pins, blockVars, readKey, req>> /\ Journal(To({u}, OwnRow("draft")))
      /\ marked' = marked \/ marked' = [marked EXCEPT ![u] = ~ marked[u]]
      /\ archived' = archived \/ archived' = [archived EXCEPT ![u] = ~ archived[u]]
  BY DEF SetUnreadMark, SetArchived
<1>2. marked' \in [Users -> BOOLEAN] /\ \A v \in Users \ {u} : marked'[v] = marked[v]
  BY <1>0, <1>1
<1>3. archived' \in [Users -> BOOLEAN] /\ \A v \in Users \ {u} : archived'[v] = archived[v]
  BY <1>0, <1>1
<1>4. \A v \in Users : PeerRead(v)' = PeerRead(v)
  BY <1>1, MarkSame
<1> QED
  BY <1>0, <1>1, <1>2, <1>3, <1>4, OwnRowsTold

LEMMA ReadHolds ==
    ASSUME JournalInv, NEW u \in Users, NEW key \in Keys, Read(u, key),
           req' \in [Requests -> RequestStates],
           \A r \in Requests : req'[r].stage = "sent" => req'[r].key \in Keys
    PROVE  StepHolds
<1>0. /\ readKey \in [Users -> Nat] /\ marked \in [Users -> BOOLEAN] /\ archived \in [Users -> BOOLEAN]
      /\ \A v \in Users : readKey[v] <= Len(msgs)
      /\ key \in Nat /\ key <= Len(msgs)
  BY Typed, MessagesTyped DEF JournalInv, InPlace
<1>1. /\ UNCHANGED <<msgs, archived, pins, blockVars>>
      /\ readKey' = [readKey EXCEPT ![u] = IF key > readKey[u] THEN key ELSE readKey[u]]
      /\ marked' = [marked EXCEPT ![u] = FALSE]
  BY DEF Read
<1>2. /\ readKey' \in [Users -> Nat] /\ \A v \in Users : readKey'[v] <= Len(msgs)
      /\ \A v \in Users \ {u} : readKey'[v] = readKey[v]
  BY <1>0, <1>1
<1>3. marked' \in [Users -> BOOLEAN] /\ \A v \in Users \ {u} : marked'[v] = marked[v]
  BY <1>0, <1>1
<1>4. CASE key <= readKey[u] /\ marked[u] /\ Journal(To({u}, OwnRow("draft")))
  <2>1. readKey' = readKey
    BY <1>0, <1>1, <1>4
  <2>2. \A v \in Users : PeerRead(v)' = PeerRead(v)
    BY <1>1, <2>1, MarkSame
  <2> QED
    BY <1>0, <1>1, <1>2, <1>3, <1>4, <2>2, OwnRowsTold
<1>5. CASE key <= readKey[u] /\ ~ marked[u] /\ UNCHANGED journalVars
  <2>1. readKey'[u] = readKey[u] /\ marked'[u] = marked[u]
    <3>1. marked[u] \in BOOLEAN /\ ~ marked[u] /\ marked'[u] = FALSE
      BY <1>0, <1>1, <1>5
    <3>2. marked'[u] = marked[u]
      BY <3>1
    <3>3. readKey[u] \in Nat /\ ~ (key > readKey[u])
      BY <1>0, <1>5
    <3>4. readKey'[u] = readKey[u]
      BY <1>0, <1>1, <3>3
    <3> QED
      BY <3>2, <3>4
  <2>2. readKey' = readKey
    BY <1>0, <1>2, <2>1
  <2>3. marked' = marked
    BY <1>0, <1>3, <2>1
  <2>4. \A v \in Users : PeerRead(v)' = PeerRead(v)
    BY <1>1, <2>2, MarkSame
  <2> QED
    BY <1>1, <1>5, <2>2, <2>3, <2>4, AsideFromView, Typed DEF JournalInv, convVars, blockVars
<1>6. CASE key > readKey[u] /\ Journal(To({v \in Users : v = u \/ <<u, v>> \notin blocks}, OwnRow("read")))
  <2> DEFINE told == {v \in Users : v = u \/ <<u, v>> \notin blocks}
  <2>1. u \in told /\ Journal(To(told, OwnRow("read")))
    BY <1>6
  <2> HIDE DEF told
  <2>2. /\ UNCHANGED <<msgs, pins, blockVars>>
        /\ archived' \in [Users -> BOOLEAN] /\ \A v \in Users : archived'[v] = archived[v]
        /\ \A v \in Users : readKey'[v] <= Len(msgs)
    BY <1>0, <1>1, <1>2
  <2>3. \A v \in Users : v \notin told =>
          readKey'[v] = readKey[v] /\ marked'[v] = marked[v] /\ archived'[v] = archived[v]
    BY <1>2, <1>3, <2>1, <2>2
  <2>4. \A v \in Users : v \notin told =>
          \/ PeerRead(v)' = PeerRead(v)
          \/ <<Peer(v), v>> \in blocks /\ PeerRead(v)' > PeerRead(v)
    <3> SUFFICES ASSUME NEW v \in Users, <<u, v>> \in blocks
                 PROVE  \/ PeerRead(v)' = PeerRead(v)
                        \/ <<Peer(v), v>> \in blocks /\ PeerRead(v)' > PeerRead(v)
      BY DEF told
    <3>1. Kept(v)' = Kept(v)
      BY <1>1 DEF Kept, Keys, blockVars
    <3>2. MarkTypes /\ MarkTypes'
      BY <1>0, <1>1, <1>2, Typed DEF JournalInv, MarkTypes
    <3>3. CASE Peer(v) # u
      <4>1. readKey'[Peer(v)] = readKey[Peer(v)]
        BY <1>2, <3>3, AnyoneHasAPeer
      <4> QED
        BY <3>1, <3>2, <4>1, MarkStays
    <3>4. CASE Peer(v) = u
      <4>1. readKey'[u] >= readKey[u]
        BY <1>0, <1>1
      <4>2. PeerRead(v)' >= PeerRead(v)
        BY <3>1, <3>2, <3>4, <4>1, MarkGrows
      <4>3. PeerRead(v) \in Nat /\ PeerRead(v)' \in Nat
        BY <3>2, ReadMarksRight, ReadMarksAfter DEF ReadMarks
      <4> QED
        BY <3>4, <4>2, <4>3
    <3> QED
      BY <3>3, <3>4
  <2> QED
    BY <1>2, <1>3, <2>1, <2>2, <2>3, <2>4, OwnRowsTold
<1> QED
  BY <1>4, <1>5, <1>6 DEF Read

LEMMA ReadActionsHold ==
    ASSUME JournalInv,
           \/ \E u \in Users, k \in Keys : MarkRead(u, k)
           \/ \E r \in Requests : ReadOwn(r)
    PROVE  StepHolds
<1>0. /\ req \in [Requests -> RequestStates]
      /\ \A r \in Requests : req[r].stage = "sent" => req[r].key \in Keys
  BY Typed DEF JournalInv, InPlace
<1>1. ASSUME NEW u \in Users, NEW k \in Keys, MarkRead(u, k) PROVE StepHolds
  BY <1>0, <1>1, ReadHolds DEF MarkRead
<1>2. ASSUME NEW r \in Requests, ReadOwn(r) PROVE StepHolds
  <2>1. req[r].stage = "sent" /\ Read(req[r].user, req[r].key) /\ req' = [req EXCEPT ![r] = Idle]
    BY <1>2 DEF ReadOwn
  <2>2. req[r].user \in Users /\ req[r].key \in Keys
    BY <1>0, <2>1, RequestShapes
  <2>3. Idle \in RequestStates /\ Idle.stage # "sent"
    BY DEF RequestStates, Idle
  <2>4. /\ req' \in [Requests -> RequestStates]
        /\ \A x \in Requests : req'[x].stage = "sent" => req'[x].key \in Keys
    BY <2>1, <2>3, RequestsKept
  <2> QED
    BY <2>1, <2>2, <2>4, ReadHolds
<1> QED
  BY <1>1, <1>2

LEMMA PruneHolds ==
    ASSUME JournalInv, NEW u \in Users, PruneJournal(u)
    PROVE  StepHolds
<1>0. TypeOK /\ RowsInOrder
  BY DEF JournalInv
<1>a. PICK old \in SUBSET DOMAIN rows[u] :
        /\ rows' = [rows EXCEPT ![u] = [p \in DOMAIN rows[u] \ old |-> rows[u][p]]]
        /\ \E last \in old :
             /\ \A p \in old : p <= last
             /\ minPts' = [minPts EXCEPT ![u] = IF last > minPts[u] THEN last ELSE minPts[u]]
  BY DEF PruneJournal
<1>1. PICK last \in old :
        /\ rows' = [rows EXCEPT ![u] = [p \in DOMAIN rows[u] \ old |-> rows[u][p]]]
        /\ \A p \in old : p <= last
        /\ minPts' = [minPts EXCEPT ![u] = IF last > minPts[u] THEN last ELSE minPts[u]]
  BY <1>a
<1>2. UNCHANGED <<pts, convVars, blockVars, req>>
  BY DEF PruneJournal
<1>3. /\ pts \in [Users -> Nat] /\ minPts \in [Users -> Nat] /\ DOMAIN rows = Users
      /\ \A v \in Users : rows[v] = [p \in DOMAIN rows[v] |-> rows[v][p]]
      /\ \A v \in Users : rows[v] \in [DOMAIN rows[v] -> JournalRows]
      /\ DOMAIN rows[u] \subseteq 1 .. pts[u]
      /\ last \in Nat /\ last <= pts[u] /\ minPts[u] <= pts[u]
  BY <1>0, Typed DEF RowsInOrder
<1>4. DOMAIN rows' = Users /\ rows'[u] = [p \in DOMAIN rows[u] \ old |-> rows[u][p]] /\ \A v \in Users \ {u} : rows'[v] = rows[v]
  BY <1>1, <1>3
<1>5. /\ minPts' \in [Users -> Nat] /\ minPts'[u] \in minPts[u] .. pts[u] /\ last <= minPts'[u]
      /\ \A v \in Users \ {u} : minPts'[v] = minPts[v]
  BY <1>1, <1>3
<1>6. MessagesStay
  BY <1>2, FeedSame DEF convVars
<1>7. \A v \in Users : /\ DOMAIN rows'[v] \subseteq DOMAIN rows[v]
                       /\ \A p \in DOMAIN rows'[v] : rows'[v][p] = rows[v][p]
                       /\ rows'[v] \in [DOMAIN rows'[v] -> JournalRows]
  <2>1. ASSUME NEW v \in Users, v # u
        PROVE  /\ DOMAIN rows'[v] \subseteq DOMAIN rows[v]
               /\ \A p \in DOMAIN rows'[v] : rows'[v][p] = rows[v][p]
               /\ rows'[v] \in [DOMAIN rows'[v] -> JournalRows]
    BY <1>3, <1>4, <2>1
  <2>2. /\ DOMAIN rows'[u] \subseteq DOMAIN rows[u]
        /\ \A p \in DOMAIN rows'[u] : rows'[u][p] = rows[u][p]
        /\ rows'[u] \in [DOMAIN rows'[u] -> JournalRows]
    BY <1>3, <1>4
  <2> QED
    BY <2>1, <2>2
<1>8. RowsInOrder'
  <2>1. ASSUME NEW v \in Users, NEW p \in DOMAIN rows'[v] PROVE FineRow(v, rows[v][p])'
    <3>1. PICK x : x = rows[v][p]
      OBVIOUS
    <3>2. FineRow(v, x)'
      BY <1>0, <1>6, <1>7, <3>1, FineStaysFine DEF RowsInOrder
    <3> QED
      BY <1>7, <3>1, <3>2 DEF FineRow
  <2>2. ASSUME NEW v \in Users PROVE minPts'[v] <= pts'[v] /\ DOMAIN rows'[v] \subseteq 1 .. pts'[v]
    BY <1>0, <1>2, <1>5, <1>7 DEF RowsInOrder
  <2> QED
    BY <2>1, <2>2 DEF RowsInOrder
<1>9. TypeOK'
  BY <1>0, <1>2, <1>4, <1>5, <1>7, Typed, TypesAgain DEF convVars, blockVars
<1>10. JournalInv'
  BY <1>2, <1>8, <1>9, FeedKept DEF JournalInv, InPlace, convVars
<1>11. ASSUME NEW v \in Users PROVE Logged(v)
  <2>0. PeerRead(v)' = PeerRead(v)
    BY <1>2, MarkSame DEF convVars
  <2>1. ConvView(v)' = ConvView(v)
    BY <1>2, <2>0, FeedSame, ViewSame DEF convVars
  <2>2. CASE v # u
    BY <1>2, <1>4, <1>5, <2>1, <2>2, NothingToTell
  <2>3. CASE v = u
    <3> DEFINE changes == [p \in DOMAIN rows[u] |-> Refreshes(rows[u][p])]
               kept == DOMAIN rows[u] \ old
    <3>1. changes' = [p \in kept |-> changes[p]]
      <4>1. changes' = [p \in DOMAIN rows'[u] |-> Refreshes(rows'[u][p])]
        BY DEF Refreshes
      <4> QED
        BY <1>4, <4>1
    <3>2. kept \in SUBSET DOMAIN changes /\ \A p \in DOMAIN changes \ kept : p <= minPts'[u]
      <4>1. ASSUME NEW p \in old PROVE p <= minPts'[u]
        <5>1. p \in Nat /\ p <= last /\ last <= minPts'[u] /\ minPts'[u] \in Nat
          BY <1>1, <1>3, <1>5
        <5> QED
          BY <1>3, <5>1
      <4> QED
        BY <4>1
    <3>3. Log(u)!Prune
      <4>1. minPts'[u] \in minPts[u] .. pts[u] /\ pts'[u] = pts[u]
        BY <1>2, <1>5
      <4> QED
        BY <2>1, <2>3, <3>1, <3>2, <4>1 DEF Log!Prune
    <3> QED
      BY <2>3, <3>3 DEF Logged, Log!LogNext
  <2> QED
    BY <2>2, <2>3
<1> QED
  BY <1>10, <1>11, <1>6 DEF StepHolds

\* A step about message `key`, new or not, and about pins: `us` get a row of
\* the message, `vs` one of their pins.
MessageStep(key, us, vs, new) ==
    /\ MessagesStay /\ msgs' \in Seq(Messages) /\ Len(msgs') <= MaxMsgs /\ NoDuplicateSend'
    /\ UNCHANGED <<readKey, marked, blockVars>>
    /\ archived' \in [Users -> BOOLEAN] /\ req' \in [Requests -> RequestStates]
    /\ \A r \in Requests : req'[r].stage = "sent" => req'[r].key \in Keys'
    /\ key \in Keys' /\ \A j \in Keys' \ {key} : j \in Keys /\ msgs'[j] = msgs[j]
    /\ pins' \subseteq [user : Users, msg : Nat, both : BOOLEAN]
    /\ PinsAreVisible' /\ \A p \in pins' : p.msg \in Keys'
    /\ Journal(new)
    /\ TellsBoth(new, us, [kind |-> "msg", msg |-> key], vs, [kind |-> "pin", msg |-> 0])
    /\ \A v \in Users : v \in us /\ msgs'[key].withheld => msgs'[key].author = v
    /\ \A v \in Users : v \notin us =>
         /\ archived'[v] = archived[v]
         /\ key \in SeenBy(v)' <=> key \in SeenBy(v)
         /\ key \in SeenBy(v) => msgs'[key].ver = msgs[key].ver
    /\ \A p : p.user \notin vs => (p \in pins' <=> p \in pins)
    /\ \A p \in pins : p.user \notin vs /\ p.msg = key => msgs'[key].ver = msgs[key].ver

LEMMA LongerInterval ==
    ASSUME NEW m \in Nat, NEW n \in Nat, 1 .. m \subseteq 1 .. n
    PROVE  m <= n
<1>1. CASE m = 0
  BY <1>1
<1>2. CASE m # 0
  <2>1. m \in 1 .. m
    BY <1>2
  <2> QED
    BY <2>1
<1> QED
  BY <1>1, <1>2

LEMMA MessageStepHolds ==
    ASSUME JournalInv, NEW key, NEW us, NEW vs, NEW new, MessageStep(key, us, vs, new)
    PROVE  StepHolds
<1> USE DEF MessageStep, TellsBoth
<1>0. TypeOK /\ RowsInOrder /\ InPlace /\ PinsAreVisible
  BY DEF JournalInv
<1>1. \A u \in Users : \A x : Tells(new[u], x) => FineRow(u, x)'
  BY DEF FineRow
<1>2. /\ RowsInOrder' /\ pts' \in [Users -> Nat] /\ minPts' \in [Users -> Nat] /\ DOMAIN rows' = Users
      /\ \A u \in Users : rows'[u] \in [DOMAIN rows'[u] -> JournalRows]
  BY <1>1, RowsKept
<1>3. TypeOK'
  BY <1>0, <1>2, Typed, TypesAgain DEF blockVars
<1>4. InPlace'
  <2>1. \A u \in Users : readKey'[u] <= Len(msgs')
    <3>1. Len(msgs) <= Len(msgs')
      <4>1. Len(msgs) \in Nat /\ Len(msgs') \in Nat
        BY <1>0, MessagesTyped, LenProperties
      <4>2. 1 .. Len(msgs) \subseteq 1 .. Len(msgs')
        BY DEF MessagesStay, Keys
      <4> QED
        BY <4>1, <4>2, LongerInterval
    <3>2. Len(msgs) \in Nat /\ Len(msgs') \in Nat /\ \A u \in Users : readKey[u] \in Nat /\ readKey[u] <= Len(msgs)
      BY <1>0, MessagesTyped, LenProperties, Typed DEF InPlace
    <3> QED
      BY <3>1, <3>2
  <2> QED
    BY <2>1 DEF InPlace
<1>5. JournalInv'
  BY <1>2, <1>3, <1>4 DEF JournalInv
<1>6. ASSUME NEW v \in Users, NEW j, j # key
      PROVE  /\ j \in SeenBy(v)' <=> j \in SeenBy(v)
             /\ j \in SeenBy(v) => msgs'[j] = msgs[j]
  <2>1. j \in Keys' <=> j \in Keys
    BY <1>6 DEF MessagesStay
  <2>2. j \in Keys => msgs'[j] = msgs[j]
    BY <1>6, <2>1
  <2> QED
    BY <2>1, <2>2 DEF SeenBy, Visible
<1>7. ASSUME NEW v \in Users PROVE Logged(v)
  <2>1. ASSUME NEW j \in 1 .. MaxMsgs, MessageLook(v, j)' # MessageLook(v, j)
        PROVE  Tells(new[v], [kind |-> "msg", msg |-> j])
    <3>1. j = key /\ v \in us
      BY <1>6, <2>1, MessageSame
    <3> QED
      BY <3>1
  <2>2. ASSUME SummaryLook(v)' # SummaryLook(v) PROVE \E x : Tells(new[v], x)
    <3>1. ASSUME v \notin us PROVE FALSE
      <4>1. SeenBy(v)' = SeenBy(v)
        <5>1. \A j : j \in SeenBy(v)' <=> j \in SeenBy(v)
          BY <1>6, <3>1
        <5> QED
          BY <5>1
      <4>2. \A j \in SeenBy(v) : msgs'[j].ver = msgs[j].ver
        BY <1>6, <3>1
      <4>3. \A j \in SeenBy(v) : msgs'[j].author = msgs[j].author
        BY DEF MessagesStay, SeenBy
      <4>4. readKey'[v] = readKey[v] /\ marked'[v] = marked[v] /\ archived'[v] = archived[v]
        BY <3>1
      <4> QED
        BY <2>2, <4>1, <4>2, <4>3, <4>4, SummarySame
    <3>2. Tells(new[v], [kind |-> "msg", msg |-> key])
      BY <3>1
    <3> QED
      BY <3>2
  <2>3. ASSUME PinsLook(v)' # PinsLook(v) PROVE Tells(new[v], [kind |-> "pin", msg |-> 0])
    <3>1. ASSUME v \notin vs PROVE FALSE
      <4>1. SeenPins(v)' = SeenPins(v)
        <5>1. SeenPins(v) = {p \in pins : p.user = v}
          BY <1>0 DEF SeenPins, PinsAreVisible
        <5>2. SeenPins(v)' = {p \in pins' : p.user = v}
          BY DEF SeenPins, PinsAreVisible
        <5>3. \A p : p \in {q \in pins' : q.user = v} <=> p \in {q \in pins : q.user = v}
          BY <3>1
        <5> QED
          BY <5>1, <5>2, <5>3
      <4>2. ASSUME NEW p \in SeenPins(v) PROVE msgs'[p.msg].ver = msgs[p.msg].ver
        <5>1. p \in pins /\ p.user = v /\ p.msg \in SeenBy(v)
          BY <1>0, <4>2 DEF SeenPins, SeenBy, InPlace
        <5>2. CASE p.msg = key
          BY <3>1, <5>1, <5>2
        <5>3. CASE p.msg # key
          BY <1>6, <5>1, <5>3
        <5> QED
          BY <5>2, <5>3
      <4> QED
        BY <2>3, <4>1, <4>2, PinsSame
    <3> QED
      BY <3>1
  <2>4. PeerRead(v)' = PeerRead(v)
    <3>1. MarkTypes /\ MarkTypes' /\ Len(msgs) \in Nat /\ Keys = 1 .. Len(msgs)
      BY <1>0, MessagesTyped, Typed DEF MarkTypes
    <3>2. Kept(v) \subseteq Kept(v)'
      BY DEF MessagesStay, Kept, blockVars
    <3>3. readKey[Peer(v)] \in Nat /\ readKey[Peer(v)] <= Len(msgs) /\ readKey'[Peer(v)] = readKey[Peer(v)]
      BY <1>0, <3>1, AnyoneHasAPeer DEF InPlace, MarkTypes
    <3>4. ASSUME NEW k \in Kept(v)', k \notin Kept(v) PROVE k > readKey[Peer(v)]
      <4>1. k \notin Keys
        BY <3>4 DEF MessagesStay, Kept, blockVars
      <4>2. k \in Nat \ {0}
        BY <3>1, LenProperties DEF Kept, Keys, MarkTypes
      <4> QED
        BY <3>1, <3>3, <4>1, <4>2
    <3> QED
      BY <3>1, <3>2, <3>3, <3>4, MarkStays
  <2> QED
    BY <1>0, <1>2, <1>3, <1>4, <2>1, <2>2, <2>3, <2>4, ToldIsLogged
<1> QED
  BY <1>5, <1>7 DEF StepHolds

\* A step that changes message `k` to `m`, and may take pins away.
ChangeStep(k, m, us, vs) ==
    /\ m \in Messages /\ msgs' = [msgs EXCEPT ![k] = m]
    /\ m.author = msgs[k].author /\ m.withheld = msgs[k].withheld /\ m.client = msgs[k].client
    /\ UNCHANGED <<readKey, marked, archived, blockVars, req>>
    /\ pins' \subseteq pins /\ \A p \in pins' : p.msg = k => Visible(m, p.user)
    /\ Journal(Then(To(us, MsgRow(k)), To(vs, PinRow)))
    /\ \A v \in Users : v \in us => (m.withheld => m.author = v)
    /\ \A v \in Users : v \notin us =>
         /\ Visible(m, v) <=> Visible(msgs[k], v)
         /\ Visible(m, v) => m.ver = msgs[k].ver
    /\ \A p \in pins : p.user \notin vs => p \in pins' /\ (p.msg = k => m.ver = msgs[k].ver)

LEMMA ChangeHolds ==
    ASSUME JournalInv, NEW k \in Keys, NEW m, NEW us, NEW vs, ChangeStep(k, m, us, vs)
    PROVE  StepHolds
<1> USE DEF ChangeStep
<1>0. TypeOK /\ InPlace /\ PinsAreVisible /\ NoDuplicateSend
  BY DEF JournalInv
<1>1. /\ msgs' \in Seq(Messages) /\ Len(msgs') = Len(msgs) /\ Keys' = Keys
      /\ msgs'[k] = m /\ \A j \in Keys \ {k} : msgs'[j] = msgs[j]
  BY <1>0, OneChanged
<1>2. MessagesStay
  BY <1>1 DEF MessagesStay
<1>3. NoDuplicateSend'
  <2>1. \A j \in Keys : msgs'[j].author = msgs[j].author /\ msgs'[j].client = msgs[j].client
    BY <1>1
  <2> QED
    BY <1>0, <1>1, <2>1 DEF NoDuplicateSend
<1>4. PinsAreVisible'
  <2>1. ASSUME NEW p \in pins' PROVE Visible(msgs[p.msg], p.user)'
    <3>1. p.msg \in Keys /\ Visible(msgs[p.msg], p.user)
      BY <1>0, <2>1 DEF InPlace, PinsAreVisible
    <3>2. CASE p.msg = k
      BY <1>1, <3>2 DEF Visible
    <3>3. CASE p.msg # k
      BY <1>1, <3>1, <3>3 DEF Visible
    <3> QED
      BY <3>2, <3>3
  <2> QED
    BY <2>1 DEF PinsAreVisible
<1> DEFINE new == Then(To(us, MsgRow(k)), To(vs, PinRow))
<1>5. TellsBoth(new, us, [kind |-> "msg", msg |-> k], vs, [kind |-> "pin", msg |-> 0])
  <2>1. k \in Nat
    BY <1>0, MessagesTyped
  <2> HIDE DEF ChangeStep
  <2> QED
    BY <2>1, RowsOfMessage
<1> HIDE DEF new
<1>6. Journal(new)
  BY DEF new
<1>7. /\ archived' \in [Users -> BOOLEAN] /\ req' \in [Requests -> RequestStates]
      /\ pins' \subseteq [user : Users, msg : Nat, both : BOOLEAN]
      /\ \A p \in pins' : p.msg \in Keys'
      /\ \A r \in Requests : req'[r].stage = "sent" => req'[r].key \in Keys'
      /\ Len(msgs') <= MaxMsgs
  BY <1>0, <1>1, Typed DEF InPlace
<1>8. \A v \in Users : v \notin us =>
        /\ archived'[v] = archived[v]
        /\ k \in SeenBy(v)' <=> k \in SeenBy(v)
        /\ k \in SeenBy(v) => msgs'[k].ver = msgs[k].ver
  BY <1>1 DEF SeenBy, Visible
<1>9. /\ \A j \in Keys' \ {k} : j \in Keys /\ msgs'[j] = msgs[j]
      /\ k \in Keys'
      /\ \A v \in Users : v \in us /\ msgs'[k].withheld => msgs'[k].author = v
  BY <1>1
<1>10. /\ \A p : p.user \notin vs => (p \in pins' <=> p \in pins)
       /\ \A p \in pins : p.user \notin vs /\ p.msg = k => msgs'[k].ver = msgs[k].ver
  BY <1>1
<1>11. UNCHANGED <<readKey, marked, blockVars>> /\ msgs' \in Seq(Messages)
  BY <1>1
<1>12. MessageStep(k, us, vs, new)
  <2> HIDE DEF ChangeStep
  <2> QED
    BY <1>2, <1>3, <1>4, <1>5, <1>6, <1>7, <1>8, <1>9, <1>10, <1>11 DEF MessageStep
<1> QED
  BY <1>12, MessageStepHolds

LEMMA EditHolds ==
    ASSUME JournalInv, NEW u \in Users, NEW k \in Keys, Edit(u, k)
    PROVE  StepHolds
<1>a. PICK m : m = [msgs[k] EXCEPT !.ver = msgs[k].ver + 1]
  OBVIOUS
<1>b. PICK told : told = Audience(msgs[k])
  OBVIOUS
<1>c. PICK holders : holders = PinHolders(k) \cap told
  OBVIOUS
<1>1. msgs[k] \in Messages /\ msgs[k].ver < MaxVer
  BY MessagesTyped DEF JournalInv, Edit
<1>2. /\ m \in Messages /\ m.author = msgs[k].author /\ m.withheld = msgs[k].withheld
      /\ m.client = msgs[k].client /\ m.deleted = msgs[k].deleted /\ m.hidden = msgs[k].hidden
  BY <1>a, <1>1, ConvAssumption DEF Messages
<1>3. /\ msgs' = [msgs EXCEPT ![k] = m]
      /\ UNCHANGED <<readKey, marked, archived, pins, blockVars, req>>
      /\ Journal(Then(To(told, MsgRow(k)), To(holders, PinRow)))
  BY <1>a, <1>b, <1>c DEF Edit
<1>4. \A v \in Users : v \in told <=> (msgs[k].withheld => msgs[k].author = v)
  BY <1>b, <1>1 DEF Audience, Messages
<1>5. \A v : Visible(m, v) <=> Visible(msgs[k], v)
  BY <1>2 DEF Visible
<1>6. \A v \in Users : v \notin told => ~ Visible(m, v)
  BY <1>2, <1>4 DEF Visible
<1>7. \A p \in pins : p.user \in Users /\ p.msg \in Keys /\ Visible(msgs[p.msg], p.user)
  BY Typed DEF JournalInv, InPlace, PinsAreVisible
<1>8. \A p \in pins : p.user \notin holders => p.msg # k
  BY <1>5, <1>6, <1>7, <1>c DEF PinHolders, HasPin
<1>9. pins' \subseteq pins /\ \A p \in pins' : p.msg = k => Visible(m, p.user)
  BY <1>3, <1>5, <1>7
<1>10. \A v \in Users : v \in told => (m.withheld => m.author = v)
  BY <1>2, <1>4
<1>11. \A v \in Users : v \notin told =>
         /\ Visible(m, v) <=> Visible(msgs[k], v)
         /\ Visible(m, v) => m.ver = msgs[k].ver
  BY <1>5, <1>6
<1>12. \A p \in pins : p.user \notin holders => p \in pins' /\ (p.msg = k => m.ver = msgs[k].ver)
  BY <1>3, <1>8
<1>13. UNCHANGED <<readKey, marked, archived, blockVars, req>>
  BY <1>3
<1>14. ChangeStep(k, m, told, holders)
  BY <1>2, <1>3, <1>9, <1>10, <1>11, <1>12, <1>13 DEF ChangeStep
<1> QED
  BY <1>14, ChangeHolds

LEMMA HideHolds ==
    ASSUME JournalInv, NEW u \in Users, NEW k \in Keys, Hide(u, k)
    PROVE  StepHolds
<1>a. PICK m : m = [msgs[k] EXCEPT !.hidden = msgs[k].hidden \cup {u}]
  OBVIOUS
<1>b. PICK holders : holders = {u} \cap PinHolders(k)
  OBVIOUS
<1>1. msgs[k] \in Messages /\ Visible(msgs[k], u)
  BY MessagesTyped DEF JournalInv, Hide
<1>2. /\ m \in Messages /\ m.author = msgs[k].author /\ m.withheld = msgs[k].withheld
      /\ m.client = msgs[k].client /\ m.deleted = msgs[k].deleted /\ m.hidden = msgs[k].hidden \cup {u}
      /\ m.ver = msgs[k].ver
  BY <1>a, <1>1 DEF Messages
<1>3. /\ msgs' = [msgs EXCEPT ![k] = m]
      /\ UNCHANGED <<readKey, marked, archived, blockVars, req>>
      /\ pins' = {p \in pins : ~ (p.user = u /\ p.msg = k)}
      /\ Journal(Then(To({u}, MsgRow(k)), To(holders, PinRow)))
  BY <1>a, <1>b DEF Hide
<1>4. \A v : v # u => (Visible(m, v) <=> Visible(msgs[k], v))
  BY <1>2 DEF Visible
<1>5. m.withheld => m.author = u
  BY <1>1, <1>2 DEF Visible
<1>6. \A p \in pins : p.user \in Users /\ p.msg \in Keys /\ Visible(msgs[p.msg], p.user)
  BY Typed DEF JournalInv, InPlace, PinsAreVisible
<1>7. \A p \in pins : p.user \notin holders => p \in pins'
  BY <1>3, <1>6, <1>b DEF PinHolders, HasPin
<1>8. pins' \subseteq pins /\ \A p \in pins' : p.msg = k => Visible(m, p.user)
  BY <1>3, <1>4, <1>6
<1>9. \A v \in Users : v \in {u} => (m.withheld => m.author = v)
  BY <1>5
<1>10. \A v \in Users : v \notin {u} =>
         /\ Visible(m, v) <=> Visible(msgs[k], v)
         /\ Visible(m, v) => m.ver = msgs[k].ver
  BY <1>2, <1>4
<1>11. \A p \in pins : p.user \notin holders => p \in pins' /\ (p.msg = k => m.ver = msgs[k].ver)
  BY <1>2, <1>7
<1>12. ChangeStep(k, m, {u}, holders)
  BY <1>2, <1>3, <1>8, <1>9, <1>10, <1>11 DEF ChangeStep
<1> QED
  BY <1>12, ChangeHolds

LEMMA DeleteHolds ==
    ASSUME JournalInv, NEW u \in Users, NEW k \in Keys, DeleteForBoth(u, k)
    PROVE  StepHolds
<1>a. PICK m : m = [msgs[k] EXCEPT !.deleted = TRUE]
  OBVIOUS
<1>b. PICK told : told = Audience(msgs[k])
  OBVIOUS
<1>c. PICK holders : holders = PinHolders(k)
  OBVIOUS
<1>1. msgs[k] \in Messages
  BY MessagesTyped DEF JournalInv
<1>2. /\ m \in Messages /\ m.author = msgs[k].author /\ m.withheld = msgs[k].withheld
      /\ m.client = msgs[k].client /\ m.deleted = TRUE
  BY <1>a, <1>1 DEF Messages
<1>3. /\ msgs' = [msgs EXCEPT ![k] = m]
      /\ UNCHANGED <<readKey, marked, archived, blockVars, req>>
      /\ pins' = {p \in pins : p.msg # k}
      /\ Journal(Then(To(told, MsgRow(k)), To(holders, PinRow)))
  BY <1>a, <1>b, <1>c DEF DeleteForBoth
<1>4. \A v \in Users : v \in told <=> (msgs[k].withheld => msgs[k].author = v)
  BY <1>b, <1>1 DEF Audience, Messages
<1>5. \A v \in Users : v \notin told => ~ Visible(m, v) /\ ~ Visible(msgs[k], v)
  BY <1>2, <1>4 DEF Visible
<1>6. \A p \in pins : p.user \in Users
  BY Typed DEF JournalInv
<1>7. \A p \in pins : p.user \notin holders => p \in pins' /\ p.msg # k
  BY <1>3, <1>6, <1>c DEF PinHolders, HasPin
<1>8. pins' \subseteq pins /\ \A p \in pins' : p.msg = k => Visible(m, p.user)
  BY <1>3
<1>9. \A v \in Users : v \in told => (m.withheld => m.author = v)
  BY <1>2, <1>4
<1>10. \A v \in Users : v \notin told =>
         /\ Visible(m, v) <=> Visible(msgs[k], v)
         /\ Visible(m, v) => m.ver = msgs[k].ver
  BY <1>5
<1>11. \A p \in pins : p.user \notin holders => p \in pins' /\ (p.msg = k => m.ver = msgs[k].ver)
  BY <1>7
<1>12. ChangeStep(k, m, told, holders)
  BY <1>2, <1>3, <1>8, <1>9, <1>10, <1>11 DEF ChangeStep
<1> QED
  BY <1>12, ChangeHolds

\* A new message: what it leaves as it was, and that no client_id comes twice.
LEMMA Appended ==
    ASSUME JournalInv, NEW m \in Messages, msgs' = Append(msgs, m), Len(msgs) < MaxMsgs,
           ~ Known(m.author, m.client) \/ m.client = NoClient,
           NEW key, key = Len(msgs) + 1
    PROVE  /\ MessagesStay /\ msgs' \in Seq(Messages) /\ Len(msgs') <= MaxMsgs /\ NoDuplicateSend'
           /\ msgs'[key] = m /\ key \in Keys' /\ key \in Nat /\ key \notin Keys
           /\ \A j \in Keys' \ {key} : j \in Keys /\ msgs'[j] = msgs[j]
           /\ \A v : key \notin SeenBy(v) /\ (key \in SeenBy(v)' <=> Visible(m, v))
           /\ \A p \in pins : p.msg \in Keys' /\ p.msg # key /\ Visible(msgs'[p.msg], p.user)
<1>0. TypeOK /\ InPlace /\ PinsAreVisible /\ NoDuplicateSend
  BY DEF JournalInv
<1>1. /\ msgs' \in Seq(Messages) /\ Len(msgs') = Len(msgs) + 1 /\ Keys' = Keys \cup {key}
      /\ msgs'[key] = m /\ key \notin Keys /\ key \in Nat
      /\ \A j \in Keys : msgs'[j] = msgs[j]
  BY <1>0, OneAppended
<1>2. Len(msgs') <= MaxMsgs
  BY <1>0, <1>1, MessagesTyped, ConvAssumption
<1>3. MessagesStay
  BY <1>1 DEF MessagesStay
<1>4. NoDuplicateSend'
  <2>1. ASSUME NEW i \in Keys', NEW j \in Keys',
               msgs'[i].author = msgs'[j].author, msgs'[i].client = msgs'[j].client, msgs'[i].client # NoClient
        PROVE  i = j
    <3>1. CASE i \in Keys /\ j \in Keys
      BY <1>0, <1>1, <2>1, <3>1 DEF NoDuplicateSend
    <3>2. CASE i = key /\ j \in Keys
      <4>1. Known(m.author, m.client) /\ m.client # NoClient
        BY <1>1, <2>1, <3>2 DEF Known
      <4> QED
        BY <4>1
    <3>3. CASE i \in Keys /\ j = key
      <4>1. Known(m.author, m.client) /\ m.client # NoClient
        BY <1>1, <2>1, <3>3 DEF Known
      <4> QED
        BY <4>1
    <3> QED
      BY <1>1, <3>1, <3>2, <3>3
  <2> QED
    BY <2>1 DEF NoDuplicateSend
<1>5. \A v : key \notin SeenBy(v) /\ (key \in SeenBy(v)' <=> Visible(m, v))
  BY <1>1 DEF SeenBy, Visible
<1>6. \A p \in pins : p.msg \in Keys' /\ p.msg # key /\ Visible(msgs'[p.msg], p.user)
  BY <1>0, <1>1 DEF InPlace, PinsAreVisible
<1> QED
  BY <1>1, <1>2, <1>3, <1>4, <1>5, <1>6

LEMMA ArchiveAfter ==
    ASSUME TypeOK, NEW u, NEW reached, NEW muting, Unarchive(u, reached, muting)
    PROVE  archived' \in [Users -> BOOLEAN] /\ \A v \in Users : v \notin reached => archived'[v] = archived[v]
<1>1. archived \in [Users -> BOOLEAN]
  BY Typed
<1>2. ASSUME NEW v \in Users, v \notin reached PROVE archived'[v] = archived[v]
  <2>1. archived'[v] = (archived[v] /\ (v \notin reached \/ (v # u /\ v \in muting)))
    BY DEF Unarchive
  <2>2. archived[v] \in BOOLEAN
    BY <1>1
  <2>3. CASE archived[v] = TRUE
    BY <1>2, <2>1, <2>3
  <2>4. CASE archived[v] = FALSE
    BY <2>1, <2>4
  <2> QED
    BY <2>2, <2>3, <2>4
<1>3. archived' \in [Users -> BOOLEAN]
  BY DEF Unarchive
<1> QED
  BY <1>2, <1>3

LEMMA CreateHolds ==
    ASSUME JournalInv, NEW r \in Requests, Create(r)
    PROVE  StepHolds
<1>0. /\ TypeOK /\ req \in [Requests -> RequestStates]
      /\ \A x \in Requests : req[x].stage = "sent" => req[x].key \in Keys
      /\ pins \subseteq [user : Users, msg : Nat, both : BOOLEAN]
  BY Typed DEF JournalInv, InPlace
<1>1. PICK u, c, w : u = req[r].user /\ c = req[r].client /\ w = req[r].withheld
  OBVIOUS
<1>2. u \in Users /\ c \in Clients /\ w \in BOOLEAN
  BY <1>0, <1>1, RequestShapes DEF Create
<1>3. PICK m : m = NewMessage(u, c, w, FALSE)
  OBVIOUS
<1>4. /\ m \in Messages /\ m.author = u /\ m.client = c /\ m.withheld = w
  BY <1>2, <1>3, ConvAssumption DEF NewMessage, Messages
<1>5. PICK key : key = Len(msgs) + 1
  OBVIOUS
<1>6. PICK us : us = Audience(m)
  OBVIOUS
<1>7. PICK new : new = To(us, MsgRow(key))
  OBVIOUS
<1>8. /\ ~ Known(u, c) /\ msgs' = Append(msgs, m) /\ Len(msgs) < MaxMsgs
      /\ \E muting \in SUBSET Users : Unarchive(u, us, muting)
      /\ Journal(new)
      /\ req' = [req EXCEPT ![r] = IF m.withheld THEN Idle ELSE [stage |-> "sent", user |-> u, key |-> key]]
      /\ UNCHANGED <<readKey, marked, pins, blockVars>>
  BY <1>1, <1>3, <1>5, <1>6, <1>7 DEF Create
<1>9. /\ MessagesStay /\ msgs' \in Seq(Messages) /\ Len(msgs') <= MaxMsgs /\ NoDuplicateSend'
      /\ msgs'[key] = m /\ key \in Keys' /\ key \in Nat
      /\ \A j \in Keys' \ {key} : j \in Keys /\ msgs'[j] = msgs[j]
      /\ \A v : key \notin SeenBy(v) /\ (key \in SeenBy(v)' <=> Visible(m, v))
      /\ \A p \in pins : p.msg \in Keys' /\ p.msg # key /\ Visible(msgs'[p.msg], p.user)
  BY <1>4, <1>5, <1>8, Appended
<1>10. archived' \in [Users -> BOOLEAN] /\ \A v \in Users : v \notin us => archived'[v] = archived[v]
  BY <1>0, <1>8, ArchiveAfter
<1>11. /\ req' \in [Requests -> RequestStates]
       /\ \A x \in Requests : req'[x].stage = "sent" => req'[x].key \in Keys'
  <2>1. PICK q : q = IF m.withheld THEN Idle ELSE [stage |-> "sent", user |-> u, key |-> key]
    OBVIOUS
  <2>2. q \in RequestStates /\ (q.stage = "sent" => q.key = key)
    BY <1>2, <1>9, <2>1 DEF RequestStates, Idle
  <2>3. req' = [req EXCEPT ![r] = q]
    BY <1>8, <2>1
  <2>4. Keys \subseteq Keys'
    BY <1>9 DEF MessagesStay
  <2> QED
    BY <1>0, <1>9, <2>2, <2>3, <2>4
<1>12. TellsBoth(new, us, [kind |-> "msg", msg |-> key], {}, [kind |-> "pin", msg |-> 0])
  BY <1>7, <1>9, RowsOfMessageAlone, Zenon
<1>13. /\ \A v \in Users : v \in us /\ m.withheld => m.author = v
       /\ \A v \in Users : v \notin us => ~ Visible(m, v)
  BY <1>6 DEF Audience, Visible
<1>14. PinsAreVisible'
  BY <1>8, <1>9 DEF PinsAreVisible, Visible
<1>15. /\ \A v \in Users : v \in us /\ msgs'[key].withheld => msgs'[key].author = v
       /\ \A v \in Users : v \notin us =>
            /\ archived'[v] = archived[v]
            /\ key \in SeenBy(v)' <=> key \in SeenBy(v)
            /\ key \in SeenBy(v) => msgs'[key].ver = msgs[key].ver
  BY <1>9, <1>10, <1>13
<1>16. MessageStep(key, us, {}, new)
  BY <1>0, <1>8, <1>9, <1>10, <1>11, <1>12, <1>14, <1>15 DEF MessageStep
<1> QED
  BY <1>16, MessageStepHolds

\* The pins after `changed` pinned message `k`, which each of them sees.
LEMMA PinsAfter ==
    ASSUME JournalInv, NEW k \in Keys, NEW scope, NEW changed \in SUBSET Users,
           \A v \in changed : Visible(msgs[k], v),
           pins' = {p \in pins : ~ (p.msg = k /\ p.user \in changed)}
                     \cup [user : changed, msg : {k}, both : {scope = "both"}]
    PROVE  /\ pins' \subseteq [user : Users, msg : Nat, both : BOOLEAN]
           /\ \A p \in pins' : p.msg \in Keys /\ Visible(msgs[p.msg], p.user)
           /\ \A p : p.user \notin changed => (p \in pins' <=> p \in pins)
<1>0. /\ pins \subseteq [user : Users, msg : Nat, both : BOOLEAN] /\ k \in Nat
      /\ \A p \in pins : p.msg \in Keys /\ Visible(msgs[p.msg], p.user)
  BY Typed, MessagesTyped DEF JournalInv, InPlace, PinsAreVisible
<1>1. PICK added : added = [user : changed, msg : {k}, both : {scope = "both"}]
  OBVIOUS
<1>2. (scope = "both") \in BOOLEAN
  OBVIOUS
<1>3. added \subseteq [user : Users, msg : Nat, both : BOOLEAN] /\ \A p \in added : p.user \in changed /\ p.msg = k
  BY <1>0, <1>1, <1>2
<1>4. pins' = {p \in pins : ~ (p.msg = k /\ p.user \in changed)} \cup added
  BY <1>1
<1>5. pins' \subseteq [user : Users, msg : Nat, both : BOOLEAN]
  BY <1>0, <1>3, <1>4
<1>6. \A p \in pins' : p.msg \in Keys /\ Visible(msgs[p.msg], p.user)
  BY <1>0, <1>3, <1>4
<1>7. \A p : p.user \notin changed => (p \in pins' <=> p \in pins)
  BY <1>3, <1>4
<1> QED
  BY <1>5, <1>6, <1>7

\* Only pins change.
LEMMA OnlyPinsChange ==
    ASSUME JournalInv, NEW k \in Keys, NEW vs, Journal(To(vs, PinRow)),
           UNCHANGED <<msgs, readKey, marked, archived, blockVars, req>>,
           pins' \subseteq [user : Users, msg : Nat, both : BOOLEAN],
           \A p \in pins' : p.msg \in Keys /\ Visible(msgs[p.msg], p.user),
           \A p : p.user \notin vs => (p \in pins' <=> p \in pins)
    PROVE  StepHolds
<1>0. TypeOK /\ InPlace /\ NoDuplicateSend
  BY DEF JournalInv
<1>1. PICK new : new = To(vs, PinRow)
  OBVIOUS
<1>2. TellsBoth(new, {}, [kind |-> "msg", msg |-> k], vs, [kind |-> "pin", msg |-> 0])
  BY <1>1, RowsOfPinsAlone, Zenon
<1>3. Journal(new)
  BY <1>1
<1>4. Keys' = Keys /\ MessagesStay
  BY DEF MessagesStay, Keys
<1>5. NoDuplicateSend'
  BY <1>0 DEF NoDuplicateSend, Keys
<1>6. PinsAreVisible'
  BY DEF PinsAreVisible, Visible
<1>7. \A v : k \in SeenBy(v)' <=> k \in SeenBy(v)
  BY DEF SeenBy, Visible, Keys
<1>8. /\ msgs' \in Seq(Messages) /\ Len(msgs') <= MaxMsgs
      /\ archived' \in [Users -> BOOLEAN] /\ req' \in [Requests -> RequestStates]
      /\ \A r \in Requests : req'[r].stage = "sent" => req'[r].key \in Keys'
  BY <1>0, <1>4, Typed DEF InPlace
<1>9. MessageStep(k, {}, vs, new)
  BY <1>2, <1>3, <1>4, <1>5, <1>6, <1>7, <1>8 DEF MessageStep
<1> QED
  BY <1>9, MessageStepHolds

LEMMA UnpinHolds ==
    ASSUME JournalInv, NEW u \in Users, NEW k \in Keys, NEW scope, Unpin(u, k, scope)
    PROVE  StepHolds
<1>1. PICK out : out = {p \in pins : /\ p.msg = k
                                     /\ \/ p.user = u
                                        \/ scope = "both" /\ p.both /\ p.user \notin BlockersOf(u)}
  OBVIOUS
<1>2. PICK vs : vs = {p.user : p \in out}
  OBVIOUS
<1>3. /\ pins' = pins \ out /\ Journal(To(vs, PinRow))
      /\ UNCHANGED <<msgs, readKey, marked, archived, blockVars, req>>
  BY <1>1, <1>2 DEF Unpin
<1>4. \A p : p.user \notin vs => (p \in pins' <=> p \in pins)
  BY <1>2, <1>3
<1>5. /\ pins \subseteq [user : Users, msg : Nat, both : BOOLEAN]
      /\ \A p \in pins : p.msg \in Keys /\ Visible(msgs[p.msg], p.user)
  BY Typed DEF JournalInv, InPlace, PinsAreVisible
<1>6. /\ pins' \subseteq [user : Users, msg : Nat, both : BOOLEAN]
      /\ \A p \in pins' : p.msg \in Keys /\ Visible(msgs[p.msg], p.user)
  BY <1>3, <1>5
<1> QED
  BY <1>3, <1>4, <1>6, OnlyPinsChange

LEMMA PinHolds ==
    ASSUME JournalInv, NEW u \in Users, NEW k \in Keys, NEW scope, Pin(u, k, scope)
    PROVE  StepHolds
<1>0. TypeOK
  BY DEF JournalInv
<1>1. PICK targets : targets = PinTargets(u, k, scope)
  OBVIOUS
<1>2. PICK changed : changed = {v \in targets : ~ HasPin(v, k) /\ ~ PinsFull(v)}
                        \cup {v \in targets : scope = "both" /\ \E p \in pins : p.user = v /\ p.msg = k /\ ~ p.both}
  OBVIOUS
<1>3. PICK m : m = NewMessage(u, NoClient, FALSE, TRUE)
  OBVIOUS
<1>4. PICK key : key = Len(msgs) + 1
  OBVIOUS
<1>5. /\ Visible(msgs[k], u)
      /\ pins' = {p \in pins : ~ (p.msg = k /\ p.user \in changed)}
                   \cup [user : changed, msg : {k}, both : {scope = "both"}]
      /\ \/ /\ Journal(To(changed, PinRow))
            /\ UNCHANGED <<msgs, archived>>
         \/ /\ Len(msgs) < MaxMsgs
            /\ msgs' = Append(msgs, m)
            /\ \E muting \in SUBSET Users : Unarchive(u, Users, muting)
            /\ Journal(Then(To(changed, PinRow), To(Users, MsgRow(key))))
      /\ UNCHANGED <<readKey, marked, blockVars, req>>
  BY <1>1, <1>2, <1>3, <1>4, Zenon DEF Pin
<1>6. changed \in SUBSET Users /\ \A v \in changed : Visible(msgs[k], v)
  BY <1>1, <1>2, <1>5 DEF PinTargets
<1>7. /\ pins' \subseteq [user : Users, msg : Nat, both : BOOLEAN]
      /\ \A p \in pins' : p.msg \in Keys /\ Visible(msgs[p.msg], p.user)
      /\ \A p : p.user \notin changed => (p \in pins' <=> p \in pins)
  BY <1>5, <1>6, PinsAfter
<1>8. CASE Journal(To(changed, PinRow)) /\ UNCHANGED <<msgs, archived>>
  BY <1>5, <1>7, <1>8, OnlyPinsChange
<1>9. ASSUME Len(msgs) < MaxMsgs, msgs' = Append(msgs, m),
             \E muting \in SUBSET Users : Unarchive(u, Users, muting),
             Journal(Then(To(changed, PinRow), To(Users, MsgRow(key))))
      PROVE  StepHolds
  <2>1. m \in Messages /\ m.client = NoClient /\ m.withheld = FALSE
    BY <1>3, ConvAssumption DEF NewMessage, Messages
  <2>2. /\ MessagesStay /\ msgs' \in Seq(Messages) /\ Len(msgs') <= MaxMsgs /\ NoDuplicateSend'
        /\ msgs'[key] = m /\ key \in Keys' /\ key \in Nat /\ key \notin Keys
        /\ \A j \in Keys' \ {key} : j \in Keys /\ msgs'[j] = msgs[j]
    BY <1>4, <1>9, <2>1, Appended
  <2>3. \A j \in Keys : j \in Keys' /\ msgs'[j] = msgs[j]
    BY <2>2 DEF MessagesStay
  <2>4. archived' \in [Users -> BOOLEAN]
    BY <1>0, <1>9, ArchiveAfter
  <2>5. PICK new : new = Then(To(changed, PinRow), To(Users, MsgRow(key)))
    OBVIOUS
  <2>6. TellsBoth(new, Users, [kind |-> "msg", msg |-> key], changed, [kind |-> "pin", msg |-> 0])
    BY <2>2, <2>5, RowsOfMessage, Zenon
  <2>7. Journal(new)
    BY <1>9, <2>5
  <2>8. PinsAreVisible' /\ \A p \in pins' : p.msg \in Keys'
    BY <1>7, <2>3 DEF PinsAreVisible, Visible
  <2>9. \A p \in pins : p.msg # key
    BY <2>2 DEF JournalInv, InPlace
  <2>10. /\ req' \in [Requests -> RequestStates]
         /\ \A r \in Requests : req'[r].stage = "sent" => req'[r].key \in Keys'
    BY <1>0, <1>5, <2>3, Typed DEF JournalInv, InPlace
  <2>11. MessageStep(key, Users, changed, new)
    BY <1>5, <1>7, <2>1, <2>2, <2>4, <2>6, <2>7, <2>8, <2>9, <2>10 DEF MessageStep
  <2> QED
    BY <2>11, MessageStepHolds
<1> QED
  BY <1>5, <1>8, <1>9

LEMMA StepKeeps ==
    ASSUME JournalInv, [Next]_vars
    PROVE  StepHolds
<1>1. CASE UNCHANGED vars
  <2>1. UNCHANGED <<convVars, blockVars, journalVars, req>>
    BY <1>1 DEF vars, convVars, blockVars, journalVars
  <2>2. \A u \in Users : PeerRead(u)' = PeerRead(u)
    BY <2>1, MarkSame DEF convVars
  <2> QED
    BY <2>1, <2>2, AsideFromView, Typed DEF JournalInv, InPlace, blockVars
<1>2. ASSUME NEW r \in Requests, NEW u \in Users, NEW c \in Clients, Decide(r, u, c) PROVE StepHolds
  BY <1>2, DecideHolds
<1>3. ASSUME NEW r \in Requests, Replay(r) \/ Create(r) \/ ReadOwn(r) \/ Abort(r) PROVE StepHolds
  BY <1>3, IdleHolds, CreateHolds, ReadActionsHold
<1>4. ASSUME NEW u \in Users, NEW k \in Keys, MarkRead(u, k) \/ Edit(u, k) \/ Hide(u, k) \/ DeleteForBoth(u, k)
      PROVE  StepHolds
  BY <1>4, ReadActionsHold, EditHolds, HideHolds, DeleteHolds
<1>5. ASSUME NEW u \in Users, NEW k \in Keys, NEW scope, Pin(u, k, scope) \/ Unpin(u, k, scope) PROVE StepHolds
  BY <1>5, PinHolds, UnpinHolds
<1>6. ASSUME NEW u \in Users, SetUnreadMark(u) \/ SetArchived(u) \/ Block(u) \/ Unblock(u) \/ PruneJournal(u)
      PROVE  StepHolds
  BY <1>6, OwnMarkHolds, BlockHolds, PruneHolds
<1> QED
  BY <1>1, <1>2, <1>3, <1>4, <1>5, <1>6 DEF Next

LEMMA InitHolds ==
    ASSUME Init
    PROVE  JournalInv
<1>1. msgs = <<>> /\ Len(msgs) = 0 /\ Keys = {} /\ msgs \in Seq(Messages)
  BY DEF Init, Keys
<1>2. req \in [Requests -> RequestStates] /\ \A r \in Requests : req[r].stage # "sent"
  BY DEF Init, RequestStates, Idle
<1>3. \A u \in Users : DOMAIN rows[u] = {} /\ rows[u] = [p \in {} |-> [kind |-> "msg", msg |-> 0]]
  BY DEF Init
<1>4. TypeOK
  <2>1. \A u \in Users : rows[u] \in [DOMAIN rows[u] -> [kind : {"msg", "read", "draft", "pin"}, msg : Nat]]
    BY <1>3
  <2> QED
    BY <1>1, <1>2, <2>1 DEF Init, TypeOK, Messages
<1>5. InPlace
  BY <1>1, <1>2, ConvAssumption DEF Init, InPlace
<1>6. RowsInOrder
  BY <1>3 DEF Init, RowsInOrder
<1>7. PinsAreVisible
  BY DEF Init, PinsAreVisible
<1>8. NoDuplicateSend
  BY <1>1 DEF NoDuplicateSend
<1> QED
  BY <1>4, <1>5, <1>6, <1>7, <1>8 DEF JournalInv

LEMMA LogsStart ==
    ASSUME Init, NEW u \in Users
    PROVE  Log(u)!LogInit
<1>1. JournalInv
  BY InitHolds
<1>2. ConvView(u) \in [ConvEntities -> SUBSET Seq(Nat)]
  <2>1. \A e \in ConvEntities : ConvView(u)[e] \in SUBSET Seq(Nat)
    BY <1>1, ViewParts, LooksTyped DEF ViewsInParts, LooksAreSets, ConvEntities, JournalInv
  <2>2. ConvView(u) = [e \in ConvEntities |-> ConvView(u)[e]]
    BY ViewParts DEF ViewsInParts
  <2> QED
    BY <2>1, <2>2
<1> QED
  BY <1>2 DEF Init, Log!LogInit

----------------------------------------------------------------------------
(* What holds of every run.                                                *)

\* The shapes of what is stored, and what ties it together: pins, read marks and
\* rows (journal) name messages that are there, rows are numbered without
\* passing user_sync.pts, pins are visible, client ids are not repeated.
THEOREM InvariantHolds == Spec => []JournalInv
<1>1. Init => JournalInv
  BY InitHolds
<1>2. JournalInv /\ [Next]_vars => JournalInv'
  BY StepKeeps DEF StepHolds
<1> QED
  BY <1>1, <1>2, PTL DEF Spec

\* Everything stored has the shape the code gives it.
THEOREM TypeCorrect == Spec => []TypeOK
<1>1. JournalInv => TypeOK
  BY DEF JournalInv
<1> QED
  BY <1>1, InvariantHolds, PTL

\* A pin never outlives the message for the one who pinned it: hiding, deleting
\* for both and withholding take it off, or it is never put (pinMessage,
\* deleteMessageTx).
THEOREM PinsGoWithTheMessage == Spec => []PinsAreVisible
<1>1. JournalInv => PinsAreVisible
  BY DEF JournalInv
<1> QED
  BY <1>1, InvariantHolds, PTL

\* One client_id of one author is one message, however often and from however
\* many requests at once it is sent (sendMessage under lockConversation).
THEOREM NoMessageTwice == Spec => []NoDuplicateSend
<1>1. JournalInv => NoDuplicateSend
  BY DEF JournalInv
<1> QED
  BY <1>1, InvariantHolds, PTL

\* What a blocked author sends, edits and deletes leaves no trace in the
\* journal of the one who blocks him (changeAudience, journal).
THEOREM WithheldStaysUntold == Spec => []NoRowTellsOfWithheld
<1>1. ASSUME JournalInv PROVE NoRowTellsOfWithheld
  <2>1. ASSUME NEW u \in Users, NEW p \in DOMAIN rows[u], rows[u][p].msg # 0
        PROVE  ~ (msgs[rows[u][p].msg].withheld /\ msgs[rows[u][p].msg].author # u)
    <3>1. FineRow(u, rows[u][p])
      BY <1>1 DEF JournalInv, RowsInOrder
    <3> QED
      BY <2>1, <3>1 DEF FineRow
  <2> QED
    BY <2>1 DEF NoRowTellsOfWithheld
<1> QED
  BY <1>1, InvariantHolds, PTL

\* The operations of conversations.ts keep the promise of ConvLog to every
\* member: all that changes in what syncSince would send him is a row of his
\* journal, but for "read by peer" while the peer blocks him (readAudience,
\* unblockUser).
THEOREM JournalImplementsLog == Spec => JournalTellsEverything
<1>1. Init => \A u \in Users : Log(u)!LogInit
  BY LogsStart
<1>2. JournalInv /\ [Next]_vars
        => [\A u \in Users : UNCHANGED Log(u)!logVars \/ Log(u)!LogNext \/ TicksUntold(u)
           ]_<<convVars, blockVars, journalVars>>
  <2> SUFFICES ASSUME JournalInv, [Next]_vars
               PROVE  \A u \in Users : UNCHANGED Log(u)!logVars \/ Log(u)!LogNext \/ TicksUntold(u)
    OBVIOUS
  <2> QED
    BY StepKeeps DEF StepHolds, Logged
<1> QED
  BY <1>1, <1>2, InvariantHolds, PTL DEF Spec, JournalTellsEverything

----------------------------------------------------------------------------
(* Who learns how far a member has read.                                   *)

\* How far a member has read changes only by reading: his key moves forward
\* and those are told whom he does not block.
LEMMA ReadingMoves ==
    ASSUME JournalInv, [Next]_vars, NEW v \in Users
    PROVE  \/ readKey'[v] = readKey[v]
           \/ /\ readKey'[v] > readKey[v]
              /\ Journal(To({w \in Users : w = v \/ <<v, w>> \notin blocks}, OwnRow("read")))
<1>0. TypeOK /\ readKey \in [Users -> Nat] /\ req \in [Requests -> RequestStates]
  BY Typed DEF JournalInv
<1>1. ASSUME NEW u \in Users, NEW key \in Keys, Read(u, key)
      PROVE  \/ readKey'[v] = readKey[v]
             \/ /\ readKey'[v] > readKey[v]
                /\ Journal(To({w \in Users : w = v \/ <<v, w>> \notin blocks}, OwnRow("read")))
  <2>1. key \in Nat /\ readKey[u] \in Nat
    BY <1>0, MessagesTyped
  <2>2. readKey' = [readKey EXCEPT ![u] = IF key > readKey[u] THEN key ELSE readKey[u]]
    BY <1>1 DEF Read
  <2>3. CASE key <= readKey[u]
    BY <1>0, <2>1, <2>2, <2>3
  <2>4. CASE key > readKey[u] /\ v # u
    BY <1>0, <2>2, <2>4
  <2>5. CASE key > readKey[u] /\ v = u
    <3>1. readKey'[u] = key
      BY <1>0, <2>2, <2>5
    <3>2. Journal(To({w \in Users : w = u \/ <<u, w>> \notin blocks}, OwnRow("read")))
      BY <1>1, <2>1, <2>5 DEF Read
    <3> QED
      BY <2>5, <3>1, <3>2
  <2> QED
    BY <2>1, <2>3, <2>4, <2>5
<1>2. ASSUME NEW u \in Users, NEW k \in Keys, MarkRead(u, k) PROVE Read(u, k)
  BY <1>2 DEF MarkRead
<1>3. ASSUME NEW r \in Requests, ReadOwn(r)
      PROVE  req[r].user \in Users /\ req[r].key \in Keys /\ Read(req[r].user, req[r].key)
  BY <1>0, <1>3, RequestShapes DEF ReadOwn, JournalInv, InPlace
<1>4. CASE UNCHANGED vars
  BY <1>4 DEF vars
<1>5. CASE \E r \in Requests : \/ \E u \in Users, c \in Clients : Decide(r, u, c)
                               \/ Replay(r) \/ Create(r) \/ Abort(r)
  BY <1>5 DEF Decide, Replay, Create, Abort, convVars
<1>6. CASE \E u \in Users, k \in Keys :
             \/ Edit(u, k) \/ Hide(u, k) \/ DeleteForBoth(u, k)
             \/ \E scope \in {"me", "both"} : Pin(u, k, scope) \/ Unpin(u, k, scope)
  <2>1. ASSUME NEW u \in Users, NEW k \in Keys, Edit(u, k) \/ Hide(u, k) \/ DeleteForBoth(u, k)
        PROVE  readKey' = readKey
    BY <2>1 DEF Edit, Hide, DeleteForBoth
  <2>2. ASSUME NEW u \in Users, NEW k \in Keys, NEW scope, Pin(u, k, scope) \/ Unpin(u, k, scope)
        PROVE  readKey' = readKey
    BY <2>2, Zenon DEF Pin, Unpin
  <2> QED
    BY <1>6, <2>1, <2>2
<1>7. CASE \E u \in Users : SetUnreadMark(u) \/ SetArchived(u) \/ Block(u) \/ Unblock(u) \/ PruneJournal(u)
  BY <1>7 DEF SetUnreadMark, SetArchived, Block, Unblock, PruneJournal, convVars
<1> QED
  BY <1>1, <1>2, <1>3, <1>4, <1>5, <1>6, <1>7 DEF Next

LEMMA ReadRowsTold ==
    ASSUME JournalInv, NEW told, Journal(To(told, OwnRow("read"))), NEW u \in Users
    PROVE  /\ u \in told => pts'[u] > pts[u]
           /\ u \notin told => pts'[u] = pts[u]
<1>1. PICK new : new = To(told, OwnRow("read"))
  OBVIOUS
<1>2. pts'[u] = pts[u] + Len(new[u])
  BY <1>1 DEF Journal
<1>3. new[u] = IF u \in told THEN OwnRow("read") ELSE <<>>
  BY <1>1 DEF To
<1>4. u \in told => Len(new[u]) = 1
  BY <1>3 DEF OwnRow
<1>5. u \notin told => Len(new[u]) = 0
  BY <1>3
<1>6. pts[u] \in Nat
  BY Typed DEF JournalInv
<1>7. CASE u \in told
  <2>1. pts'[u] = pts[u] + 1
    BY <1>2, <1>4, <1>7
  <2> QED
    BY <1>6, <1>7, <2>1
<1>8. CASE u \notin told
  <2>1. pts'[u] = pts[u] + 0
    BY <1>2, <1>5, <1>8
  <2> QED
    BY <1>6, <1>8, <2>1
<1> QED
  BY <1>7, <1>8

\* A reader who blocks his peer reads unnoticed (readAudience: the peer gets no
\* row of the reading).
THEOREM BlockedPeerHearsNothing == Spec => BlockedSeesNoReading
<1>1. JournalInv /\ [Next]_vars
        => [\A u \in Users :
              (readKey'[u] # readKey[u] /\ <<u, Peer(u)>> \in blocks) => pts'[Peer(u)] = pts[Peer(u)]]_vars
  <2> SUFFICES ASSUME JournalInv, [Next]_vars, NEW u \in Users,
                      readKey'[u] # readKey[u], <<u, Peer(u)>> \in blocks
               PROVE  pts'[Peer(u)] = pts[Peer(u)]
    OBVIOUS
  <2>1. PICK told : told = {w \in Users : w = u \/ <<u, w>> \notin blocks}
    OBVIOUS
  <2>2. Journal(To(told, OwnRow("read")))
    BY <2>1, ReadingMoves
  <2>3. Peer(u) \in Users /\ Peer(u) \notin told
    BY <2>1, AnyoneHasAPeer
  <2> QED
    BY <2>2, <2>3, ReadRowsTold
<1> QED
  BY <1>1, InvariantHolds, PTL DEF Spec, BlockedSeesNoReading

\* "Read by peer" never advances on a device without a row to tell of it
\* (markRead, readAudience).
THEOREM ReceiptIsTold == Spec => ReadReceiptTold
<1>1. JournalInv /\ [Next]_vars
        => [\A u \in Users :
              (PeerRead(u)' > PeerRead(u) /\ blocks' = blocks /\ <<Peer(u), u>> \notin blocks)
                 => pts'[u] > pts[u]]_vars
  <2> SUFFICES ASSUME JournalInv, [Next]_vars, NEW u \in Users,
                      PeerRead(u)' > PeerRead(u), blocks' = blocks, <<Peer(u), u>> \notin blocks
               PROVE  pts'[u] > pts[u]
    OBVIOUS
  <2>1. PeerRead(u) = readKey[Peer(u)] /\ PeerRead(u)' = readKey'[Peer(u)]
    BY DEF PeerRead
  <2>2. Peer(u) \in Users /\ readKey[Peer(u)] \in Nat
    BY AnyoneHasAPeer, Typed DEF JournalInv
  <2>3. PICK told : told = {w \in Users : w = Peer(u) \/ <<Peer(u), w>> \notin blocks}
    OBVIOUS
  <2>4. readKey'[Peer(u)] # readKey[Peer(u)]
    BY <2>1, <2>2
  <2>5. Journal(To(told, OwnRow("read")))
    BY <2>2, <2>3, <2>4, ReadingMoves
  <2>6. u \in told
    BY <2>3
  <2> QED
    BY <2>5, <2>6, ReadRowsTold
<1> QED
  BY <1>1, InvariantHolds, PTL DEF Spec, ReadReceiptTold

----------------------------------------------------------------------------
(* "Read by peer" never goes back.                                         *)

\* A block that begins counts from the messages there are.
LEMMA BlocksMove ==
    ASSUME JournalInv, [Next]_vars, NEW b \in blocks'
    PROVE  \/ b \in blocks /\ blockedAt'[b] = blockedAt[b]
           \/ blockedAt'[b] = Len(msgs) /\ msgs' = msgs
<1>0. blocks \subseteq Users \X Users /\ blockedAt \in [Users \X Users -> Nat]
  BY Typed DEF JournalInv
<1>1. CASE UNCHANGED blockVars
  BY <1>1 DEF blockVars
<1>2. ASSUME NEW u \in Users, Block(u)
      PROVE  \/ b \in blocks /\ blockedAt'[b] = blockedAt[b]
             \/ blockedAt'[b] = Len(msgs) /\ msgs' = msgs
  <2>1. PICK pair : pair = <<u, Peer(u)>>
    OBVIOUS
  <2>2. /\ blocks' = blocks \cup {pair} /\ msgs' = msgs
        /\ blockedAt' = IF pair \in blocks THEN blockedAt ELSE [blockedAt EXCEPT ![pair] = Len(msgs)]
    BY <1>2, <2>1 DEF Block, convVars
  <2>3. pair \in Users \X Users
    BY <2>1, AnyoneHasAPeer
  <2>4. CASE pair \in blocks
    BY <2>2, <2>4
  <2>5. CASE pair \notin blocks /\ b = pair
    BY <1>0, <2>2, <2>3, <2>5
  <2>6. CASE pair \notin blocks /\ b # pair
    <3>1. b \in blocks
      BY <2>2, <2>6
    <3>2. b \in Users \X Users
      BY <1>0, <3>1
    <3> QED
      BY <1>0, <2>2, <2>6, <3>1, <3>2
  <2> QED
    BY <2>4, <2>5, <2>6
<1>3. ASSUME NEW u \in Users, Unblock(u)
      PROVE  b \in blocks /\ blockedAt'[b] = blockedAt[b]
  <2>1. PICK pair : pair = <<u, Peer(u)>>
    OBVIOUS
  <2>2. blocks' = blocks \ {pair} /\ blockedAt' = [blockedAt EXCEPT ![pair] = 0]
    BY <1>3, <2>1 DEF Unblock
  <2>3. b \in blocks /\ b # pair
    BY <2>2
  <2>4. b \in Users \X Users
    BY <1>0, <2>3
  <2> QED
    BY <1>0, <2>2, <2>3, <2>4
<1>4. CASE UNCHANGED vars
  BY <1>4 DEF vars
<1>5. ASSUME NEW r \in Requests, \/ \E u \in Users, c \in Clients : Decide(r, u, c)
                                 \/ Replay(r) \/ Create(r) \/ Abort(r) \/ ReadOwn(r)
      PROVE  UNCHANGED blockVars
  BY <1>5 DEF Decide, Replay, Create, Abort, ReadOwn, Read
<1>6. ASSUME NEW u \in Users, NEW k \in Keys, MarkRead(u, k) \/ Edit(u, k) \/ Hide(u, k) \/ DeleteForBoth(u, k)
      PROVE  UNCHANGED blockVars
  BY <1>6 DEF MarkRead, Read, Edit, Hide, DeleteForBoth
<1>7. ASSUME NEW u \in Users, NEW k \in Keys, NEW scope, Pin(u, k, scope) \/ Unpin(u, k, scope)
      PROVE  UNCHANGED blockVars
  BY <1>7, Zenon DEF Pin, Unpin
<1>8. ASSUME NEW u \in Users, SetUnreadMark(u) \/ SetArchived(u) \/ PruneJournal(u) PROVE UNCHANGED blockVars
  BY <1>8 DEF SetUnreadMark, SetArchived, PruneJournal
<1> QED
  <2>1. \/ UNCHANGED vars \/ UNCHANGED blockVars
        \/ \E u \in Users : Block(u) \/ Unblock(u)
    BY <1>5, <1>6, <1>7, <1>8 DEF Next
  <2> QED
    BY <1>1, <1>2, <1>3, <1>4, <2>1

\* "Read by peer" never goes back, whatever is blocked and unblocked
\* (peerReadKeys): what is kept anew comes after everything the peer has read.
THEOREM TicksNeverGoBack == Spec => ReadTicksNeverGoBack
<1>1. JournalInv /\ [Next]_vars => [\A u \in Users : PeerRead(u)' >= PeerRead(u)]_vars
  <2> SUFFICES ASSUME JournalInv, [Next]_vars, NEW u \in Users
               PROVE  PeerRead(u)' >= PeerRead(u)
    OBVIOUS
  <2>1. PICK x \in Nat : /\ x = PeerRead(u) /\ x <= readKey[Peer(u)]
                         /\ \A k \in Kept(u) : x < k
    BY ReadMarksRight, Typed DEF ReadMarks, MarkTypes, JournalInv
  <2>2. JournalInv' /\ MessagesStay
    BY StepKeeps DEF StepHolds
  <2>3. /\ PeerRead(u)' \in Nat
        /\ \A y \in Nat : y <= readKey'[Peer(u)] /\ (\A k \in Kept(u)' : y < k) => y <= PeerRead(u)'
    <3>1. MarkTypes'
      BY <2>2 DEF JournalInv, TypeOK, MarkTypes, Messages
    <3> QED
      BY <3>1, ReadMarksAfter DEF ReadMarks
  <2>4. x <= readKey'[Peer(u)]
    <3>1. /\ Peer(u) \in Users /\ readKey[Peer(u)] \in Nat /\ readKey'[Peer(u)] \in Nat
      BY <2>2, AnyoneHasAPeer, Typed DEF JournalInv, TypeOK
    <3>2. readKey'[Peer(u)] = readKey[Peer(u)] \/ readKey'[Peer(u)] > readKey[Peer(u)]
      BY <3>1, ReadingMoves
    <3> QED
      BY <2>1, <3>1, <3>2
  <2>5. ASSUME NEW k \in Kept(u)' PROVE x < k
    <3>0. /\ Len(msgs) \in Nat /\ Keys = 1 .. Len(msgs) /\ Peer(u) \in Users
          /\ readKey[Peer(u)] <= Len(msgs) /\ readKey[Peer(u)] \in Nat
      BY AnyoneHasAPeer, MessagesTyped, Typed DEF JournalInv, InPlace
    <3>1. PICK pair : pair = <<Peer(u), u>>
      OBVIOUS
    <3>2. /\ k \in Keys' /\ pair \in blocks' /\ k > blockedAt'[pair]
          /\ msgs'[k].author = u /\ msgs'[k].withheld
      BY <3>1 DEF Kept
    <3>3. k \in Nat \ {0}
      <4>1. Len(msgs') \in Nat /\ Keys' = 1 .. Len(msgs')
        BY <2>2, LenProperties DEF JournalInv, TypeOK, Keys
      <4> QED
        BY <3>2, <4>1
    <3>4. CASE k \notin Keys
      <4>1. k > Len(msgs)
        BY <3>0, <3>3, <3>4
      <4> QED
        BY <2>1, <3>0, <3>3, <4>1
    <3>5. CASE k \in Keys /\ pair \in blocks /\ blockedAt'[pair] = blockedAt[pair]
      <4>1. msgs[k].author = u /\ msgs[k].withheld
        BY <2>2, <3>2, <3>5 DEF MessagesStay
      <4>2. k \in Kept(u)
        BY <3>1, <3>2, <3>5, <4>1 DEF Kept
      <4> QED
        BY <2>1, <4>2
    <3>6. CASE k \in Keys /\ blockedAt'[pair] = Len(msgs)
      BY <3>0, <3>2, <3>3, <3>6
    <3> QED
      BY <3>2, <3>4, <3>5, <3>6, BlocksMove
  <2>6. x <= PeerRead(u)'
    BY <2>3, <2>4, <2>5
  <2> QED
    BY <2>1, <2>3, <2>6
<1> QED
  BY <1>1, InvariantHolds, PTL DEF Spec, ReadTicksNeverGoBack

=============================================================================
