-------------------------- MODULE ConvWindowProofs --------------------------
(***************************************************************************)
(* What a feed shows is right, and has no holes, for any number of         *)
(* requests in flight, any sizes of pages and windows, and any history.    *)
(*                                                                         *)
(* What has to be known besides the properties: no view is older than the  *)
(* number it is marked with; of a message that an answer on its way shows  *)
(* outdated the device knows a later number, or that it is gone, or has    *)
(* given it up; a page from above the window lies above it (WindowInv).    *)
(* And a page leaves out only what it says is beyond it; what has a later  *)
(* number than the page is held, gone or given up; the window is whole as  *)
(* far as it is known (HolesInv).                                          *)
(***************************************************************************)
EXTENDS ConvWindow, FiniteSetTheorems, SequenceTheorems, WellFoundedInduction, TLAPS

\* Nothing happens to a message after its deletion; messages are numbered as
\* they come.
HistInv ==
    /\ \A p, n \in 1 .. Now : p < n /\ hist[p].kind = "gone" => hist[n].msg # hist[p].msg
    /\ Created(Now) = 1 .. Cardinality(Created(Now))

\* A view is of the past, and of a message that was there.
PastView(m, t) == t <= Now /\ m \notin GoneBy(t)

\* No view is older than the number it is marked with, nor than the device's.
ViewsInv ==
    \A m \in Held, t \in 0 .. MaxPts : list[m] = t =>
        /\ PastView(m, t)
        /\ m \notin missed => fresh[m] <= t /\ m \notin Touched(t, cursor)

\* An older answer cannot put back what it shows of a message changed since.
Sound(q) ==
    /\ q.pts <= Now /\ \A m \in q.page : PastView(m, q.pts)
    /\ \A m \in Touched(q.pts, cursor) : m \in missed \/ m \in gone \/ q.pts < fresh[m]
    /\ q.kind = "older" => \A m \in q.page : m < q.key

AnswersInv == \A s \in Slots, q \in Answers : req[s] = q => Sound(q)

\* A page to go above the window is asked for from its edge upwards.
QuestionsInv == \A s \in Slots, q \in Questions : req[s] = q /\ q.kind = "older" => q.from = "before"

SendsInv == \A x \in sends : PastView(x.msg, x.at)

\* What is deleted is not shown.
GoneInv == gone \cap Held = {}

WindowInv ==
    /\ TypeOK /\ HistInv
    /\ ViewsInv /\ AnswersInv /\ QuestionsInv /\ SendsInv /\ GoneInv

----------------------------------------------------------------------------
LEMMA Bounds ==
    /\ PageSize \in Nat /\ WindowMax \in Nat /\ MaxMsgs \in Nat /\ MaxPts \in Nat
    /\ Msgs \subseteq Nat /\ \A m \in Msgs : m <= MaxMsgs
  BY WindowAssumption DEF Msgs

\* A set of messages has a first and a last one.
LEMMA Ends ==
    ASSUME NEW S, S \subseteq Msgs, S # {}
    PROVE  /\ MinOf(S) \in S /\ \A m \in S : MinOf(S) <= m
           /\ MaxOf(S) \in S /\ \A m \in S : m <= MaxOf(S)
<1> DEFINE Less == OpToRel(<, Nat)
           T == {n \in Nat : MaxMsgs - n \in S}
<1>1. \A k, n \in Nat : k < n => <<k, n>> \in Less
  BY DEF OpToRel
<1>2. IsWellFoundedOn(Less, Nat)
  BY NatLessThanWellFounded
<1>3. S \subseteq Nat /\ \A m \in S : m \in Nat /\ m <= MaxMsgs
  BY Bounds
<1>4. \A m \in S : MaxMsgs - m \in T
  <2> SUFFICES ASSUME NEW m \in S PROVE MaxMsgs - m \in T
    OBVIOUS
  <2>1. m \in Nat /\ m <= MaxMsgs /\ MaxMsgs \in Nat
    BY <1>3, Bounds
  <2>2. MaxMsgs - m \in Nat /\ MaxMsgs - (MaxMsgs - m) = m
    BY <2>1
  <2> QED
    BY <2>2
<1>5. T \subseteq Nat /\ T # {} /\ \A n \in T : MaxMsgs - n \in S
  BY <1>4
<1> HIDE DEF Less, T
<1>6. PICK low \in S : \A m \in S : ~ (<<m, low>> \in Less)
  BY <1>2, <1>3, WFMin, Zenon
<1>7. PICK n \in T : \A k \in T : ~ (<<k, n>> \in Less)
  BY <1>2, <1>5, WFMin, Zenon
<1>8. ASSUME NEW m \in S PROVE low <= m
  <2>1. m \in Nat /\ low \in Nat /\ ~ (<<m, low>> \in Less)
    BY <1>3, <1>6
  <2>2. ~ (m < low)
    BY <1>1, <2>1
  <2> QED
    BY <2>1, <2>2
<1>9. MaxMsgs - n \in S /\ \A m \in S : m <= MaxMsgs - n
  <2> SUFFICES ASSUME NEW m \in S PROVE m <= MaxMsgs - n
    BY <1>5
  <2>1. MaxMsgs - m \in T /\ MaxMsgs - m \in Nat /\ n \in Nat /\ m \in Nat /\ MaxMsgs \in Nat
    BY <1>3, <1>4, <1>5, Bounds
  <2>2. ~ (MaxMsgs - m < n)
    BY <1>1, <1>7, <2>1
  <2> QED
    BY <2>1, <2>2
<1> QED
  BY <1>6, <1>8, <1>9 DEF MinOf, MaxOf

\* The kinds of requests.
LEMMA Stages ==
    ASSUME TypeOK, NEW s \in Slots
    PROVE  /\ req[s] \in {Idle} \cup Questions \cup Answers
           /\ req[s].stage = "answered" => req[s] \in Answers
           /\ req[s].stage = "asked" => req[s] \in Questions
  BY DEF TypeOK, Idle, Questions, Answers

LEMMA AnswerShape ==
    ASSUME NEW q \in Answers
    PROVE  /\ q.pts \in 0 .. MaxPts /\ q.page \subseteq Msgs /\ q.key \in 0 .. MaxMsgs
           /\ q.kind \in {"latest", "older", "newer", "jump"}
           /\ q.before \in BOOLEAN /\ q.after \in BOOLEAN
  BY DEF Answers

\* A window that is there.
LEMMA WindowShape ==
    ASSUME TypeOK, win # NoWindow
    PROVE  /\ win \in Windows /\ win.base \in 0 .. MaxPts
           /\ win.before \in BOOLEAN /\ win.after \in BOOLEAN /\ win.stale \in BOOLEAN
  BY DEF TypeOK, Windows

LEMMA NotAWindow == NoWindow \notin Windows
<1>1. ASSUME NoWindow \in Windows PROVE FALSE
  <2>1. NoWindow.base \in 0 .. MaxPts
    BY <1>1 DEF Windows
  <2>2. NoWindow.base = -1
    BY DEF NoWindow, Never
  <2> QED
    BY <2>1, <2>2, Bounds
<1> QED
  BY <1>1

\* The history, as far as it has come.
LEMMA HistTyped ==
    ASSUME TypeOK
    PROVE  /\ Now \in Nat /\ Now <= MaxPts /\ cursor \in Nat /\ cursor <= Now
           /\ \A p \in 1 .. Now : hist[p].msg \in Msgs /\ hist[p].kind \in {"new", "edit", "gone"}
<1> DEFINE C == [msg : Msgs, kind : {"new", "edit", "gone"}]
<1>1. hist \in Seq(C) /\ Now <= MaxPts /\ cursor \in 0 .. Now
  BY DEF TypeOK
<1> HIDE DEF C
<1>2. Now \in Nat /\ hist \in [1 .. Now -> C]
  BY <1>1, LenProperties DEF Now
<1>3. \A p \in 1 .. Now : hist[p] \in C
  BY <1>2
<1> QED
  BY <1>1, <1>2, <1>3 DEF C

LEMMA ViewTyped ==
    ASSUME TypeOK, NEW m \in Msgs
    PROVE  /\ fresh[m] \in Int /\ fresh[m] \in Never .. MaxPts
           /\ m \in Held => list[m] \in 0 .. MaxPts
  BY DEF TypeOK, Never

----------------------------------------------------------------------------
(* The server.                                                             *)

\* Created and deleted, up to a moment.
LEMMA CreatedIn ==
    ASSUME TypeOK, NEW t \in Int, t <= Now
    PROVE  Created(t) \subseteq Msgs /\ GoneBy(t) \subseteq Created(t) /\ Alive(t) \subseteq Msgs
<1>1. \A p \in 1 .. t : hist[p].msg \in Msgs
  BY HistTyped
<1> QED
  BY <1>1 DEF Created, GoneBy, Alive

LEMMA MessagesCount ==
    ASSUME TypeOK, HistInv
    PROVE  Cardinality(Created(Now)) \in Nat
<1>1. Created(Now) \in SUBSET Msgs
  BY CreatedIn, HistTyped
<1>2. IsFiniteSet(Msgs)
  BY FS_Interval, Bounds DEF Msgs
<1> QED
  BY <1>1, <1>2, FS_Subset, FS_CardinalityType

\* What one more change leaves as it was.
LEMMA PastStays ==
    ASSUME TypeOK, NEW e \in [msg : Msgs, kind : {"new", "edit", "gone"}], hist' = Append(hist, e)
    PROVE  /\ hist' \in Seq([msg : Msgs, kind : {"new", "edit", "gone"}])
           /\ Now' = Now + 1 /\ hist'[Now + 1] = e
           /\ \A p \in 1 .. Now : hist'[p] = hist[p]
  BY AppendProperties DEF TypeOK, Now

LEMMA HistKept ==
    ASSUME TypeOK, HistInv, NEW e \in [msg : Msgs, kind : {"new", "edit", "gone"}],
           hist' = Append(hist, e),
           IF e.kind = "new" THEN e.msg = Cardinality(Created(Now)) + 1 ELSE e.msg \in Alive(Now)
    PROVE  HistInv'
<1>0. /\ Now \in Nat /\ Now' = Now + 1 /\ hist'[Now + 1] = e
      /\ \A p \in 1 .. Now : hist'[p] = hist[p]
  BY PastStays, HistTyped
<1>1. \A p \in 1 .. Now : hist[p].kind = "gone" => e.msg # hist[p].msg
  <2> SUFFICES ASSUME NEW p \in 1 .. Now, hist[p].kind = "gone" PROVE e.msg # hist[p].msg
    OBVIOUS
  <2>1. hist[p].msg \in GoneBy(Now) /\ hist[p].msg \in Created(Now)
    BY DEF GoneBy, Created
  <2>2. CASE e.kind = "new"
    <3>1. e.msg \notin 1 .. Cardinality(Created(Now))
      BY <2>2, MessagesCount
    <3> QED
      BY <2>1, <3>1 DEF HistInv
  <2>3. CASE e.kind # "new"
    BY <2>1, <2>3 DEF Alive
  <2> QED
    BY <2>2, <2>3
<1>2. ASSUME NEW p \in 1 .. Now', NEW n \in 1 .. Now', p < n, hist'[p].kind = "gone"
      PROVE  hist'[n].msg # hist'[p].msg
  <2>0. p \in 1 .. Now + 1 /\ n \in 1 .. Now + 1
    BY <1>0
  <2>1. p \in 1 .. Now /\ hist'[p] = hist[p]
    <3>1. p \in 1 .. Now
      BY <1>0, <1>2, <2>0
    <3> QED
      BY <1>0, <3>1
  <2>2. CASE n \in 1 .. Now
    <3>1. hist'[n] = hist[n]
      BY <1>0, <2>2
    <3> QED
      BY <1>2, <2>1, <2>2, <3>1 DEF HistInv
  <2>3. CASE n = Now + 1
    <3>1. hist[p].kind = "gone" /\ e.msg # hist[p].msg
      BY <1>1, <1>2, <2>1
    <3>2. hist'[n] = e
      BY <1>0, <2>3
    <3> QED
      BY <2>1, <3>1, <3>2
  <2>4. n \in 1 .. Now \/ n = Now + 1
    <3>1. Now \in Nat
      BY <1>0
    <3> QED
      BY <2>0, <3>1
  <2> QED
    BY <2>2, <2>3, <2>4
<1>3. Created(Now)' = Created(Now) \cup {e.msg}
  <2>1. Created(Now)' = {hist'[p].msg : p \in 1 .. Now + 1}
    BY <1>0 DEF Created
  <2>2. 1 .. Now + 1 = (1 .. Now) \cup {Now + 1}
    BY <1>0
  <2>3. Created(Now)' = {hist'[p].msg : p \in 1 .. Now} \cup {hist'[Now + 1].msg}
    BY <2>1, <2>2
  <2>4. {hist'[p].msg : p \in 1 .. Now} = {hist[p].msg : p \in 1 .. Now}
    BY <1>0
  <2> QED
    BY <1>0, <2>3, <2>4 DEF Created
<1>4. Created(Now)' = 1 .. Cardinality(Created(Now)')
  <2> DEFINE k == Cardinality(Created(Now))
  <2>1. k \in Nat /\ Created(Now) = 1 .. k
    BY MessagesCount DEF HistInv
  <2>2. CASE e.kind = "new"
    <3>1. Created(Now)' = 1 .. (k + 1)
      BY <1>3, <2>1, <2>2
    <3>2. Cardinality(1 .. (k + 1)) = k + 1
      BY <2>1, FS_Interval
    <3> QED
      BY <3>1, <3>2
  <2>3. CASE e.kind # "new"
    <3>1. Created(Now)' = Created(Now)
      BY <1>3, <2>3 DEF Alive
    <3> QED
      BY <3>1 DEF HistInv
  <2> QED
    BY <2>2, <2>3
<1> QED
  BY <1>2, <1>4 DEF HistInv

----------------------------------------------------------------------------
(* Steps that leave the feed as it is.                                     *)

HistGrows == Now' \in Nat /\ Now <= Now' /\ \A p \in 1 .. Now : hist'[p] = hist[p]

LEMMA PastStaysPast ==
    ASSUME TypeOK, HistGrows, NEW m, NEW t \in Nat, PastView(m, t)
    PROVE  PastView(m, t)'
<1>1. t <= Now' /\ 1 .. t \subseteq 1 .. Now
  BY HistTyped DEF PastView, HistGrows
<1>2. \A p \in 1 .. t : hist'[p] = hist[p]
  BY <1>1 DEF HistGrows
<1> QED
  BY <1>1, <1>2 DEF PastView, GoneBy

LEMMA TouchedStays ==
    ASSUME TypeOK, HistGrows, cursor' = cursor, NEW t \in Nat
    PROVE  Touched(t, cursor)' = Touched(t, cursor)
<1>1. (t + 1) .. cursor \subseteq 1 .. Now
  BY HistTyped
<1>2. \A p \in (t + 1) .. cursor : hist'[p] = hist[p]
  BY <1>1 DEF HistGrows
<1> QED
  BY <1>2 DEF Touched

LEMMA FeedStays ==
    ASSUME WindowInv, HistGrows, HistInv', TypeOK', UNCHANGED <<cursor, list, fresh, gone, missed>>,
           \A x \in sends' : x \in sends \/ PastView(x.msg, x.at)',
           \A s \in Slots, q \in Answers : req'[s] = q => req[s] = q \/ Sound(q)',
           \A s \in Slots, q \in Questions :
             req'[s] = q => req[s] = q \/ (q.kind = "older" => q.from = "before")
    PROVE  WindowInv'
<1>0. TypeOK /\ Held' = Held
  BY DEF WindowInv, Held
<1>1. ViewsInv'
  <2> SUFFICES ASSUME NEW m \in Held, NEW t \in 0 .. MaxPts, list[m] = t
               PROVE  /\ PastView(m, t)'
                      /\ m \notin missed => fresh[m] <= t /\ m \notin Touched(t, cursor)'
    BY <1>0 DEF ViewsInv
  <2>1. t \in Nat
    BY Bounds
  <2>2. PastView(m, t) /\ (m \notin missed => fresh[m] <= t /\ m \notin Touched(t, cursor))
    BY DEF WindowInv, ViewsInv
  <2> QED
    BY <1>0, <2>1, <2>2, PastStaysPast, TouchedStays
<1>2. AnswersInv'
  <2> SUFFICES ASSUME NEW s \in Slots, NEW q \in Answers, req'[s] = q, Sound(q)
               PROVE  Sound(q)'
    BY DEF AnswersInv, WindowInv
  <2>1. q.pts \in Nat
    BY AnswerShape, Bounds
  <2>2. \A m \in q.page : PastView(m, q.pts)'
    BY <1>0, <2>1, PastStaysPast DEF Sound
  <2>3. Touched(q.pts, cursor)' = Touched(q.pts, cursor)
    BY <1>0, <2>1, TouchedStays
  <2>4. q.pts <= Now'
    BY <1>0, <2>1, HistTyped DEF Sound, HistGrows
  <2> QED
    BY <2>2, <2>3, <2>4 DEF Sound
<1>3. SendsInv'
  <2> SUFFICES ASSUME NEW x \in sends, PastView(x.msg, x.at) PROVE PastView(x.msg, x.at)'
    BY DEF SendsInv, WindowInv
  <2>1. x.at \in Nat
    BY <1>0, Bounds DEF TypeOK
  <2> QED
    BY <1>0, <2>1, PastStaysPast
<1>4. GoneInv'
  BY <1>0 DEF GoneInv, WindowInv
<1>5. QuestionsInv'
  BY DEF QuestionsInv, WindowInv
<1> QED
  BY <1>1, <1>2, <1>3, <1>4, <1>5 DEF WindowInv

LEMMA HistSame ==
    ASSUME WindowInv, hist' = hist
    PROVE  HistGrows /\ HistInv'
<1>1. Now \in Nat
  BY HistTyped DEF WindowInv
<1>2. Now' = Now /\ Created(Now)' = Created(Now)
  BY DEF Now, Created
<1>3. HistGrows
  BY <1>1, <1>2 DEF HistGrows
<1>4. HistInv'
  BY <1>2 DEF WindowInv, HistInv
<1> QED
  BY <1>3, <1>4

\* What is written, and by whom.
LEMMA WhatHappens ==
    ASSUME WindowInv, Happen
    PROVE  \E e \in [msg : Msgs, kind : {"new", "edit", "gone"}] :
             /\ hist' = Append(hist, e)
             /\ IF e.kind = "new" THEN e.msg = Cardinality(Created(Now)) + 1 ELSE e.msg \in Alive(Now)
             /\ \/ sends' = sends
                \/ e.kind = "new" /\ sends' = sends \cup {[msg |-> e.msg, at |-> Now + 1]}
<1>0. TypeOK /\ HistInv /\ Now \in Nat
  BY HistTyped DEF WindowInv
<1> DEFINE Changes == [msg : Msgs, kind : {"new", "edit", "gone"}]
           Written == Cardinality(Created(Now))
<1>1. CASE /\ Cardinality(Created(Now)) < MaxMsgs
           /\ LET m == Cardinality(Created(Now)) + 1
              IN  /\ hist' = Append(hist, [msg |-> m, kind |-> "new"])
                  /\ \/ UNCHANGED sends
                     \/ "send" \in Ops /\ sends' = sends \cup {[msg |-> m, at |-> Now + 1]}
  <2>1. Written + 1 \in Msgs
    BY <1>0, <1>1, MessagesCount, Bounds DEF Msgs
  <2>2. [msg |-> Written + 1, kind |-> "new"] \in Changes
    BY <2>1
  <2> QED
    BY <1>1, <2>2
<1>2. CASE \E m \in Alive(Now), k \in {"edit", "gone"} :
             hist' = Append(hist, [msg |-> m, kind |-> k]) /\ UNCHANGED sends
  <2>1. PICK m \in Alive(Now), k \in {"edit", "gone"} :
          hist' = Append(hist, [msg |-> m, kind |-> k]) /\ UNCHANGED sends
    BY <1>2
  <2>2. [msg |-> m, kind |-> k] \in Changes
    BY <1>0, CreatedIn
  <2> QED
    BY <2>1, <2>2
<1> QED
  BY <1>1, <1>2 DEF Happen

LEMMA HappenKeeps ==
    ASSUME WindowInv, Happen
    PROVE  WindowInv'
<1>0. TypeOK /\ HistInv /\ Now \in Nat
  BY HistTyped DEF WindowInv
<1> DEFINE Changes == [msg : Msgs, kind : {"new", "edit", "gone"}]
           Written == Cardinality(Created(Now))
<1>1. PICK e \in Changes :
        /\ hist' = Append(hist, e)
        /\ IF e.kind = "new" THEN e.msg = Written + 1 ELSE e.msg \in Alive(Now)
        /\ sends' = sends \/ (e.kind = "new" /\ sends' = sends \cup {[msg |-> e.msg, at |-> Now + 1]})
  BY WhatHappens
<1>2. HistInv'
  BY <1>0, <1>1, HistKept
<1>3. /\ hist' \in Seq(Changes) /\ Now' = Now + 1 /\ hist'[Now + 1] = e
      /\ \A p \in 1 .. Now : hist'[p] = hist[p]
  BY <1>0, <1>1, PastStays
<1>4. HistGrows
  BY <1>0, <1>3 DEF HistGrows
<1>5. Now < MaxPts /\ UNCHANGED <<cursor, win, list, fresh, gone, req, missed, torn>>
  BY DEF Happen
<1>6. TypeOK'
  <2>1. Now' <= MaxPts /\ cursor' \in 0 .. Now'
    BY <1>0, <1>3, <1>5, Bounds, HistTyped
  <2>2. sends' \subseteq [msg : Msgs, at : 1 .. MaxPts]
    <3>1. [msg |-> e.msg, at |-> Now + 1] \in [msg : Msgs, at : 1 .. MaxPts]
      BY <1>0, <1>5, Bounds
    <3> QED
      BY <1>0, <1>1, <3>1 DEF TypeOK
  <2> QED
    BY <1>0, <1>3, <1>5, <2>1, <2>2 DEF TypeOK, Held
<1>10. PICK n \in Nat : n = Now + 1
  BY <1>0
<1>7. e.kind = "new" => PastView(e.msg, n)'
  <2> SUFFICES ASSUME e.kind = "new", e.msg \in GoneBy(n)' PROVE FALSE
    BY <1>0, <1>3, <1>10 DEF PastView
  <2>1. PICK p \in 1 .. n : hist'[p].kind = "gone" /\ hist'[p].msg = e.msg
    BY DEF GoneBy
  <2>2. p \in 1 .. Now
    <3>1. p # Now + 1
      BY <1>3, <2>1
    <3> QED
      BY <1>0, <1>10, <3>1
  <2>3. e.msg \in Created(Now)
    BY <1>3, <2>1, <2>2 DEF Created
  <2>4. Written \in Nat /\ Created(Now) = 1 .. Written /\ e.msg = Written + 1
    BY <1>0, <1>1, MessagesCount DEF HistInv
  <2> QED
    BY <2>3, <2>4
<1>8. \A x \in sends' : x \in sends \/ PastView(x.msg, x.at)'
  <2>1. sends' = sends \/ (e.kind = "new" /\ sends' = sends \cup {[msg |-> e.msg, at |-> n]})
    BY <1>1, <1>10
  <2> QED
    BY <1>7, <2>1
<1> QED
  BY <1>2, <1>4, <1>5, <1>6, <1>8, FeedStays

LEMMA OnlyAsked ==
    ASSUME WindowInv, UNCHANGED <<hist, cursor, list, fresh, gone, sends, missed, torn>>,
           win' = win \/ (win # NoWindow /\ win' \in Windows),
           req' \in [Slots -> {Idle} \cup Questions \cup Answers],
           \A s \in Slots, q \in Answers : req'[s] = q => req[s] = q \/ Sound(q)',
           \A s \in Slots, q \in Questions :
             req'[s] = q => req[s] = q \/ (q.kind = "older" => q.from = "before")
    PROVE  WindowInv'
<1>1. HistGrows /\ HistInv' /\ Now' = Now /\ Held' = Held
  BY HistSame DEF Now, Held
<1>2. TypeOK'
  <2>1. win' \in {NoWindow} \cup Windows /\ (win' = NoWindow => Held' = {})
    BY <1>1, NotAWindow DEF WindowInv, TypeOK
  <2> QED
    BY <1>1, <2>1 DEF WindowInv, TypeOK
<1>3. \A x \in sends' : x \in sends
  OBVIOUS
<1> QED
  BY <1>1, <1>2, <1>3, FeedStays

LEMMA AskKeeps ==
    ASSUME WindowInv, NEW s \in Slots, NEW question \in Questions, Ask(s, question),
           question.kind = "older" => question.from = "before"
    PROVE  WindowInv'
<1>1. /\ req \in [Slots -> {Idle} \cup Questions \cup Answers]
      /\ req' = [req EXCEPT ![s] = question]
      /\ UNCHANGED <<hist, cursor, win, list, fresh, gone, sends, missed, torn>>
  BY DEF Ask, WindowInv, TypeOK
<1>2. question \notin Answers
  BY DEF Questions, Answers
<1> QED
  BY <1>1, <1>2, OnlyAsked

LEMMA QuestionsKeep ==
    ASSUME WindowInv, NEW s \in Slots,
           OpenLatest(s) \/ OpenJump(s) \/ LoadOlder(s) \/ LoadNewer(s)
    PROVE  WindowInv'
<1>1. CASE OpenLatest(s)
  <2>1. LatestAsked \in Questions /\ LatestAsked.kind # "older"
    BY Bounds DEF LatestAsked, Asked, Questions
  <2> QED
    BY <1>1, <2>1, AskKeeps DEF OpenLatest
<1>2. CASE OpenJump(s)
  <2>1. PICK key \in 0 .. MaxMsgs, from \in {"after", "around"} : Ask(s, Asked("jump", from, key))
    BY <1>2 DEF OpenJump
  <2>2. Asked("jump", from, key) \in Questions /\ Asked("jump", from, key).kind # "older"
    BY DEF Asked, Questions
  <2> QED
    BY <2>1, <2>2, AskKeeps
<1>3. Held # {} => MinOf(Held) \in 0 .. MaxMsgs /\ MaxOf(Held) \in 0 .. MaxMsgs
  <2>1. Held \subseteq Msgs /\ Msgs \subseteq 0 .. MaxMsgs
    BY Bounds DEF WindowInv, TypeOK
  <2> QED
    BY <2>1, Ends
<1>4. CASE LoadOlder(s)
  <2> DEFINE question == Asked("older", "before", MinOf(Held))
  <2>1. question \in Questions /\ question.from = "before" /\ Ask(s, question)
    BY <1>3, <1>4 DEF Asked, Questions, LoadOlder
  <2> HIDE DEF question
  <2> QED
    BY <2>1, AskKeeps
<1>5. CASE LoadNewer(s)
  <2> DEFINE question == Asked("newer", "after", MaxOf(Held))
  <2>1. question \in Questions /\ question.kind # "older" /\ Ask(s, question)
    BY <1>3, <1>5 DEF Asked, Questions, LoadNewer
  <2> HIDE DEF question
  <2> QED
    BY <2>1, AskKeeps
<1> QED
  BY <1>1, <1>2, <1>4, <1>5

LEMMA FailKeeps ==
    ASSUME WindowInv, NEW s \in Slots, Fail(s)
    PROVE  WindowInv'
<1>1. /\ req \in [Slots -> {Idle} \cup Questions \cup Answers]
      /\ req' = [req EXCEPT ![s] = Idle]
      /\ UNCHANGED <<hist, cursor, win, list, fresh, gone, sends, missed, torn>>
  BY DEF Fail, WindowInv, TypeOK
<1>2. Idle \notin Answers /\ Idle \notin Questions
  BY DEF Questions, Answers, Idle
<1> QED
  BY <1>1, <1>2, OnlyAsked

\* A page is of messages that are there, and on the side it was asked for.
LEMMA PageIsAlive ==
    ASSUME NEW q \in Questions
    PROVE  /\ PageOf(q) \subseteq Alive(Now)
           /\ q.from = "before" => \A m \in PageOf(q) : m < q.key
<1>1. q.from \in {"end", "before", "after", "around"}
  BY DEF Questions
<1>2. \A n, S : Last(n, S) \subseteq S /\ First(n, S) \subseteq S
  BY DEF Last, First
<1>3. CASE q.from = "end"
  BY <1>2, <1>3 DEF PageOf
<1>4. CASE q.from = "before"
  <2>1. PageOf(q) = Last(PageSize, {m \in Alive(Now) : m < q.key})
    BY <1>4 DEF PageOf
  <2> QED
    BY <1>2, <2>1
<1>5. CASE q.from = "after"
  <2>1. PageOf(q) = First(PageSize, {m \in Alive(Now) : m > q.key})
    BY <1>5 DEF PageOf
  <2> QED
    BY <1>2, <1>5, <2>1
<1>6. CASE q.from = "around"
  <2>1. PageOf(q) = Around(q.key)
    BY <1>6 DEF PageOf
  <2>2. Around(q.key) \subseteq {m \in Alive(Now) : m < q.key} \cup {m \in Alive(Now) : m >= q.key}
    BY <1>2 DEF Around
  <2> QED
    BY <1>6, <2>1, <2>2
<1> QED
  BY <1>1, <1>3, <1>4, <1>5, <1>6

LEMMA AnswerMade ==
    ASSUME NEW kind \in {"latest", "older", "newer", "jump"}, NEW key \in 0 .. MaxMsgs,
           NEW pts \in 0 .. MaxPts, NEW page \in SUBSET Msgs, NEW before \in BOOLEAN, NEW after \in BOOLEAN
    PROVE  [stage |-> "answered", kind |-> kind, key |-> key, pts |-> pts,
            page |-> page, before |-> before, after |-> after] \in Answers
  BY DEF Answers

LEMMA AnswerKeeps ==
    ASSUME WindowInv, NEW s \in Slots, Answer(s)
    PROVE  WindowInv'
<1>0. TypeOK /\ req[s].stage = "asked" /\ Now \in Nat /\ Now <= MaxPts /\ cursor \in Nat /\ cursor <= Now
  BY HistTyped DEF WindowInv, Answer
<1>1. req[s] \in Questions /\ (req[s].kind = "older" => req[s].from = "before")
  BY <1>0, Stages DEF WindowInv, QuestionsInv
<1>2. UNCHANGED <<hist, cursor, win, list, fresh, gone, sends, missed, torn>>
  BY DEF Answer
<1>3. PICK a : /\ req' = [req EXCEPT ![s] = a]
               /\ \/ a = Idle
                  \/ /\ a \in Answers /\ a.pts = Now /\ a.kind = req[s].kind
                     /\ a.key = req[s].key /\ a.page = PageOf(req[s])
  <2> DEFINE q == req[s]
             beyond(low) ==
                 \E m \in Alive(Now) :
                    IF PageOf(q) # {}
                    THEN IF low THEN m < MinOf(PageOf(q)) ELSE m > MaxOf(PageOf(q))
                    ELSE \/ low /\ q.from = "after" /\ m <= q.key
                         \/ ~ low /\ q.from = "before" /\ m >= q.key
             a == [stage |-> "answered", kind |-> q.kind, key |-> q.key, pts |-> Now,
                   page |-> PageOf(q), before |-> beyond(TRUE), after |-> beyond(FALSE)]
  <2>1. req' = [req EXCEPT ![s] = IF q.from = "around" /\ q.key \notin Alive(Now) THEN Idle ELSE a]
    BY DEF Answer
  <2>2. beyond(TRUE) \in BOOLEAN /\ beyond(FALSE) \in BOOLEAN
    OBVIOUS
  <2>3. PageOf(q) \subseteq Msgs
    BY <1>0, <1>1, PageIsAlive, CreatedIn
  <2>4. q.kind \in {"latest", "older", "newer", "jump"} /\ q.key \in 0 .. MaxMsgs
    BY <1>1 DEF Questions
  <2> HIDE DEF beyond
  <2>5. a \in Answers
    <3>1. Now \in 0 .. MaxPts /\ PageOf(q) \in SUBSET Msgs
      BY <1>0, <2>3
    <3> QED
      BY <2>2, <2>4, <3>1, AnswerMade
  <2>6. a.pts = Now /\ a.kind = q.kind /\ a.key = q.key /\ a.page = PageOf(q)
    OBVIOUS
  <2> HIDE DEF a
  <2>7. CASE q.from = "around" /\ q.key \notin Alive(Now)
    BY <2>1, <2>7
  <2>8. CASE ~ (q.from = "around" /\ q.key \notin Alive(Now))
    BY <2>1, <2>5, <2>6, <2>8
  <2> QED
    BY <2>7, <2>8
<1>4. ASSUME NEW q \in Answers, q.pts = Now, q.kind = req[s].kind, q.key = req[s].key,
             q.page = PageOf(req[s])
      PROVE  Sound(q)'
  <2>1. q.pts <= Now' /\ Now' = Now /\ cursor' = cursor
    BY <1>0, <1>2, <1>4 DEF Now
  <2>2. Touched(q.pts, cursor)' = {}
    <3>1. (q.pts + 1) .. cursor' = {}
      BY <1>0, <1>4, <2>1
    <3> QED
      BY <3>1 DEF Touched
  <2>3. \A m \in q.page : m \notin GoneBy(q.pts)
    BY <1>1, <1>4, PageIsAlive DEF Alive
  <2>4. GoneBy(q.pts)' = GoneBy(q.pts)
    BY <1>2 DEF GoneBy
  <2>5. q.kind = "older" => \A m \in q.page : m < q.key
    BY <1>1, <1>4, PageIsAlive
  <2> QED
    BY <2>1, <2>2, <2>3, <2>4, <2>5 DEF Sound, PastView
<1>5. Idle \notin Answers /\ Idle \notin Questions /\ Answers \cap Questions = {}
  BY DEF Questions, Answers, Idle
<1>6. req \in [Slots -> {Idle} \cup Questions \cup Answers]
  BY <1>0 DEF TypeOK
<1>7. req' \in [Slots -> {Idle} \cup Questions \cup Answers]
  BY <1>3, <1>6
<1>8. \A t \in Slots : req'[t] = IF t = s THEN a ELSE req[t]
  BY <1>3, <1>6
<1>9. a = Idle \/ (a \in Answers /\ Sound(a)')
  BY <1>3, <1>4
<1>10. \A t \in Slots, q \in Answers : req'[t] = q => req[t] = q \/ Sound(q)'
  BY <1>5, <1>8, <1>9
<1>11. \A t \in Slots, q \in Questions : req'[t] = q => req[t] = q
  BY <1>5, <1>8, <1>9
<1> QED
  BY <1>2, <1>7, <1>10, <1>11, OnlyAsked

LEMMA TokenKeeps ==
    ASSUME WindowInv, TokenChanged
    PROVE  WindowInv'
<1>1. win # NoWindow /\ win' = [win EXCEPT !.stale = TRUE]
      /\ UNCHANGED <<hist, cursor, list, fresh, gone, req, sends, missed, torn>>
  BY DEF TokenChanged
<1>2. win' \in Windows
  BY <1>1, WindowShape DEF WindowInv, Windows
<1>3. req' \in [Slots -> {Idle} \cup Questions \cup Answers]
  BY <1>1 DEF WindowInv, TypeOK
<1> QED
  BY <1>1, <1>2, <1>3, OnlyAsked

----------------------------------------------------------------------------
(* Changes and answers of one message.                                     *)

LEMMA SamePast ==
    ASSUME hist' = hist, NEW m, NEW t
    PROVE  /\ PastView(m, t)' <=> PastView(m, t)
           /\ Now' = Now
           /\ \A n : Touched(t, n)' = Touched(t, n)
  BY DEF PastView, GoneBy, Now, Touched

\* What happened up to a number, and up to a later one.
LEMMA TouchedSplits ==
    ASSUME NEW n \in Nat, NEW k \in Int, NEW to \in Int, k <= to
    PROVE  /\ Touched(n, k) \subseteq Touched(n, to)
           /\ Touched(n, to) \subseteq Touched(n, k) \cup Touched(k, to)
           /\ \A m \in Touched(n, to) : n < to
           /\ \A m \in Touched(n, k) : n < k
<1>1. (n + 1) .. k \subseteq (n + 1) .. to
  OBVIOUS
<1>2. \A p \in (n + 1) .. to : p \in (n + 1) .. k \/ p \in (k + 1) .. to
  OBVIOUS
<1>3. Touched(n, k) \subseteq Touched(n, to)
  BY <1>1 DEF Touched
<1>4. Touched(n, to) \subseteq Touched(n, k) \cup Touched(k, to)
  BY <1>2 DEF Touched
<1>5. \A x \in Int : x <= n => (n + 1) .. x = {}
  OBVIOUS
<1>6. \A x \in Int : \A m \in Touched(n, x) : n < x
  BY <1>5 DEF Touched
<1> QED
  BY <1>3, <1>4, <1>6

LEMMA AdvanceKeeps ==
    ASSUME WindowInv, NEW to \in (cursor + 1) .. Now, NEW t \in to .. Now, Advance(to, t)
    PROVE  WindowInv'
<1> DEFINE named == Touched(cursor, to)
           dead == named \cap GoneBy(t)
           held == Held \ dead
           stored == {m \in named \ (dead \cup gone) : Stores(m, to, held)}
<1>0. TypeOK /\ HistGrows /\ HistInv'
  BY HistSame DEF WindowInv, Advance
<1>1. /\ cursor' = to /\ gone' = gone \cup dead
      /\ list' = [m \in held \cup stored |-> IF m \in stored THEN t ELSE list[m]]
      /\ fresh' = [m \in Msgs |-> IF m \in stored THEN to ELSE fresh[m]]
      /\ missed' = (missed \ stored) \cup ((named \cap Overtaken(to)) \ (stored \cup held \cup dead))
      /\ UNCHANGED <<hist, win, req, sends, torn>>
  BY DEF Advance
<1>2. /\ cursor \in Nat /\ Now \in Nat /\ Now <= MaxPts /\ to \in Nat /\ t \in Nat
      /\ cursor < to /\ to <= t /\ t <= Now
  BY <1>0, HistTyped
<1>3. named \subseteq Msgs
  <2>1. \A p \in (cursor + 1) .. to : p \in 1 .. Now
    BY <1>2
  <2> QED
    BY <1>0, <2>1, HistTyped DEF Touched
<1>4. /\ held \subseteq Held /\ Held \subseteq Msgs /\ stored \subseteq named
      /\ \A m \in stored : m \notin dead /\ m \notin gone /\ win # NoWindow /\ fresh[m] < to
      /\ \A m \in named : m \notin dead /\ m \notin gone /\ m \in held /\ m \notin stored =>
            win = NoWindow \/ ~ (fresh[m] < to)
  BY <1>0 DEF Stores, TypeOK
<1>5. GoneBy(t) \subseteq Created(t)
  BY DEF GoneBy, Created
<1> HIDE DEF named, dead, held, stored
<1>6. Held' = held \cup stored
  BY <1>1 DEF Held
<1>7. TypeOK'
  <2>1. list' \in [Held' -> 0 .. MaxPts]
    <3>1. t \in 0 .. MaxPts /\ \A m \in held : list[m] \in 0 .. MaxPts
      BY <1>0, <1>2, <1>4, Bounds DEF TypeOK
    <3> QED
      BY <1>1, <1>6, <3>1
  <2>2. fresh' \in [Msgs -> Never .. MaxPts]
    <3>1. to \in Never .. MaxPts /\ \A m \in Msgs : fresh[m] \in Never .. MaxPts
      BY <1>0, <1>2, Bounds DEF TypeOK, Never
    <3> QED
      BY <1>1, <3>1
  <2>3. Held' \subseteq Msgs /\ (win' = NoWindow => Held' = {})
    BY <1>0, <1>1, <1>3, <1>4, <1>6 DEF TypeOK
  <2>4. gone' \subseteq Msgs /\ missed' \subseteq Msgs
    BY <1>0, <1>1, <1>3 DEF TypeOK, dead
  <2>5. cursor' \in 0 .. Now' /\ Now' = Now
    BY <1>1, <1>2 DEF Now
  <2> QED
    BY <1>0, <1>1, <2>1, <2>2, <2>3, <2>4, <2>5 DEF TypeOK
<1>8. ViewsInv'
  <2> SUFFICES ASSUME NEW m \in Held', NEW v \in 0 .. MaxPts, list'[m] = v
               PROVE  /\ PastView(m, v)'
                      /\ m \notin missed' => fresh'[m] <= v /\ m \notin Touched(v, cursor)'
    BY DEF ViewsInv
  <2>0. v \in Nat /\ Touched(v, cursor)' = Touched(v, to) /\ (PastView(m, v)' <=> PastView(m, v)) /\ m \in Msgs
    <3>1. Touched(v, cursor)' = Touched(v, to)
      BY <1>1 DEF Touched
    <3>2. PastView(m, v)' <=> PastView(m, v)
      BY <1>1, SamePast
    <3>3. v \in Nat /\ m \in Msgs
      BY <1>3, <1>4, <1>6, Bounds
    <3> QED
      BY <3>1, <3>2, <3>3
  <2>1. CASE m \in stored
    <3>1. v = t /\ fresh'[m] = to /\ m \in named /\ m \notin dead
      BY <1>1, <1>4, <2>0, <2>1
    <3>2. PastView(m, t)
      BY <1>2, <3>1 DEF PastView, dead
    <3>3. m \notin Touched(t, to)
      BY <1>2, TouchedSplits
    <3> QED
      BY <1>2, <2>0, <3>1, <3>2, <3>3
  <2>2. CASE m \notin stored
    <3>1. m \in held /\ m \in Held /\ m \notin dead /\ v = list[m] /\ fresh'[m] = fresh[m]
      BY <1>1, <1>4, <1>6, <2>0, <2>2 DEF held
    <3>2. PastView(m, v) /\ (m \notin missed => fresh[m] <= v /\ m \notin Touched(v, cursor))
      BY <3>1 DEF WindowInv, ViewsInv
    <3>3. m \notin missed' => m \notin missed
      BY <1>1, <2>2
    <3>4. ASSUME m \notin missed PROVE m \notin Touched(v, to)
      <4>1. CASE m \in named
        <5>1. fresh[m] \in Int /\ ~ (fresh[m] < to)
          BY <1>0, <1>4, <2>0, <2>2, <3>1, <4>1, ViewTyped DEF WindowInv, GoneInv, TypeOK
        <5>2. to <= v
          BY <1>2, <2>0, <3>2, <3>4, <5>1
        <5> QED
          BY <1>2, <2>0, <5>2, TouchedSplits
      <4>2. CASE m \notin named
        BY <1>2, <2>0, <3>2, <3>4, <4>2, TouchedSplits DEF named
      <4> QED
        BY <4>1, <4>2
    <3> QED
      BY <2>0, <3>1, <3>2, <3>3, <3>4
  <2> QED
    BY <2>1, <2>2
<1>9. AnswersInv'
  <2> SUFFICES ASSUME NEW s \in Slots, NEW q \in Answers, req[s] = q
               PROVE  Sound(q)'
    BY <1>1 DEF AnswersInv
  <2>0. Sound(q) /\ q.pts \in Nat /\ q.page \subseteq Msgs
    BY AnswerShape, Bounds DEF WindowInv, AnswersInv
  <2>1. q.pts <= Now' /\ \A m \in q.page : PastView(m, q.pts)'
    BY <1>1, <2>0, SamePast DEF Sound
  <2>2. Touched(q.pts, cursor)' = Touched(q.pts, to)
    BY <1>1 DEF Touched
  <2>3. ASSUME NEW m \in Touched(q.pts, to)
        PROVE  m \in missed' \/ m \in gone' \/ q.pts < fresh'[m]
    <3>1. q.pts < to /\ (m \in Touched(q.pts, cursor) \/ m \in named)
      BY <1>2, <2>0, TouchedSplits DEF named
    <3>2. m \in Msgs
      <4>1. \A p \in (q.pts + 1) .. to : p \in 1 .. Now
        BY <1>2, <2>0
      <4> QED
        BY <1>0, <4>1, HistTyped DEF Touched
    <3>3. CASE m \in stored
      BY <1>1, <3>1, <3>2, <3>3
    <3>4. CASE m \in dead \cup gone
      BY <1>1, <3>4
    <3>5. CASE m \notin stored /\ m \notin dead /\ m \notin gone /\ m \in named
      <4>1. CASE m \in held
        <5>1. fresh[m] \in Int /\ ~ (fresh[m] < to)
          BY <1>0, <1>4, <3>2, <3>5, <4>1, ViewTyped DEF TypeOK
        <5> QED
          BY <1>1, <1>2, <2>0, <3>1, <3>2, <3>5, <5>1
      <4>2. CASE m \notin held
        <5>1. m \in Overtaken(to)
          <6>1. req[s].stage = "answered"
            BY DEF Answers
          <6> QED
            BY <6>1 DEF Overtaken
        <5> QED
          BY <1>1, <3>5, <4>2, <5>1
      <4> QED
        BY <4>1, <4>2
    <3>6. CASE m \notin stored /\ m \notin gone /\ m \notin named
      BY <1>1, <2>0, <3>1, <3>2, <3>6 DEF Sound
    <3> QED
      BY <3>3, <3>4, <3>5, <3>6
  <2> QED
    BY <2>0, <2>1, <2>2, <2>3 DEF Sound
<1>10. SendsInv' /\ QuestionsInv'
  BY <1>1, SamePast DEF WindowInv, SendsInv, QuestionsInv
<1>11. GoneInv'
  <2>1. held \cap (gone \cup dead) = {} /\ stored \cap (gone \cup dead) = {}
    BY <1>4 DEF WindowInv, GoneInv, held
  <2> QED
    BY <1>1, <1>6, <2>1 DEF GoneInv
<1> QED
  BY <1>0, <1>7, <1>8, <1>9, <1>10, <1>11 DEF WindowInv

LEMMA ResetKeeps ==
    ASSUME WindowInv, Reset
    PROVE  WindowInv'
<1>0. TypeOK /\ HistGrows /\ HistInv'
  BY HistSame DEF WindowInv, Reset
<1>1. /\ cursor' = Now /\ win' = NoWindow /\ list' = [m \in {} |-> 0]
      /\ fresh' = [m \in Msgs |-> Never]
      /\ missed' = missed \cup Overtaken(Now) /\ torn' = FALSE
      /\ UNCHANGED <<hist, gone, sends>>
  BY DEF Reset
<1>2. LatestAsked \in Questions /\ LatestAsked \notin Answers /\ LatestAsked.kind = "latest"
  BY Bounds DEF LatestAsked, Asked, Questions, Answers
<1>3. /\ req' \in [Slots -> {Idle} \cup Questions \cup Answers]
      /\ \A s \in Slots : req'[s] = req[s] \/ req'[s] = LatestAsked
  <2>1. req \in [Slots -> {Idle} \cup Questions \cup Answers]
    BY <1>0 DEF TypeOK
  <2>2. req' = req \/ \E s \in Slots : req' = [req EXCEPT ![s] = LatestAsked]
    BY DEF Reset
  <2> QED
    BY <1>2, <2>1, <2>2
<1>4. Held' = {} /\ Now' = Now /\ Now \in Nat /\ Now <= MaxPts
  BY <1>0, <1>1, HistTyped DEF Held, Now
<1>5. TypeOK'
  <2>1. Overtaken(Now) \subseteq Msgs
    <3> SUFFICES ASSUME NEW s \in Slots, req[s].stage = "answered", NEW p \in (req[s].pts + 1) .. Now
                 PROVE  hist[p].msg \in Msgs
      BY DEF Overtaken, Touched
    <3>1. req[s].pts \in Nat
      BY <1>0, Stages, AnswerShape, Bounds
    <3>2. p \in 1 .. Now
      BY <1>4, <3>1
    <3> QED
      BY <1>0, <3>2, HistTyped
  <2>2. fresh' \in [Msgs -> Never .. MaxPts]
    BY <1>1, Bounds DEF Never
  <2>3. cursor' \in 0 .. Now'
    BY <1>1, <1>4
  <2>4. list' \in [Held' -> 0 .. MaxPts]
    BY <1>1, <1>4
  <2> QED
    BY <1>0, <1>1, <1>3, <1>4, <2>1, <2>2, <2>3, <2>4 DEF TypeOK
<1>6. ViewsInv' /\ GoneInv'
  BY <1>4 DEF ViewsInv, GoneInv
<1>7. AnswersInv'
  <2> SUFFICES ASSUME NEW s \in Slots, NEW q \in Answers, req'[s] = q
               PROVE  Sound(q)'
    BY DEF AnswersInv
  <2>1. req[s] = q
    BY <1>2, <1>3
  <2>2. Sound(q)
    BY <2>1 DEF WindowInv, AnswersInv
  <2>3. \A m \in q.page : PastView(m, q.pts)'
    BY <1>1, <2>2, SamePast DEF Sound
  <2>4. Touched(q.pts, cursor)' \subseteq missed'
    <3>1. Touched(q.pts, cursor)' = Touched(q.pts, Now)
      BY <1>1 DEF Touched
    <3>2. req[s].stage = "answered" /\ req[s].pts = q.pts
      BY <2>1 DEF Answers
    <3>3. Touched(q.pts, Now) \subseteq Overtaken(Now)
      BY <3>2 DEF Overtaken
    <3> QED
      BY <1>1, <3>1, <3>3
  <2> QED
    BY <1>4, <2>2, <2>3, <2>4 DEF Sound
<1>8. SendsInv' /\ QuestionsInv'
  BY <1>1, <1>2, <1>3, SamePast DEF WindowInv, SendsInv, QuestionsInv
<1> QED
  BY <1>0, <1>5, <1>6, <1>7, <1>8 DEF WindowInv

\* A step of one message m, which is then shown as at time t.
LEMMA OneViewKeeps ==
    ASSUME WindowInv, UNCHANGED <<hist, cursor, win, gone, req>>, win # NoWindow,
           NEW m \in Msgs, m \notin gone, NEW t \in 0 .. MaxPts, PastView(m, t),
           DOMAIN list' = Held \cup {m}, list'[m] = t, \A k \in Held \ {m} : list'[k] = list[k],
           list' \in [DOMAIN list' -> 0 .. MaxPts],
           fresh' \in [Msgs -> Never .. MaxPts],
           \A k \in Msgs \ {m} : fresh'[k] = fresh[k],
           fresh[m] <= fresh'[m],
           missed \subseteq missed', missed' \subseteq Msgs, sends' \subseteq sends, torn' \in BOOLEAN,
           m \notin missed' => fresh'[m] <= t /\ m \notin Touched(t, cursor)
    PROVE  WindowInv'
<1>0. TypeOK /\ HistGrows /\ HistInv' /\ Now' = Now
  BY HistSame DEF WindowInv, Now
<1>1. Held' = Held \cup {m}
  BY DEF Held
<1>2. TypeOK'
  BY <1>0, <1>1 DEF TypeOK, Held
<1>3. ViewsInv'
  <2> SUFFICES ASSUME NEW k \in Held', NEW v \in 0 .. MaxPts, list'[k] = v
               PROVE  /\ PastView(k, v)'
                      /\ k \notin missed' => fresh'[k] <= v /\ k \notin Touched(v, cursor)'
    BY DEF ViewsInv
  <2>1. (PastView(k, v)' <=> PastView(k, v)) /\ Touched(v, cursor)' = Touched(v, cursor)
    BY SamePast DEF Touched
  <2>2. CASE k = m
    BY <2>1, <2>2
  <2>3. CASE k # m
    <3>1. k \in Held /\ k \in Msgs /\ list[k] = v /\ fresh'[k] = fresh[k]
      BY <1>0, <1>1, <2>3 DEF TypeOK
    <3> QED
      BY <2>1, <3>1 DEF WindowInv, ViewsInv
  <2> QED
    BY <2>2, <2>3
<1>4. AnswersInv'
  <2> SUFFICES ASSUME NEW s \in Slots, NEW q \in Answers, req[s] = q, Sound(q)
               PROVE  Sound(q)'
    BY DEF AnswersInv, WindowInv
  <2>1. \A k \in q.page : PastView(k, q.pts)'
    BY SamePast DEF Sound
  <2>2. Touched(q.pts, cursor)' = Touched(q.pts, cursor)
    BY DEF Touched
  <2>3. ASSUME NEW k \in Touched(q.pts, cursor)
        PROVE  k \in missed' \/ k \in gone' \/ q.pts < fresh'[k]
    <3>1. k \in Msgs /\ q.pts \in Nat
      <4>1. q.pts \in Nat
        BY AnswerShape, Bounds
      <4>2. \A p \in (q.pts + 1) .. cursor : p \in 1 .. Now
        BY <1>0, <4>1, HistTyped
      <4> QED
        BY <1>0, <4>1, <4>2, HistTyped DEF Touched
    <3>2. k \in missed \/ k \in gone \/ q.pts < fresh[k]
      BY DEF Sound
    <3>3. fresh[k] <= fresh'[k]
      <4>1. fresh[k] \in Int
        BY <1>0, <3>1, ViewTyped
      <4> QED
        BY <3>1, <4>1
    <3>4. fresh[k] \in Int /\ fresh'[k] \in Int
      BY <1>0, <3>1, ViewTyped DEF Never
    <3> QED
      BY <3>1, <3>2, <3>3, <3>4
  <2> QED
    BY <1>0, <2>1, <2>2, <2>3 DEF Sound
<1>5. SendsInv' /\ QuestionsInv'
  BY SamePast DEF WindowInv, SendsInv, QuestionsInv
<1>6. GoneInv'
  BY <1>1 DEF GoneInv, WindowInv
<1> QED
  BY <1>0, <1>2, <1>3, <1>4, <1>5, <1>6 DEF WindowInv

LEMMA SentKeeps ==
    ASSUME WindowInv, NEW x \in sends, TakeSent(x)
    PROVE  WindowInv'
<1>0. TypeOK /\ PastView(x.msg, x.at) /\ x.msg \in Msgs /\ x.at \in 1 .. MaxPts
  BY DEF WindowInv, SendsInv, TypeOK
<1>1. CASE win = NoWindow \/ x.msg \in gone \cup Held
  <2>1. /\ UNCHANGED <<hist, cursor, win, list, fresh, gone, req, missed, torn>>
        /\ sends' \subseteq sends
    BY <1>1 DEF TakeSent
  <2>2. HistGrows /\ HistInv' /\ Now' = Now /\ Held' = Held
    BY <2>1, HistSame DEF Now, Held
  <2>3. TypeOK'
    BY <1>0, <2>1, <2>2 DEF TypeOK
  <2> QED
    BY <2>1, <2>2, <2>3, FeedStays
<1>2. CASE ~ (win = NoWindow \/ x.msg \in gone \cup Held)
  <2>1. /\ list' = [m \in Held \cup {x.msg} |-> IF m = x.msg THEN x.at ELSE list[m]]
        /\ fresh' = [fresh EXCEPT ![x.msg] = IF @ = Never THEN 0 ELSE @]
        /\ missed' = IF x.msg \in Touched(x.at, cursor) \/ fresh[x.msg] > x.at
                     THEN missed \cup {x.msg} ELSE missed
        /\ torn' = (torn \/ ~ InsideWindow(Held, x.msg) \/ fresh[x.msg] > 0)
        /\ sends' = sends \ {x}
        /\ UNCHANGED <<hist, cursor, win, gone, req>>
    BY <1>2 DEF TakeSent
  <2>2. fresh \in [Msgs -> Never .. MaxPts] /\ fresh[x.msg] \in Never .. MaxPts
    BY <1>0 DEF TypeOK
  <2>3. fresh'[x.msg] = (IF fresh[x.msg] = Never THEN 0 ELSE fresh[x.msg])
    BY <1>0, <2>1, <2>2
  <2>4. /\ fresh[x.msg] <= fresh'[x.msg] /\ fresh'[x.msg] \in Never .. MaxPts
        /\ fresh[x.msg] <= x.at => fresh'[x.msg] <= x.at
    BY <1>0, <2>2, <2>3, Bounds DEF Never
  <2>5. /\ fresh' \in [Msgs -> Never .. MaxPts]
        /\ \A k \in Msgs \ {x.msg} : fresh'[k] = fresh[k]
    BY <1>0, <2>1, <2>2, <2>3, <2>4
  <2>6. /\ DOMAIN list' = Held \cup {x.msg} /\ list'[x.msg] = x.at
        /\ \A k \in Held \ {x.msg} : list'[k] = list[k]
        /\ list' \in [DOMAIN list' -> 0 .. MaxPts]
    <3>1. list \in [Held -> 0 .. MaxPts]
      BY <1>0 DEF TypeOK
    <3> QED
      BY <1>0, <2>1, <3>1
  <2>7. /\ missed \subseteq missed' /\ missed' \subseteq Msgs
        /\ x.msg \notin missed' => fresh'[x.msg] <= x.at /\ x.msg \notin Touched(x.at, cursor)
    <3>1. x.msg \notin missed' => ~ (fresh[x.msg] > x.at) /\ x.msg \notin Touched(x.at, cursor)
      BY <2>1
    <3>2. missed \subseteq missed' /\ missed' \subseteq Msgs
      BY <1>0, <2>1 DEF TypeOK
    <3> QED
      BY <1>0, <2>2, <2>4, <3>1, <3>2, Bounds DEF Never
  <2>8. torn' \in BOOLEAN /\ sends' \subseteq sends
    BY <1>0, <2>1 DEF TypeOK
  <2>9. x.at \in 0 .. MaxPts /\ x.msg \notin gone
    BY <1>0, <1>2
  <2> QED
    BY <1>0, <1>2, <2>1, <2>4, <2>5, <2>6, <2>7, <2>8, <2>9, OneViewKeeps
<1> QED
  BY <1>1, <1>2

\* No edit follows the deletion of a message.
LEMMA EditIsAlive ==
    ASSUME WindowInv, NEW at \in 1 .. Now, hist[at].kind = "edit"
    PROVE  PastView(hist[at].msg, at)
<1>0. Now \in Nat /\ at <= Now
  BY HistTyped DEF WindowInv
<1>1. ASSUME hist[at].msg \in GoneBy(at) PROVE FALSE
  <2>1. PICK p \in 1 .. at : hist[p].kind = "gone" /\ hist[p].msg = hist[at].msg
    BY <1>1 DEF GoneBy
  <2>2. p # at /\ p \in 1 .. Now
    BY <1>0, <2>1
  <2>3. p < at
    BY <1>0, <2>2
  <2> QED
    BY <2>1, <2>2, <2>3 DEF WindowInv, HistInv
<1> QED
  BY <1>0, <1>1 DEF PastView

LEMMA EditedKeeps ==
    ASSUME WindowInv, NEW at \in 1 .. Now, TakeEdited(at)
    PROVE  WindowInv'
<1> DEFINE m == hist[at].msg
<1>0. TypeOK /\ m \in Msgs /\ at \in Nat /\ at <= MaxPts /\ cursor \in Nat
  <2>1. TypeOK
    BY DEF WindowInv
  <2>2. m \in Msgs
    BY <2>1, HistTyped
  <2>3. Now \in Nat /\ Now <= MaxPts /\ cursor \in Nat
    BY <2>1, HistTyped
  <2> QED
    BY <2>1, <2>2, <2>3, Bounds
<1>1. /\ hist[at].kind = "edit" /\ m \in Held /\ EditIsNewer(m, at)
      /\ list' = [list EXCEPT ![m] = at]
      /\ UNCHANGED <<hist, cursor, win, fresh, gone, req, sends, missed, torn>>
  BY DEF TakeEdited
<1> HIDE DEF m
<1>2. list \in [Held -> 0 .. MaxPts] /\ list[m] \in 0 .. MaxPts
  BY <1>0, <1>1 DEF TypeOK
<1>3. list[m] < at
  <2>1. PICK p \in (list[m] + 1) .. at : TRUE
    BY <1>1 DEF EditIsNewer
  <2> QED
    BY <1>0, <1>2, <2>1
<1>4. PastView(m, at)
  BY <1>1, EditIsAlive DEF m
<1>5. m \notin missed => fresh[m] <= at /\ m \notin Touched(at, cursor)
  <2> SUFFICES ASSUME m \notin missed PROVE fresh[m] <= at /\ m \notin Touched(at, cursor)
    OBVIOUS
  <2>1. fresh[m] <= list[m] /\ m \notin Touched(list[m], cursor) /\ fresh[m] \in Int
    BY <1>0, <1>1, <1>2, ViewTyped DEF WindowInv, ViewsInv
  <2>2. \A p \in (at + 1) .. cursor : p \in (list[m] + 1) .. cursor
    BY <1>0, <1>2, <1>3
  <2> QED
    BY <1>0, <1>2, <1>3, <2>1, <2>2 DEF Touched
<1>6. /\ DOMAIN list' = Held \cup {m} /\ list'[m] = at
      /\ \A k \in Held \ {m} : list'[k] = list[k]
      /\ list' \in [DOMAIN list' -> 0 .. MaxPts]
  BY <1>0, <1>1, <1>2
<1>7. m \notin gone /\ win # NoWindow
  BY <1>0, <1>1 DEF WindowInv, GoneInv, TypeOK
<1>8. /\ fresh' \in [Msgs -> Never .. MaxPts] /\ fresh[m] <= fresh'[m]
      /\ \A k \in Msgs \ {m} : fresh'[k] = fresh[k]
  <2>1. fresh[m] \in Int
    BY <1>0, ViewTyped
  <2> QED
    BY <1>0, <1>1, <2>1 DEF TypeOK
<1>9. missed \subseteq missed' /\ missed' \subseteq Msgs /\ sends' \subseteq sends /\ torn' \in BOOLEAN
  BY <1>0, <1>1 DEF TypeOK
<1>10. at \in 0 .. MaxPts
  BY <1>0
<1>11. m \notin missed' => fresh'[m] <= at /\ m \notin Touched(at, cursor)
  BY <1>1, <1>5
<1> QED
  BY <1>0, <1>1, <1>4, <1>6, <1>7, <1>8, <1>9, <1>10, <1>11, OneViewKeeps

LEMMA RemovedKeeps ==
    ASSUME WindowInv, NEW m \in Msgs, TakeRemoved(m)
    PROVE  WindowInv'
<1>0. TypeOK /\ HistGrows /\ HistInv' /\ Now' = Now
  BY HistSame DEF WindowInv, Now, TakeRemoved
<1>1. /\ gone' = gone \cup {m} /\ list' = Without(list, {m})
      /\ UNCHANGED <<hist, cursor, win, fresh, req, sends, missed, torn>>
  BY DEF TakeRemoved
<1>2. Held' = Held \ {m} /\ \A k \in Held' : list'[k] = list[k]
  BY <1>1 DEF Held, Without
<1>3. TypeOK'
  <2>1. list' \in [Held' -> 0 .. MaxPts]
    BY <1>0, <1>1, <1>2 DEF TypeOK, Without, Held
  <2> QED
    BY <1>0, <1>1, <1>2, <2>1 DEF TypeOK
<1>4. ViewsInv'
  <2> SUFFICES ASSUME NEW k \in Held', NEW v \in 0 .. MaxPts, list'[k] = v
               PROVE  /\ PastView(k, v)'
                      /\ k \notin missed' => fresh'[k] <= v /\ k \notin Touched(v, cursor)'
    BY DEF ViewsInv
  <2>1. (PastView(k, v)' <=> PastView(k, v)) /\ Touched(v, cursor)' = Touched(v, cursor)
    BY <1>1, SamePast DEF Touched
  <2>2. k \in Held /\ list[k] = v
    BY <1>2
  <2> QED
    BY <1>1, <2>1, <2>2 DEF WindowInv, ViewsInv
<1>5. AnswersInv'
  <2> SUFFICES ASSUME NEW s \in Slots, NEW q \in Answers, req[s] = q, Sound(q)
               PROVE  Sound(q)'
    BY <1>1 DEF AnswersInv, WindowInv
  <2>1. \A k \in q.page : PastView(k, q.pts)'
    BY <1>1, SamePast DEF Sound
  <2>2. Touched(q.pts, cursor)' = Touched(q.pts, cursor)
    BY <1>1 DEF Touched
  <2> QED
    BY <1>0, <1>1, <2>1, <2>2 DEF Sound
<1>6. SendsInv' /\ QuestionsInv'
  BY <1>1, SamePast DEF WindowInv, SendsInv, QuestionsInv
<1>7. GoneInv'
  BY <1>1, <1>2 DEF GoneInv, WindowInv
<1> QED
  BY <1>0, <1>3, <1>4, <1>5, <1>6, <1>7 DEF WindowInv

----------------------------------------------------------------------------
(* Pages.                                                                  *)

\* Message m is shown as at v with number f: as in page q, or as before.
FromPage(q, m, v, f) ==
    \/ m \in q.page \ gone /\ fresh[m] <= q.pts /\ v = q.pts /\ f = q.pts
    \/ m \in Held /\ v = list[m] /\ f = fresh[m] /\ (m \in q.page => ~ (fresh[m] <= q.pts))

LEMMA ViewsFromPage ==
    ASSUME WindowInv, NEW q \in Answers, NEW S, S \subseteq Held \cup Incoming(q)
    PROVE  /\ DOMAIN Views(q, S) = S
           /\ \A m \in S : FromPage(q, m, Views(q, S)[m], FreshAfter(q)[m])
<1>0. S \subseteq Msgs /\ q.pts \in Int /\ \A m \in Msgs : fresh[m] \in Int
  BY AnswerShape, ViewTyped DEF WindowInv, TypeOK, Incoming
<1>1. DOMAIN Views(q, S) = S /\ \A m \in S : Views(q, S)[m] = IF m \in Incoming(q) THEN IncomingView(q, m) ELSE list[m]
  BY DEF Views
<1>2. \A m \in S : FreshAfter(q)[m] = IF m \in q.page \ gone /\ fresh[m] <= q.pts THEN q.pts ELSE fresh[m]
  BY <1>0 DEF FreshAfter
<1>3. ASSUME NEW m \in S PROVE FromPage(q, m, Views(q, S)[m], FreshAfter(q)[m])
  <2>0. m \in Held => m \notin gone
    BY DEF WindowInv, GoneInv
  <2>1. CASE m \in q.page \ gone /\ fresh[m] <= q.pts
    <3>1. m \in Incoming(q) /\ IncomingView(q, m) = q.pts
      BY <1>0, <2>1 DEF Incoming, IncomingView
    <3> QED
      BY <1>1, <1>2, <2>1, <3>1 DEF FromPage
  <2>2. CASE ~ (m \in q.page \ gone /\ fresh[m] <= q.pts)
    <3>1. m \in Held /\ Views(q, S)[m] = list[m]
      BY <1>0, <1>1, <2>2 DEF Incoming, IncomingView
    <3> QED
      BY <1>2, <2>0, <2>2, <3>1 DEF FromPage
  <2> QED
    BY <2>1, <2>2
<1> QED
  BY <1>1, <1>3

\* What a page makes of the feed.
PageTaken(q) ==
    /\ win' \in Windows /\ torn' \in BOOLEAN
    /\ Held' \subseteq Held \cup Incoming(q) /\ list' = [m \in Held' |-> list'[m]]
    /\ fresh' = [m \in Msgs |-> fresh'[m]]
    /\ \A m \in Held' : FromPage(q, m, list'[m], fresh'[m])
    /\ \A m \in Msgs : fresh'[m] \in {Never, FreshAfter(q)[m]}

LEMMA ShowTakesPage ==
    ASSUME WindowInv, NEW q \in Answers, NEW w \in Windows, NEW l, NEW side, NEW f,
           DOMAIN l \subseteq Held \cup Incoming(q), f = FreshAfter(q),
           \A m \in DOMAIN l : FromPage(q, m, l[m], f[m]),
           Show(w, l, side, f), torn' \in BOOLEAN
    PROVE  PageTaken(q)
<1> DEFINE cut == Trimmed(DOMAIN l, side)
<1>0. DOMAIN l \subseteq Msgs
  BY AnswerShape DEF WindowInv, TypeOK, Incoming
<1>1. /\ list' = Without(l, cut)
      /\ fresh' = [m \in Msgs |-> IF m \in cut THEN Never ELSE f[m]]
      /\ win' = [w EXCEPT !.before = @ \/ (cut # {} /\ side = "top"),
                          !.after = @ \/ (cut # {} /\ side = "bottom")]
  BY DEF Show
<1> HIDE DEF cut
<1>2. win' \in Windows
  BY <1>1 DEF Windows
<1>3. Held' = DOMAIN l \ cut /\ list' = [m \in DOMAIN l \ cut |-> l[m]]
  BY <1>1 DEF Held, Without
<1>4. \A m \in Held' : list'[m] = l[m] /\ fresh'[m] = f[m]
  BY <1>0, <1>1, <1>3
<1>5. \A m \in Held' : FromPage(q, m, list'[m], fresh'[m])
  BY <1>3, <1>4
<1> QED
  BY <1>1, <1>2, <1>3, <1>5 DEF PageTaken

LEMMA TailTakesPage ==
    ASSUME WindowInv, NEW q \in Answers, TakeTail(q)
    PROVE  PageTaken(q)
<1> DEFINE newer == IF q.kind = "jump" /\ q.after THEN {} ELSE NewerThan(q)
           older == IF q.kind = "jump" \/ win = NoWindow THEN {} ELSE Joined(q)
           w == [base |-> IF q.kind = "latest" /\ win.base > q.pts THEN win.base ELSE q.pts,
                 before |-> IF older # {} THEN win.before ELSE q.before,
                 after |-> q.after, stale |-> FALSE]
           shown == older \cup Incoming(q) \cup newer
           l == Views(q, shown)
           glued == \/ older # {} /\ (torn \/ \A m \in Held : m < MinOf(Incoming(q)) \/ ~ Known(m))
                    \/ \E m \in newer : fresh[m] > cursor \/ \A k \in Incoming(q) : m < k
                    \/ q.kind = "latest" /\ win.base > q.pts
<1>0. TypeOK
  BY DEF WindowInv
<1>1. /\ IF q.kind = "latest" THEN Show(w, l, "top", FreshAfter(q))
         ELSE list' = l /\ win' = w /\ fresh' = FreshAfter(q)
      /\ torn' = glued
  BY DEF TakeTail
<1>2. torn' \in BOOLEAN
  BY <1>0, <1>1 DEF TypeOK
<1>3. shown \subseteq Held \cup Incoming(q) /\ (older # {} => win # NoWindow)
  BY DEF NewerThan, Joined
<1>4. w \in Windows
  <2>1. q.pts \in 0 .. MaxPts /\ q.before \in BOOLEAN /\ q.after \in BOOLEAN
    BY AnswerShape
  <2>2. (IF q.kind = "latest" /\ win.base > q.pts THEN win.base ELSE q.pts) \in 0 .. MaxPts
    <3>1. CASE win = NoWindow
      <4>1. win.base = -1
        BY <3>1 DEF NoWindow, Never
      <4>2. ~ (win.base > q.pts)
        BY <2>1, <4>1, Bounds
      <4> QED
        BY <2>1, <4>2
    <3>2. CASE win # NoWindow
      BY <1>0, <2>1, <3>2, WindowShape
    <3> QED
      BY <3>1, <3>2
  <2>3. (IF older # {} THEN win.before ELSE q.before) \in BOOLEAN
    BY <1>0, <1>3, <2>1, WindowShape
  <2> HIDE DEF older
  <2> QED
    BY <2>1, <2>2, <2>3 DEF Windows
<1> HIDE DEF w, shown, glued
<1>5. DOMAIN l = shown /\ \A m \in shown : FromPage(q, m, l[m], FreshAfter(q)[m])
  BY <1>3, ViewsFromPage
<1> HIDE DEF l
<1>6. CASE q.kind = "latest"
  <2>1. Show(w, l, "top", FreshAfter(q))
    BY <1>1, <1>6
  <2>2. DOMAIN l \subseteq Held \cup Incoming(q)
    BY <1>3, <1>5
  <2> QED
    BY <1>2, <1>4, <1>5, <2>1, <2>2, ShowTakesPage
<1>7. CASE q.kind # "latest"
  <2>1. list' = l /\ win' = w /\ fresh' = FreshAfter(q)
    BY <1>1, <1>7
  <2>2. Held' = shown
    BY <1>5, <2>1 DEF Held
  <2>3. list' = [m \in Held' |-> list'[m]]
    BY <2>1, <2>2, <1>5 DEF l, Views
  <2>4. fresh' = [m \in Msgs |-> fresh'[m]]
    BY <2>1 DEF FreshAfter
  <2>5. \A m \in Held' : FromPage(q, m, list'[m], fresh'[m])
    BY <1>5, <2>1, <2>2
  <2> QED
    BY <1>2, <1>3, <1>4, <2>1, <2>2, <2>3, <2>4, <2>5 DEF PageTaken
<1> QED
  BY <1>6, <1>7

\* A page from above the window brings nothing the window has.
LEMMA OlderTakesPage ==
    ASSUME WindowInv, NEW q \in Answers, Sound(q), q.kind = "older", Fits(q), TakeOlder(q)
    PROVE  PageTaken(q)
<1> DEFINE l == [m \in Held \cup Incoming(q) |-> IF m \in Held THEN list[m] ELSE IncomingView(q, m)]
           w == [win EXCEPT !.before = q.before]
<1>0. TypeOK /\ Held \subseteq Msgs
  BY DEF WindowInv, TypeOK
<1>1. Show(w, l, "bottom", FreshAfter(q)) /\ torn' = torn
  BY DEF TakeOlder
<1>2. win # NoWindow /\ Held # {} /\ q.key = MinOf(Held)
  BY DEF Fits
<1>3. w \in Windows
  <2>1. win \in Windows /\ q.before \in BOOLEAN
    BY <1>0, <1>2, WindowShape, AnswerShape
  <2> QED
    BY <2>1 DEF Windows
<1>4. \A m \in q.page : m \notin Held
  <2> SUFFICES ASSUME NEW m \in q.page, m \in Held PROVE FALSE
    OBVIOUS
  <2>1. m < q.key /\ q.key <= m
    BY <1>0, <1>2, Ends DEF Sound
  <2>2. m \in Int /\ q.key \in Int
    BY <1>0, AnswerShape, Bounds
  <2> QED
    BY <2>1, <2>2
<1>5. ASSUME NEW m \in Held \cup Incoming(q)
      PROVE  l[m] = Views(q, Held \cup Incoming(q))[m]
  <2>1. m \in Incoming(q) <=> m \notin Held
    BY <1>4, <1>5 DEF Incoming
  <2> QED
    BY <2>1 DEF Views
<1>6. DOMAIN l = Held \cup Incoming(q)
  OBVIOUS
<1> HIDE DEF w, l
<1>7. \A m \in DOMAIN l : FromPage(q, m, l[m], FreshAfter(q)[m])
  BY <1>5, <1>6, ViewsFromPage
<1>8. torn' \in BOOLEAN
  BY <1>0, <1>1 DEF TypeOK
<1> QED
  BY <1>1, <1>3, <1>6, <1>7, <1>8, ShowTakesPage

LEMMA NewerTakesPage ==
    ASSUME WindowInv, NEW q \in Answers, q.kind = "newer", Fits(q), TakeNewer(q)
    PROVE  PageTaken(q)
<1> DEFINE base == IF q.after \/ win.base > q.pts THEN win.base ELSE q.pts
           w == [win EXCEPT !.after = q.after, !.base = IF q.after \/ @ > q.pts THEN @ ELSE q.pts]
           l == Views(q, Held \cup Incoming(q))
<1>0. TypeOK
  BY DEF WindowInv
<1>1. Show(w, l, "top", FreshAfter(q)) /\ torn' = (torn \/ (~ q.after /\ win.base > q.pts) \/ ~ Known(MaxOf(Held)))
  BY DEF TakeNewer
<1>2. win # NoWindow
  BY DEF Fits
<1>3. w \in Windows
  <2>1. win \in Windows /\ q.after \in BOOLEAN /\ q.pts \in 0 .. MaxPts /\ win.base \in 0 .. MaxPts
    BY <1>0, <1>2, WindowShape, AnswerShape
  <2>2. base \in 0 .. MaxPts
    BY <2>1
  <2>3. \A a \in BOOLEAN, b \in 0 .. MaxPts : [win EXCEPT !.after = a, !.base = b] \in Windows
    BY <2>1 DEF Windows
  <2> QED
    BY <2>1, <2>2, <2>3
<1>4. DOMAIN l = Held \cup Incoming(q) /\ \A m \in DOMAIN l : FromPage(q, m, l[m], FreshAfter(q)[m])
  BY ViewsFromPage
<1> HIDE DEF w, l
<1>5. torn' \in BOOLEAN
  BY <1>0, <1>1 DEF TypeOK
<1> QED
  BY <1>1, <1>3, <1>4, <1>5, ShowTakesPage

\* Where the history has come, once more: what a later snapshot does not know
\* changed, it does not show outdated.
LEMMA TouchedLater ==
    ASSUME TypeOK, NEW a \in Nat, NEW n \in Nat, NEW m \in Touched(a, cursor)
    PROVE  m \in Msgs /\ (m \notin Touched(n, cursor) => a < n)
<1>1. cursor \in Nat /\ Now \in Nat /\ cursor <= Now
  BY HistTyped
<1>2. PICK p \in (a + 1) .. cursor : hist[p].msg = m
  BY DEF Touched
<1>3. m \in Msgs
  <2>1. p \in 1 .. Now
    BY <1>1, <1>2
  <2> QED
    BY <1>2, <2>1, HistTyped
<1>4. ASSUME ~ (a < n) PROVE m \in Touched(n, cursor)
  <2>1. p \in (n + 1) .. cursor
    BY <1>1, <1>2, <1>4
  <2> QED
    BY <1>2, <2>1 DEF Touched
<1> QED
  BY <1>3, <1>4

LEMMA TakenPageKeeps ==
    ASSUME WindowInv, NEW s \in Slots, NEW q \in Answers, Sound(q), PageTaken(q),
           missed' = (missed \ Renewed(q)) \cup GivenUp(q, Slots \ {s}),
           req' = [req EXCEPT ![s] = Idle], UNCHANGED <<hist, cursor, gone, sends>>
    PROVE  WindowInv'
<1>0. TypeOK /\ HistGrows /\ HistInv' /\ Now' = Now
  BY HistSame DEF WindowInv, Now
<1>1. q.pts \in 0 .. MaxPts /\ q.pts \in Nat /\ q.page \subseteq Msgs
  BY AnswerShape, Bounds
<1>2. Held' \subseteq Msgs /\ GoneInv'
  BY <1>0, <1>1 DEF PageTaken, Incoming, TypeOK, GoneInv, WindowInv
<1>3. \A m \in Held' : FromPage(q, m, list'[m], fresh'[m])
  BY DEF PageTaken
<1>4. /\ Idle \notin Answers /\ Idle \notin Questions
      /\ req' \in [Slots -> {Idle} \cup Questions \cup Answers]
      /\ \A o \in Slots : req'[o] = IF o = s THEN Idle ELSE req[o]
  <2>1. req \in [Slots -> {Idle} \cup Questions \cup Answers]
    BY <1>0 DEF TypeOK
  <2> QED
    BY <2>1 DEF Questions, Answers, Idle
<1>5. \A m \in Msgs : /\ fresh[m] \in Int /\ fresh[m] \in Never .. MaxPts
                      /\ \/ fresh'[m] = Never
                         \/ fresh'[m] = fresh[m]
                         \/ fresh'[m] = q.pts /\ fresh[m] <= q.pts
  <2> SUFFICES ASSUME NEW m \in Msgs
               PROVE  \/ fresh'[m] = Never
                      \/ fresh'[m] = fresh[m]
                      \/ fresh'[m] = q.pts /\ fresh[m] <= q.pts
    BY <1>0, ViewTyped
  <2>1. fresh'[m] \in {Never, FreshAfter(q)[m]}
    BY DEF PageTaken
  <2>2. FreshAfter(q)[m] = IF m \in q.page \ gone /\ fresh[m] <= q.pts THEN q.pts ELSE fresh[m]
    BY DEF FreshAfter
  <2> QED
    BY <2>1, <2>2
<1>6. TypeOK'
  <2>1. list' \in [Held' -> 0 .. MaxPts]
    <3>1. \A m \in Held' : list'[m] \in 0 .. MaxPts
      BY <1>0, <1>1, <1>3 DEF FromPage, TypeOK
    <3>2. list' = [m \in Held' |-> list'[m]]
      BY DEF PageTaken
    <3> QED
      BY <3>1, <3>2
  <2>2. fresh' \in [Msgs -> Never .. MaxPts]
    <3>1. \A m \in Msgs : fresh'[m] \in Never .. MaxPts
      BY <1>1, <1>5, Bounds DEF Never
    <3>2. fresh' = [m \in Msgs |-> fresh'[m]]
      BY DEF PageTaken
    <3> QED
      BY <3>1, <3>2
  <2>3. missed' \subseteq Msgs
    BY <1>0, <1>1 DEF TypeOK, GivenUp
  <2>4. win' \in Windows /\ win' # NoWindow /\ torn' \in BOOLEAN
    BY NotAWindow DEF PageTaken
  <2> QED
    BY <1>0, <1>2, <1>4, <2>1, <2>2, <2>3, <2>4 DEF TypeOK
<1>7. ViewsInv'
  <2> SUFFICES ASSUME NEW m \in Held', NEW v \in 0 .. MaxPts, list'[m] = v
               PROVE  /\ PastView(m, v)'
                      /\ m \notin missed' => fresh'[m] <= v /\ m \notin Touched(v, cursor)'
    BY DEF ViewsInv
  <2>1. (PastView(m, v)' <=> PastView(m, v)) /\ Touched(v, cursor)' = Touched(v, cursor)
    BY SamePast DEF Touched
  <2>2. CASE m \in q.page \ gone /\ fresh[m] <= q.pts /\ v = q.pts /\ fresh'[m] = q.pts
    <3>1. PastView(m, v)
      BY <2>2 DEF Sound
    <3>2. ASSUME m \in Touched(v, cursor) PROVE m \in missed'
      <4>1. m \in missed
        <5>1. m \in missed \/ q.pts < fresh[m]
          BY <2>2, <3>2 DEF Sound
        <5> QED
          BY <1>1, <1>2, <1>5, <2>2, <5>1
      <4>2. m \notin Renewed(q)
        BY <2>2, <3>2 DEF Renewed
      <4> QED
        BY <4>1, <4>2
    <3> QED
      BY <1>1, <2>1, <2>2, <3>1, <3>2
  <2>3. CASE m \in Held /\ v = list[m] /\ fresh'[m] = fresh[m] /\ (m \in q.page => ~ (fresh[m] <= q.pts))
    <3>1. PastView(m, v) /\ (m \notin missed => fresh[m] <= v /\ m \notin Touched(v, cursor))
      BY <2>3 DEF WindowInv, ViewsInv
    <3>2. m \notin missed' => m \notin missed
      BY <2>3 DEF Renewed
    <3> QED
      BY <2>1, <2>3, <3>1, <3>2
  <2> QED
    BY <1>3, <2>2, <2>3 DEF FromPage
<1>8. AnswersInv'
  <2> SUFFICES ASSUME NEW o \in Slots, NEW a \in Answers, o # s, req[o] = a
               PROVE  Sound(a)'
    BY <1>4 DEF AnswersInv
  <2>0. Sound(a) /\ a.pts \in Nat /\ a.stage = "answered"
    BY AnswerShape, Bounds DEF WindowInv, AnswersInv, Answers
  <2>1. \A m \in a.page : PastView(m, a.pts)'
    BY <2>0, SamePast DEF Sound
  <2>2. Touched(a.pts, cursor)' = Touched(a.pts, cursor)
    BY DEF Touched
  <2>3. ASSUME NEW m \in Touched(a.pts, cursor)
        PROVE  m \in missed' \/ m \in gone \/ a.pts < fresh'[m]
    <3>1. m \in Msgs /\ (m \notin Touched(q.pts, cursor) => a.pts < q.pts)
      BY <1>0, <1>1, <2>0, TouchedLater
    <3>2. m \in missed \/ m \in gone \/ a.pts < fresh[m]
      BY <2>0 DEF Sound
    <3>3. CASE m \in Renewed(q)
      <4>1. m \in Held' /\ m \in q.page /\ fresh[m] <= q.pts /\ m \notin Touched(q.pts, cursor)
        BY <3>3 DEF Renewed
      <4>2. fresh'[m] = q.pts
        BY <1>3, <4>1 DEF FromPage
      <4> QED
        BY <3>1, <4>1, <4>2
    <3>4. CASE m \in missed /\ m \notin Renewed(q)
      BY <3>4
    <3>5. CASE a.pts < fresh[m]
      <4>1. CASE fresh'[m] = Never
        <5>1. fresh'[m] < fresh[m]
          BY <1>5, <2>0, <3>1, <3>5, <4>1 DEF Never
        <5>2. m \in GivenUp(q, Slots \ {s})
          BY <2>0, <3>1, <3>5, <5>1 DEF GivenUp
        <5> QED
          BY <5>2
      <4>2. CASE fresh'[m] = fresh[m]
        BY <3>5, <4>2
      <4>3. CASE fresh'[m] = q.pts /\ fresh[m] <= q.pts
        BY <1>1, <1>5, <2>0, <3>1, <3>5, <4>3
      <4> QED
        BY <1>5, <3>1, <4>1, <4>2, <4>3
    <3> QED
      BY <3>2, <3>3, <3>4, <3>5
  <2> QED
    BY <1>0, <2>0, <2>1, <2>2, <2>3 DEF Sound
<1>9. SendsInv' /\ QuestionsInv'
  BY <1>4, SamePast DEF WindowInv, SendsInv, QuestionsInv
<1> QED
  BY <1>0, <1>2, <1>6, <1>7, <1>8, <1>9 DEF WindowInv

LEMMA PageKeeps ==
    ASSUME WindowInv, NEW s \in Slots, TakePage(s)
    PROVE  WindowInv'
<1> DEFINE q == req[s]
<1>1. q \in Answers /\ Sound(q)
  BY Stages DEF TakePage, WindowInv, AnswersInv
<1>2. req' = [req EXCEPT ![s] = Idle] /\ UNCHANGED <<hist, cursor, gone, sends>>
  BY DEF TakePage
<1>3. CASE Fits(q)
  <2>1. /\ CASE q.kind \in {"latest", "jump"} -> TakeTail(q)
             [] q.kind = "older" -> TakeOlder(q)
             [] q.kind = "newer" -> TakeNewer(q)
        /\ missed' = (missed \ Renewed(q)) \cup GivenUp(q, Slots \ {s})
    BY <1>3 DEF TakePage
  <2> HIDE DEF q
  <2>2. PageTaken(q)
    <3>1. CASE q.kind \in {"latest", "jump"}
      <4>1. TakeTail(q)
        BY <2>1, <3>1
      <4> QED
        BY <1>1, <4>1, TailTakesPage
    <3>2. CASE q.kind = "older"
      <4>1. TakeOlder(q)
        BY <2>1, <3>2
      <4> QED
        BY <1>1, <1>3, <3>2, <4>1, OlderTakesPage
    <3>3. CASE q.kind = "newer"
      <4>1. TakeNewer(q)
        BY <2>1, <3>3
      <4> QED
        BY <1>1, <1>3, <3>3, <4>1, NewerTakesPage
    <3> QED
      BY <1>1, <3>1, <3>2, <3>3, AnswerShape
  <2> QED
    BY <1>1, <1>2, <2>1, <2>2, TakenPageKeeps
<1>4. CASE ~ Fits(q)
  <2>1. UNCHANGED <<hist, cursor, win, list, fresh, gone, sends, missed, torn>>
    BY <1>2, <1>4 DEF TakePage
  <2>2. req \in [Slots -> {Idle} \cup Questions \cup Answers] /\ Idle \notin Answers /\ Idle \notin Questions
    BY DEF WindowInv, TypeOK, Questions, Answers, Idle
  <2> QED
    BY <1>2, <2>1, <2>2, OnlyAsked
<1> QED
  BY <1>3, <1>4

----------------------------------------------------------------------------
(* No holes.  A window that was not glued over a gap is whole as far as it *)
(* is known: up to the device's number, up to the base of the tail, and    *)
(* below every message it has from a page or an event.                     *)

\* Messages are created in the order of their numbers.
OrderInv == \A n \in 1 .. Now : 1 .. hist[n].msg \subseteq Created(n)

\* Nothing is known from the future.
Reach ==
    /\ win.base <= Now /\ gone \subseteq GoneBy(Now) /\ Held \subseteq Created(Now)
    /\ \A x \in sends : x.msg \in Created(Now)
    /\ \A m \in Msgs : fresh[m] <= Now /\ (fresh[m] > 0 => m \in Created(fresh[m]))

\* What each kind of request asks for.
Keyed(q) ==
    /\ q.kind = "latest" => q.from = "end"
    /\ q.kind = "older" => q.from = "before" /\ q.key \in Created(Now)
    /\ q.kind = "newer" => q.from = "after" /\ q.key \in Created(Now)
    /\ q.kind = "jump" => q.from \in {"after", "around"}

\* A page leaves out, of what was there, only what it says is beyond it.
Complete(q) ==
    /\ q.page \subseteq Created(q.pts)
    /\ q.kind \in {"older", "newer"} => q.key \in Created(q.pts)
    /\ q.kind = "newer" => \A m \in q.page : q.key < m
    /\ \A m \in Alive(q.pts) \ q.page :
         \/ q.kind # "newer" /\ q.before /\ \A k \in q.page : m < k
         \/ q.kind \notin {"latest", "older"} /\ q.after /\ \A k \in q.page : k < m
         \/ q.kind = "older" /\ ~ (m < q.key)
         \/ q.kind = "newer" /\ ~ (q.key < m)

\* A message with a number later than the answer is held, or given up.
Ahead(q) == \A m \in Msgs : fresh[m] > q.pts => m \in Held \cup missed \cup gone

QuestionsKeyed == \A s \in Slots, q \in Questions : req[s] = q => Keyed(q)
AnswersComplete == \A s \in Slots, q \in Answers : req[s] = q => Complete(q) /\ Ahead(q)

\* Beyond the messages S, where the window says there is more.
AwayFrom(S, m) ==
    \/ win.before /\ \A h \in S : m < h
    \/ win.after /\ \A h \in S : h < m

\* A message the device can tell is there: from its own number, the base of the
\* tail or a number of the message, or as older than one that it knows.
Due(m) ==
    \/ m \in Created(cursor) \cup Created(win.base) \cup Created(fresh[m])
    \/ \E h \in Held : Known(h) /\ m < h

\* What is due and not held is beyond an edge.
Edges ==
    (win # NoWindow /\ ~ torn) =>
        \A m \in Alive(Now) \ (Held \cup missed) : Due(m) => AwayFrom(Held, m)

HolesInv == OrderInv /\ Reach /\ QuestionsKeyed /\ AnswersComplete /\ Edges

LEMMA SomeOf ==
    ASSUME NEW S, S \subseteq Msgs
    PROVE  IsFiniteSet(S) /\ Cardinality(S) \in Nat
<1>1. IsFiniteSet(Msgs)
  BY FS_Interval, Bounds DEF Msgs
<1> QED
  BY <1>1, FS_Subset, FS_CardinalityType

LEMMA SmallerPart ==
    ASSUME NEW S, S \subseteq Msgs, NEW T, T \subseteq S
    PROVE  Cardinality(T) <= Cardinality(S)
  BY SomeOf, FS_Subset

\* First and Last cut a set in two.
LEMMA Ordered ==
    ASSUME NEW S, S \subseteq Msgs, NEW n \in Int, NEW m \in S, NEW k \in S
    PROVE  /\ m \notin Last(n, S) /\ k \in Last(n, S) => m < k
           /\ m \notin First(n, S) /\ k \in First(n, S) => k < m
<1>0. m \in Nat /\ k \in Nat
  BY Bounds
<1>1. ASSUME m \notin Last(n, S), k \in Last(n, S) PROVE m < k
  <2> DEFINE M == {x \in S : x > m}
             K == {x \in S : x > k}
  <2>1. Cardinality(K) < n /\ ~ (Cardinality(M) < n)
    BY <1>1 DEF Last
  <2>2. K \subseteq Msgs /\ M \subseteq Msgs
    OBVIOUS
  <2>3. ASSUME ~ (m < k) PROVE FALSE
    <3>1. \A x \in S : x \in Nat
      BY Bounds
    <3>2. M \subseteq K
      <4> SUFFICES ASSUME NEW x \in M PROVE x \in K
        OBVIOUS
      <4>1. x \in S /\ x \in Nat /\ m \in Nat /\ k \in Nat
        BY <1>0, <3>1
      <4> QED
        BY <2>3, <4>1
    <3> HIDE DEF M, K
    <3> QED
      BY <2>1, <2>2, <3>2, SmallerPart, SomeOf
  <2> QED
    BY <2>3
<1>2. ASSUME m \notin First(n, S), k \in First(n, S) PROVE k < m
  <2> DEFINE M == {x \in S : x < m}
             K == {x \in S : x < k}
  <2>1. Cardinality(K) < n /\ ~ (Cardinality(M) < n)
    BY <1>2 DEF First
  <2>2. K \subseteq Msgs /\ M \subseteq Msgs
    OBVIOUS
  <2>3. ASSUME ~ (k < m) PROVE FALSE
    <3>1. \A x \in S : x \in Nat
      BY Bounds
    <3>2. M \subseteq K
      <4> SUFFICES ASSUME NEW x \in M PROVE x \in K
        OBVIOUS
      <4>1. x \in S /\ x \in Nat /\ m \in Nat /\ k \in Nat
        BY <1>0, <3>1
      <4> QED
        BY <2>3, <4>1
    <3> HIDE DEF M, K
    <3> QED
      BY <2>1, <2>2, <3>2, SmallerPart, SomeOf
  <2> QED
    BY <2>3
<1> QED
  BY <1>1, <1>2

LEMMA SomeAtTheEdge ==
    ASSUME NEW S, S \subseteq Msgs, S # {}, NEW n \in Nat \ {0}
    PROVE  Last(n, S) # {} /\ First(n, S) # {}
<1>0. /\ MinOf(S) \in S /\ \A k \in S : MinOf(S) <= k
      /\ MaxOf(S) \in S /\ \A k \in S : k <= MaxOf(S)
  BY Ends
<1>1. \A k \in S : k \in Nat
  BY Bounds
<1>2. ASSUME NEW k \in S PROVE ~ (k > MaxOf(S)) /\ ~ (k < MinOf(S))
  BY <1>0, <1>1
<1>4. {k \in S : k > MaxOf(S)} = {} /\ {k \in S : k < MinOf(S)} = {}
  BY <1>2
<1>3. Cardinality({}) = 0
  BY FS_EmptySet
<1>5. MaxOf(S) \in Last(n, S)
  BY <1>0, <1>3, <1>4 DEF Last
<1>6. MinOf(S) \in First(n, S)
  BY <1>0, <1>3, <1>4 DEF First
<1> QED
  BY <1>5, <1>6

LEMMA CreatedDown ==
    ASSUME TypeOK, OrderInv, NEW n \in Int, n <= Now, NEW h \in Created(n), NEW m \in Msgs, m <= h
    PROVE  m \in Created(n)
<1>1. PICK p \in 1 .. n : hist[p].msg = h
  BY DEF Created
<1>2. p \in 1 .. Now /\ h \in Nat /\ m \in Nat /\ 1 <= m
  BY <1>1, HistTyped, Bounds DEF Msgs
<1>3. m \in Created(p)
  BY <1>1, <1>2 DEF OrderInv
<1>4. 1 .. p \subseteq 1 .. n
  BY <1>1, <1>2
<1> QED
  BY <1>3, <1>4 DEF Created

\* A message next to the window is within it, or beyond an end where there is
\* more; what is within it moves no end.
LEMMA InsideOrAway ==
    ASSUME win \in Windows, NEW held, held \subseteq Msgs, NEW m \in Msgs \ held
    PROVE  /\ InsideWindow(held, m) <=> ~ AwayFrom(held, m)
           /\ \A X \in SUBSET Msgs :
                AwayFrom(held, m) /\ (\A x \in X : InsideWindow(held, x)) => AwayFrom(held \cup X, m)
<1>0. win.before \in BOOLEAN /\ win.after \in BOOLEAN /\ \A x \in Msgs : x \in Nat
  BY Bounds DEF Windows
<1>1. CASE held = {}
  BY <1>0, <1>1 DEF InsideWindow, AwayFrom
<1>2. CASE held # {}
  <2>1. /\ MinOf(held) \in held /\ \A h \in held : MinOf(held) <= h
        /\ MaxOf(held) \in held /\ \A h \in held : h <= MaxOf(held)
    BY <1>2, Ends
  <2>2. PICK low \in held : low = MinOf(held)
    BY <2>1
  <2>3. PICK high \in held : high = MaxOf(held)
    BY <2>1
  <2>4. low \in Nat /\ high \in Nat /\ m \in Nat /\ \A h \in held : h \in Nat
    BY <1>0
  <2>5. /\ (\A h \in held : m < h) <=> ~ (m >= low)
        /\ (\A h \in held : h < m) <=> ~ (m <= high)
    BY <2>1, <2>2, <2>3, <2>4
  <2>6. \A x \in Msgs : InsideWindow(held, x) <=> /\ win.before => x >= low
                                                  /\ win.after => x <= high
    BY <1>2, <2>2, <2>3 DEF InsideWindow
  <2>7. InsideWindow(held, m) <=> ~ AwayFrom(held, m)
    BY <1>0, <2>5, <2>6 DEF AwayFrom
  <2>8. ASSUME NEW X \in SUBSET Msgs, AwayFrom(held, m), \A x \in X : InsideWindow(held, x)
        PROVE  AwayFrom(held \cup X, m)
    <3>1. CASE win.before /\ \A h \in held : m < h
      <4>1. \A x \in X : m < x
        BY <1>0, <2>4, <2>6, <2>8, <3>1
      <4> QED
        BY <3>1, <4>1 DEF AwayFrom
    <3>2. CASE win.after /\ \A h \in held : h < m
      <4>1. \A x \in X : x < m
        BY <1>0, <2>4, <2>6, <2>8, <3>2
      <4> QED
        BY <3>2, <4>1 DEF AwayFrom
    <3> QED
      BY <2>8, <3>1, <3>2 DEF AwayFrom
  <2> QED
    BY <2>7, <2>8
<1> QED
  BY <1>1, <1>2

\* What a page leaves out.
LEMMA PageIsWhole ==
    ASSUME TypeOK, NEW q \in Questions, Keyed(q), q.from = "around" => q.key \in Alive(Now),
           NEW a \in Answers, a.pts = Now, a.kind = q.kind, a.key = q.key, a.page = PageOf(q),
           a.before <=> \E m \in Alive(Now) : IF PageOf(q) # {} THEN m < MinOf(PageOf(q))
                                              ELSE q.from = "after" /\ m <= q.key,
           a.after <=> \E m \in Alive(Now) : IF PageOf(q) # {} THEN m > MaxOf(PageOf(q))
                                             ELSE q.from = "before" /\ m >= q.key
    PROVE  Complete(a)
<1> DEFINE A == Alive(Now)
           P == PageOf(q)
<1>0. A \subseteq Msgs /\ A \subseteq Created(Now) /\ P \subseteq A
  BY HistTyped, CreatedIn, PageIsAlive DEF Alive
<1>1. q.from \in {"end", "before", "after", "around"} /\ q.key \in Nat /\ \A m \in A : m \in Nat
  <2>1. q.from \in {"end", "before", "after", "around"} /\ q.key \in 0 .. MaxMsgs
    BY DEF Questions
  <2>2. \A m \in Alive(Now) : m \in Nat
    BY <1>0, Bounds
  <2> QED
    BY <2>1, <2>2, Bounds
<1>2. /\ q.from = "end" => q.kind = "latest"
      /\ q.from = "before" => q.kind = "older"
      /\ q.from = "after" => q.kind \in {"newer", "jump"}
      /\ q.from = "around" => q.kind = "jump"
  BY DEF Keyed, Questions
<1>3. ASSUME NEW m \in A, P # {}, \A k \in P : m < k
      PROVE  a.before
  <2>1. MinOf(P) \in P
    BY <1>0, <1>3, Ends
  <2> QED
    BY <1>3, <2>1
<1>4. ASSUME NEW m \in A, P # {}, \A k \in P : k < m
      PROVE  a.after
  <2>1. MaxOf(P) \in P
    BY <1>0, <1>4, Ends
  <2>2. PICK top \in P : top = MaxOf(P)
    BY <2>1
  <2>3. m > MaxOf(P)
    BY <1>0, <1>1, <1>4, <2>2
  <2> QED
    BY <1>4, <2>3
<1>5. PageSize \in Nat \ {0} /\ PageSize \div 2 \in Int
  BY WindowAssumption
<1>6. q.kind = "newer" => q.from = "after" /\ \A m \in P : q.key < m
  <2> SUFFICES ASSUME q.kind = "newer", NEW m \in P PROVE q.from = "after" /\ q.key < m
    BY DEF Keyed
  <2>1. q.from = "after" /\ P = First(PageSize, {k \in A : k > q.key})
    BY DEF Keyed, PageOf
  <2>2. m \in {k \in A : k > q.key}
    BY <2>1 DEF First
  <2> QED
    BY <1>1, <2>1, <2>2
<1>7. ASSUME NEW m \in A \ P
      PROVE  \/ q.kind # "newer" /\ a.before /\ \A k \in P : m < k
             \/ q.kind \notin {"latest", "older"} /\ a.after /\ \A k \in P : k < m
             \/ q.kind = "older" /\ ~ (m < q.key)
             \/ q.kind = "newer" /\ ~ (q.key < m)
  <2>0. m \in A /\ m \notin P /\ m \in Nat
    BY <1>1, <1>7
  <2>1. CASE q.from = "end"
    <3>1. P = Last(PageSize, A)
      BY <2>1 DEF PageOf
    <3>2. P # {} /\ \A k \in P : m < k
      BY <1>0, <1>5, <2>0, <3>1, Ordered, SomeAtTheEdge
    <3> QED
      BY <1>2, <1>3, <2>0, <2>1, <3>2
  <2>2. CASE q.from = "before"
    <3> DEFINE S == {k \in A : k < q.key}
    <3>1. P = Last(PageSize, S) /\ S \subseteq Msgs
      BY <1>0, <2>2 DEF PageOf
    <3>2. P \subseteq S
      BY <3>1 DEF Last
    <3>3. CASE m \in S
      <4> HIDE DEF S, P
      <4>0. P # {}
        BY <1>5, <3>1, <3>3, SomeAtTheEdge
      <4>1. ASSUME NEW k \in P PROVE m < k
        <5>1. m \notin Last(PageSize, S) /\ k \in Last(PageSize, S) /\ k \in S /\ PageSize \in Int
          BY <1>5, <2>0, <3>1, <3>2
        <5> QED
          BY <3>1, <3>3, <5>1, Ordered
      <4> QED
        BY <1>2, <1>3, <2>0, <2>2, <4>0, <4>1
    <3>4. CASE m \notin S
      BY <1>2, <2>0, <2>2, <3>4
    <3> QED
      BY <3>3, <3>4
  <2>3. CASE q.from = "after"
    <3> DEFINE S == {k \in A : k > q.key}
    <3>1. P = First(PageSize, S) /\ S \subseteq Msgs
      BY <1>0, <2>3 DEF PageOf
    <3>2. P \subseteq S
      BY <3>1 DEF First
    <3>3. CASE m \in S
      <4> HIDE DEF S, P
      <4>0. P # {}
        BY <1>5, <3>1, <3>3, SomeAtTheEdge
      <4>1. ASSUME NEW k \in P PROVE k < m
        <5>1. m \notin First(PageSize, S) /\ k \in First(PageSize, S) /\ k \in S /\ PageSize \in Int
          BY <1>5, <2>0, <3>1, <3>2
        <5> QED
          BY <3>1, <3>3, <5>1, Ordered
      <4> QED
        BY <1>2, <1>4, <2>0, <2>3, <4>0, <4>1
    <3>4. CASE m \notin S /\ q.kind = "newer"
      BY <1>1, <2>0, <3>4
    <3>5. CASE m \notin S /\ q.kind = "jump"
      <4>0. m <= q.key
        BY <1>1, <2>0, <3>5
      <4>1. ASSUME NEW k \in P PROVE m < k
        <5>1. k \in Nat /\ k > q.key
          BY <1>1, <3>2
        <5> QED
          BY <1>1, <2>0, <4>0, <5>1
      <4>2. CASE P = {}
        BY <2>0, <2>3, <3>5, <4>0, <4>1, <4>2
      <4>3. CASE P # {}
        BY <1>3, <2>0, <3>5, <4>1, <4>3
      <4> QED
        BY <4>2, <4>3
    <3> QED
      BY <1>2, <2>3, <3>3, <3>4, <3>5
  <2>4. CASE q.from = "around"
    <3> DEFINE L == {k \in A : k < q.key}
               U == {k \in A : k >= q.key}
               older == Last(PageSize \div 2, L)
               newer == First(PageSize - Cardinality(older), U)
    <3>1. P = older \cup newer
      BY <2>4 DEF PageOf, Around
    <3>2. L \subseteq Msgs /\ U \subseteq Msgs /\ older \subseteq L /\ newer \subseteq U
      BY <1>0 DEF Last, First
    <3>3. \A k \in L : \A h \in U : k < h
      BY <1>1
    <3>4. m \in L \/ m \in U
      BY <1>1, <2>0
    <3>5. q.key \in U
      BY <1>1, <2>4
    <3> HIDE DEF P, L, U
    <3>6. Cardinality(older) \in Int
      BY <3>2, SomeOf
    <3>7. P # {}
      <4>1. CASE older = {}
        <5>1. Cardinality(older) = 0
          BY <4>1, FS_EmptySet
        <5>2. newer = First(PageSize, U)
          BY <1>5, <5>1
        <5>3. newer # {}
          BY <1>5, <3>2, <3>5, <5>2, SomeAtTheEdge
        <5> QED
          BY <3>1, <5>3
      <4>2. CASE older # {}
        BY <3>1, <4>2
      <4> QED
        BY <4>1, <4>2
    <3>8. CASE m \in L
      <4>1. \A k \in older : m < k
        BY <1>5, <2>0, <3>1, <3>2, <3>8, Ordered
      <4>2. \A k \in P : m < k
        BY <3>1, <3>2, <3>3, <3>8, <4>1
      <4> QED
        BY <1>2, <1>3, <2>0, <2>4, <3>7, <4>2
    <3>9. CASE m \in U
      <4>1. \A k \in newer : k < m
        <5>1. PageSize - Cardinality(older) \in Int
          BY <1>5, <3>6
        <5> QED
          BY <2>0, <3>1, <3>2, <3>9, <5>1, Ordered
      <4>2. \A k \in P : k < m
        BY <3>1, <3>2, <3>3, <3>9, <4>1
      <4> QED
        BY <1>2, <1>4, <2>0, <2>4, <3>7, <4>2
    <3> QED
      BY <3>4, <3>8, <3>9
  <2> QED
    BY <1>1, <2>1, <2>2, <2>3, <2>4
<1>8. q.kind \in {"older", "newer"} => q.key \in Created(Now)
  BY DEF Keyed
<1> QED
  <2>1. P \subseteq Created(Now)
    BY <1>0
  <2> HIDE DEF P, A
  <2>2. a.page = P /\ Alive(a.pts) = A /\ Created(a.pts) = Created(Now)
    BY DEF P, A
  <2> QED
    BY <1>6, <1>7, <1>8, <2>1, <2>2 DEF Complete

\* The past, when more is written.
LEMMA CreatedStays ==
    ASSUME TypeOK, HistGrows
    PROVE  /\ \A n \in Int : n <= Now => /\ Created(n)' = Created(n) /\ GoneBy(n)' = GoneBy(n)
                                         /\ Alive(n)' = Alive(n)
           /\ Created(Now) \subseteq Created(Now)' /\ GoneBy(Now) \subseteq GoneBy(Now)'
<1>1. ASSUME NEW n \in Int, n <= Now
      PROVE  Created(n)' = Created(n) /\ GoneBy(n)' = GoneBy(n) /\ Alive(n)' = Alive(n)
  <2>1. \A p \in 1 .. n : hist'[p] = hist[p]
    BY <1>1, HistTyped DEF HistGrows
  <2>2. Created(n)' = Created(n) /\ GoneBy(n)' = GoneBy(n)
    BY <2>1 DEF Created, GoneBy
  <2> QED
    BY <2>2 DEF Alive
<1>2. 1 .. Now \subseteq 1 .. Now' /\ \A p \in 1 .. Now : hist'[p] = hist[p]
  BY HistTyped DEF HistGrows
<1>3. Created(Now) \subseteq Created(Now)'
  BY <1>2 DEF Created
<1>4. GoneBy(Now) \subseteq GoneBy(Now)'
  BY <1>2 DEF GoneBy
<1> QED
  BY <1>1, <1>3, <1>4

LEMMA BaseTyped ==
    ASSUME TypeOK
    PROVE  win.base \in Int /\ win.base <= MaxPts
<1>1. CASE win = NoWindow
  BY <1>1, Bounds DEF NoWindow, Never
<1>2. CASE win # NoWindow
  BY <1>2, WindowShape
<1> QED
  BY <1>1, <1>2

LEMMA CreatedUpTo ==
    ASSUME TypeOK, NEW n \in Int, NEW k \in Int, n <= k
    PROVE  Created(n) \subseteq Created(k) /\ GoneBy(n) \subseteq GoneBy(k)
<1>1. 1 .. n \subseteq 1 .. k
  OBVIOUS
<1>2. Created(n) \subseteq Created(k)
  BY <1>1 DEF Created
<1>3. GoneBy(n) \subseteq GoneBy(k)
  BY <1>1 DEF GoneBy
<1> QED
  BY <1>2, <1>3

\* What nobody has written yet is not due.
LEMMA DueIsCreated ==
    ASSUME TypeOK, OrderInv, Reach, NEW m \in Msgs, Due(m)
    PROVE  m \in Created(Now)
<1>0. cursor \in Int /\ cursor <= Now /\ win.base \in Int /\ Now \in Int /\ fresh[m] \in Int
  BY HistTyped, BaseTyped, ViewTyped
<1>1. CASE m \in Created(cursor) \cup Created(win.base)
  BY <1>0, <1>1, CreatedUpTo DEF Reach
<1>2. CASE m \in Created(fresh[m])
  BY <1>0, <1>2, CreatedUpTo DEF Reach
<1>3. CASE \E h \in Held : Known(h) /\ m < h
  <2>1. PICK h \in Held : m < h
    BY <1>3
  <2>2. h \in Created(Now) /\ m \in Int /\ h \in Int
    BY <2>1, Bounds DEF Reach, TypeOK
  <2> QED
    BY <1>0, <2>1, <2>2, CreatedDown
<1> QED
  BY <1>1, <1>2, <1>3 DEF Due

LEMMA HolesKept ==
    ASSUME WindowInv, TypeOK', HolesInv, OrderInv', HistGrows,
           UNCHANGED <<cursor, list, fresh, gone, missed, torn>>,
           win' = win \/ (win # NoWindow /\ \E b \in BOOLEAN : win' = [win EXCEPT !.stale = b]),
           \A x \in sends' : x \in sends \/ x.msg \in Created(Now)',
           \A s \in Slots, q \in Answers : req'[s] = q => req[s] = q \/ (Complete(q)' /\ Ahead(q)'),
           \A s \in Slots, q \in Questions : req'[s] = q => req[s] = q \/ Keyed(q)'
    PROVE  HolesInv'
<1>0. /\ TypeOK /\ Held' = Held /\ Now \in Nat /\ Now' \in Nat /\ Now <= Now' /\ cursor \in Nat /\ cursor <= Now
      /\ OrderInv /\ Reach /\ Held \subseteq Msgs
  BY HistTyped DEF WindowInv, Held, HolesInv, HistGrows, TypeOK
<1>1. /\ Created(Now) \subseteq Created(Now)' /\ GoneBy(Now) \subseteq GoneBy(Now)'
      /\ \A n \in Int : n <= Now => Created(n)' = Created(n) /\ Alive(n)' = Alive(n)
  BY <1>0, CreatedStays
<1>2. /\ win'.base = win.base /\ (win = NoWindow => win' = NoWindow)
      /\ win # NoWindow => win'.before = win.before /\ win'.after = win.after
  <2>1. CASE win' = win
    BY <2>1
  <2>2. CASE win # NoWindow /\ \E b \in BOOLEAN : win' = [win EXCEPT !.stale = b]
    <3>1. PICK b \in BOOLEAN : win' = [win EXCEPT !.stale = b]
      BY <2>2
    <3>2. win \in [base : 0 .. MaxPts, before : BOOLEAN, after : BOOLEAN, stale : BOOLEAN]
      BY <1>0, <2>2, WindowShape DEF Windows
    <3> QED
      BY <2>2, <3>1, <3>2
  <2> QED
    BY <2>1, <2>2
<1>3. Reach'
  <2>1. win'.base <= Now'
    BY <1>0, <1>2, BaseTyped DEF Reach
  <2>2. \A m \in Msgs : fresh'[m] <= Now' /\ (fresh'[m] > 0 => m \in Created(fresh[m])')
    <3> SUFFICES ASSUME NEW m \in Msgs
                 PROVE  fresh[m] <= Now' /\ (fresh[m] > 0 => m \in Created(fresh[m])')
      OBVIOUS
    <3>1. PICK f \in Int : f = fresh[m] /\ f = fresh'[m]
      BY <1>0, ViewTyped
    <3>2. f <= Now /\ (f > 0 => m \in Created(f))
      BY <1>0, <3>1 DEF Reach
    <3>3. Created(f)' = Created(f) /\ Created(fresh[m])' = Created(f)'
      BY <1>1, <3>1, <3>2
    <3> QED
      BY <1>0, <3>1, <3>2, <3>3
  <2>3. gone' \subseteq GoneBy(Now)' /\ Held' \subseteq Created(Now)'
    BY <1>0, <1>1 DEF Reach
  <2>4. \A x \in sends' : x.msg \in Created(Now)'
    BY <1>0, <1>1 DEF Reach
  <2> QED
    BY <2>1, <2>2, <2>3, <2>4 DEF Reach
<1>4. QuestionsKeyed'
  <2> SUFFICES ASSUME NEW s \in Slots, NEW q \in Questions, req'[s] = q, Keyed(q)
               PROVE  Keyed(q)'
    BY DEF QuestionsKeyed, HolesInv
  <2> QED
    BY <1>1 DEF Keyed
<1>5. AnswersComplete'
  <2> SUFFICES ASSUME NEW s \in Slots, NEW q \in Answers, req[s] = q
               PROVE  Complete(q)' /\ Ahead(q)'
    BY DEF AnswersComplete
  <2>1. Complete(q) /\ Ahead(q) /\ q.pts \in Int /\ q.pts <= Now
    BY AnswerShape DEF AnswersComplete, HolesInv, WindowInv, AnswersInv, Sound
  <2>2. Created(q.pts)' = Created(q.pts) /\ Alive(q.pts)' = Alive(q.pts)
    BY <1>1, <2>1
  <2>3. Complete(q)'
    BY <2>1, <2>2 DEF Complete
  <2>4. Ahead(q)'
    BY <1>0, <2>1 DEF Ahead
  <2> QED
    BY <2>3, <2>4
<1>6. Edges'
  <2> SUFFICES ASSUME win' # NoWindow, ~ torn, NEW m \in Alive(Now)', m \notin Held, m \notin missed, Due(m)'
               PROVE  AwayFrom(Held, m)'
    BY <1>0 DEF Edges
  <2>1. m \in Msgs /\ m \notin GoneBy(Now)
    <3>0. hist' \in [1 .. Now' -> [msg : Msgs, kind : {"new", "edit", "gone"}]]
      BY <1>0, LenProperties DEF TypeOK, Now
    <3>1. Alive(Now)' \subseteq Msgs
      BY <3>0 DEF Alive, Created
    <3> QED
      BY <1>1, <3>1 DEF Alive
  <2>2. Due(m)
    <3>1. PICK c \in Int : c = cursor /\ c = cursor'
      BY <1>0
    <3>2. PICK b \in Int : b = win.base /\ b = win'.base
      BY <1>0, <1>2, BaseTyped
    <3>3. PICK f \in Int : f = fresh[m] /\ f = fresh'[m]
      BY <1>0, <2>1, ViewTyped
    <3>4. Created(c)' = Created(c) /\ Created(b)' = Created(b) /\ Created(f)' = Created(f)
      BY <1>0, <1>1, <2>1, <3>1, <3>2, <3>3 DEF Reach
    <3>5. Created(cursor)' = Created(cursor)
      BY <3>1, <3>4
    <3>6. Created(win.base)' = Created(win.base)
      BY <3>2, <3>4
    <3>7. Created(fresh[m])' = Created(fresh[m])
      BY <3>3, <3>4
    <3>8. \A h \in Held : Known(h)' => Known(h)
      BY DEF Known
    <3> QED
      BY <1>0, <3>5, <3>6, <3>7, <3>8 DEF Due
  <2>3. m \in Alive(Now)
    BY <1>0, <2>1, <2>2, DueIsCreated DEF Alive
  <2>4. AwayFrom(Held, m)
    BY <1>2, <2>2, <2>3 DEF HolesInv, Edges
  <2> QED
    BY <1>0, <1>2, <2>4 DEF AwayFrom
<1> QED
  BY <1>3, <1>4, <1>5, <1>6 DEF HolesInv

LEMMA HappenHoles ==
    ASSUME WindowInv, WindowInv', HolesInv, Happen
    PROVE  HolesInv'
<1>0. TypeOK /\ HistInv /\ Now \in Nat /\ OrderInv /\ TypeOK'
  BY HistTyped DEF WindowInv, HolesInv
<1>1. PICK e \in [msg : Msgs, kind : {"new", "edit", "gone"}] :
        /\ hist' = Append(hist, e)
        /\ IF e.kind = "new" THEN e.msg = Cardinality(Created(Now)) + 1 ELSE e.msg \in Alive(Now)
        /\ \/ sends' = sends
           \/ e.kind = "new" /\ sends' = sends \cup {[msg |-> e.msg, at |-> Now + 1]}
  BY WhatHappens
<1>2. /\ Now' = Now + 1 /\ hist'[Now + 1] = e
      /\ \A p \in 1 .. Now : hist'[p] = hist[p]
  BY <1>0, <1>1, PastStays
<1>3. HistGrows
  BY <1>0, <1>2 DEF HistGrows
<1>4. /\ Created(Now) \subseteq Created(Now)'
      /\ \A n \in Int : n <= Now => Created(n)' = Created(n)
  BY <1>0, <1>3, CreatedStays
<1>5. e.msg \in Created(Now)'
  <2>1. Now' \in 1 .. Now' /\ hist'[Now'] = e
    BY <1>0, <1>2
  <2> QED
    BY <2>1 DEF Created
<1>6. 1 .. e.msg \subseteq Created(Now)'
  <2> DEFINE k == Cardinality(Created(Now))
  <2>1. k \in Nat /\ Created(Now) = 1 .. k
    BY <1>0, MessagesCount DEF HistInv
  <2>2. e.msg \in Nat /\ e.msg <= k + 1
    BY <1>1, <2>1, Bounds DEF Alive
  <2> HIDE DEF k
  <2>3. ASSUME NEW m \in 1 .. e.msg PROVE m \in 1 .. k \/ m = e.msg
    BY <2>1, <2>2, <2>3
  <2> QED
    BY <1>4, <1>5, <2>1, <2>3
<1>7. OrderInv'
  <2> SUFFICES ASSUME NEW n \in 1 .. Now' PROVE 1 .. hist'[n].msg \subseteq Created(n)'
    BY DEF OrderInv
  <2>1. CASE n \in 1 .. Now
    <3>1. hist'[n] = hist[n] /\ Created(n)' = Created(n)
      BY <1>0, <1>2, <1>4, <2>1
    <3> QED
      BY <1>0, <2>1, <3>1 DEF OrderInv
  <2>2. CASE n = Now + 1
    <3>1. Created(n)' = Created(Now)'
      BY <1>2, <2>2 DEF Created
    <3> QED
      BY <1>2, <1>6, <2>2, <3>1
  <2> QED
    BY <1>0, <1>2, <2>1, <2>2
<1>8. UNCHANGED <<cursor, list, fresh, gone, missed, torn>> /\ win' = win /\ req' = req
  BY DEF Happen
<1>9. \A x \in sends' : x \in sends \/ x.msg \in Created(Now)'
  BY <1>1, <1>5
<1> QED
  BY <1>0, <1>3, <1>7, <1>8, <1>9, HolesKept

\* The steps of requests, and of one whose answer changes nothing.
LEMMA HolesOnlyAsked ==
    ASSUME WindowInv, WindowInv', HolesInv,
           UNCHANGED <<hist, cursor, list, fresh, gone, missed, torn>>, sends' \subseteq sends,
           win' = win \/ (win # NoWindow /\ \E b \in BOOLEAN : win' = [win EXCEPT !.stale = b]),
           \A s \in Slots, q \in Answers : req'[s] = q => req[s] = q \/ (Complete(q)' /\ Ahead(q)'),
           \A s \in Slots, q \in Questions : req'[s] = q => req[s] = q \/ Keyed(q)
    PROVE  HolesInv'
<1>1. HistGrows /\ Now' = Now /\ TypeOK'
  BY HistSame DEF WindowInv, Now
<1>2. \A n : Created(n)' = Created(n)
  BY DEF Created
<1>3. Created(Now)' = Created(Now)
  BY <1>1 DEF Created
<1>4. OrderInv'
  BY <1>1, <1>2 DEF HolesInv, OrderInv
<1>5. \A q \in Questions : Keyed(q) => Keyed(q)'
  BY <1>3 DEF Keyed
<1> QED
  BY <1>1, <1>4, <1>5, HolesKept

LEMMA AskHoles ==
    ASSUME WindowInv, WindowInv', HolesInv, NEW s \in Slots,
           OpenLatest(s) \/ OpenJump(s) \/ LoadOlder(s) \/ LoadNewer(s)
    PROVE  HolesInv'
<1>0. TypeOK /\ Held \subseteq Msgs /\ Held \subseteq Created(Now)
  BY DEF WindowInv, HolesInv, Reach, TypeOK
<1>1. ASSUME NEW question \in Questions, Keyed(question), Ask(s, question) PROVE HolesInv'
  <2>1. /\ req \in [Slots -> {Idle} \cup Questions \cup Answers]
        /\ req' = [req EXCEPT ![s] = question]
        /\ UNCHANGED <<hist, cursor, win, list, fresh, gone, sends, missed, torn>>
    BY <1>0, <1>1 DEF Ask, TypeOK
  <2>2. question \notin Answers
    BY DEF Questions, Answers
  <2> QED
    BY <1>1, <2>1, <2>2, HolesOnlyAsked
<1>2. Held # {} => MinOf(Held) \in Created(Now) /\ MaxOf(Held) \in Created(Now)
                   /\ MinOf(Held) \in 0 .. MaxMsgs /\ MaxOf(Held) \in 0 .. MaxMsgs
  <2>1. Msgs \subseteq 0 .. MaxMsgs
    BY Bounds
  <2> QED
    BY <1>0, <2>1, Ends
<1>3. ASSUME NEW kind \in {"latest", "older", "newer", "jump"},
             NEW from \in {"end", "before", "after", "around"}, NEW key \in 0 .. MaxMsgs,
             Ask(s, Asked(kind, from, key)), Keyed(Asked(kind, from, key))
      PROVE  HolesInv'
  <2>1. Asked(kind, from, key) \in Questions
    BY DEF Asked, Questions
  <2> QED
    BY <1>1, <1>3, <2>1
<1>4. CASE OpenLatest(s)
  <2>1. Ask(s, Asked("latest", "end", 0)) /\ Keyed(Asked("latest", "end", 0)) /\ 0 \in 0 .. MaxMsgs
    BY <1>4, Bounds DEF OpenLatest, LatestAsked, Asked, Keyed
  <2> QED
    BY <1>3, <2>1
<1>5. CASE OpenJump(s)
  <2>1. PICK key \in 0 .. MaxMsgs, from \in {"after", "around"} : Ask(s, Asked("jump", from, key))
    BY <1>5 DEF OpenJump
  <2>2. Keyed(Asked("jump", from, key))
    BY DEF Asked, Keyed
  <2> QED
    BY <1>3, <2>1, <2>2
<1>6. CASE LoadOlder(s)
  <2>1. Ask(s, Asked("older", "before", MinOf(Held))) /\ Keyed(Asked("older", "before", MinOf(Held)))
    BY <1>2, <1>6 DEF LoadOlder, Asked, Keyed
  <2> QED
    BY <1>2, <1>3, <1>6, <2>1 DEF LoadOlder
<1>7. CASE LoadNewer(s)
  <2>1. Ask(s, Asked("newer", "after", MaxOf(Held))) /\ Keyed(Asked("newer", "after", MaxOf(Held)))
    BY <1>2, <1>7 DEF LoadNewer, Asked, Keyed
  <2> QED
    BY <1>2, <1>3, <1>7, <2>1 DEF LoadNewer
<1> QED
  BY <1>4, <1>5, <1>6, <1>7

LEMMA FailHoles ==
    ASSUME WindowInv, WindowInv', HolesInv, NEW s \in Slots, Fail(s)
    PROVE  HolesInv'
<1>1. /\ req \in [Slots -> {Idle} \cup Questions \cup Answers]
      /\ req' = [req EXCEPT ![s] = Idle]
      /\ UNCHANGED <<hist, cursor, win, list, fresh, gone, sends, missed, torn>>
  BY DEF Fail, WindowInv, TypeOK
<1>2. Idle \notin Answers /\ Idle \notin Questions
  BY DEF Questions, Answers, Idle
<1> QED
  BY <1>1, <1>2, HolesOnlyAsked

LEMMA TokenHoles ==
    ASSUME WindowInv, WindowInv', HolesInv, TokenChanged
    PROVE  HolesInv'
<1>1. win # NoWindow /\ win' = [win EXCEPT !.stale = TRUE]
      /\ UNCHANGED <<hist, cursor, list, fresh, gone, req, sends, missed, torn>>
  BY DEF TokenChanged
<1> QED
  BY <1>1, HolesOnlyAsked

LEMMA AnswerHoles ==
    ASSUME WindowInv, WindowInv', HolesInv, NEW s \in Slots, Answer(s)
    PROVE  HolesInv'
<1>0. TypeOK /\ req[s].stage = "asked" /\ Now \in Nat /\ Now <= MaxPts /\ Reach
  BY HistTyped DEF WindowInv, Answer, HolesInv
<1>1. req[s] \in Questions /\ Keyed(req[s])
  BY <1>0, Stages DEF HolesInv, QuestionsKeyed
<1>2. UNCHANGED <<hist, cursor, win, list, fresh, gone, sends, missed, torn>>
  BY DEF Answer
<1>3. PICK a : /\ req' = [req EXCEPT ![s] = a]
               /\ a = Idle \/ (a \in Answers /\ a.pts = Now /\ Complete(a))
  <2> DEFINE q == req[s]
             page == PageOf(q)
             beyond(low) ==
                 \E m \in Alive(Now) :
                    IF page # {}
                    THEN IF low THEN m < MinOf(page) ELSE m > MaxOf(page)
                    ELSE \/ low /\ q.from = "after" /\ m <= q.key
                         \/ ~ low /\ q.from = "before" /\ m >= q.key
             a == [stage |-> "answered", kind |-> q.kind, key |-> q.key, pts |-> Now,
                   page |-> page, before |-> beyond(TRUE), after |-> beyond(FALSE)]
  <2>1. req' = [req EXCEPT ![s] = IF q.from = "around" /\ q.key \notin Alive(Now) THEN Idle ELSE a]
    BY DEF Answer
  <2>2. beyond(TRUE) \in BOOLEAN /\ beyond(FALSE) \in BOOLEAN
    OBVIOUS
  <2>3. /\ beyond(TRUE) <=> \E m \in Alive(Now) : IF page # {} THEN m < MinOf(page)
                                                  ELSE q.from = "after" /\ m <= q.key
        /\ beyond(FALSE) <=> \E m \in Alive(Now) : IF page # {} THEN m > MaxOf(page)
                                                   ELSE q.from = "before" /\ m >= q.key
    OBVIOUS
  <2>4. PageOf(q) \subseteq Msgs
    BY <1>0, <1>1, PageIsAlive, CreatedIn
  <2>5. q.kind \in {"latest", "older", "newer", "jump"} /\ q.key \in 0 .. MaxMsgs
    BY <1>1 DEF Questions
  <2> HIDE DEF beyond
  <2>6. a \in Answers
    <3>1. Now \in 0 .. MaxPts /\ PageOf(q) \in SUBSET Msgs
      BY <1>0, <2>4
    <3> QED
      BY <2>2, <2>5, <3>1, AnswerMade
  <2>7. /\ a.pts = Now /\ a.kind = q.kind /\ a.key = q.key /\ a.page = PageOf(q)
        /\ a.before = beyond(TRUE) /\ a.after = beyond(FALSE)
    OBVIOUS
  <2> HIDE DEF a
  <2>8. CASE q.from = "around" /\ q.key \notin Alive(Now)
    BY <2>1, <2>8
  <2>9. CASE ~ (q.from = "around" /\ q.key \notin Alive(Now))
    <3>1. Complete(a)
      BY <1>0, <1>1, <2>3, <2>6, <2>7, <2>9, PageIsWhole
    <3> QED
      BY <2>1, <2>6, <2>7, <2>9, <3>1
  <2> QED
    BY <2>8, <2>9
<1>4. ASSUME a \in Answers, a.pts = Now, Complete(a) PROVE Complete(a)' /\ Ahead(a)'
  <2>1. Created(a.pts)' = Created(a.pts) /\ Alive(a.pts)' = Alive(a.pts)
    BY <1>2 DEF Created, Alive, GoneBy
  <2>2. Complete(a)'
    BY <1>4, <2>1 DEF Complete
  <2>3. \A m \in Msgs : ~ (fresh'[m] > a.pts)
    BY <1>0, <1>2, <1>4, ViewTyped DEF Reach
  <2> QED
    BY <2>2, <2>3 DEF Ahead
<1>5. Idle \notin Answers /\ Idle \notin Questions /\ Answers \cap Questions = {}
  BY DEF Questions, Answers, Idle
<1>6. req \in [Slots -> {Idle} \cup Questions \cup Answers]
  BY <1>0 DEF TypeOK
<1>7. \A t \in Slots : req'[t] = IF t = s THEN a ELSE req[t]
  BY <1>3, <1>6
<1>8. \A t \in Slots, q \in Answers : req'[t] = q => req[t] = q \/ (Complete(q)' /\ Ahead(q)')
  BY <1>3, <1>4, <1>5, <1>7
<1>9. \A t \in Slots, q \in Questions : req'[t] = q => req[t] = q
  BY <1>3, <1>5, <1>7
<1> QED
  BY <1>2, <1>8, <1>9, HolesOnlyAsked

\* What depends on the history alone.
LEMMA SameHistory ==
    ASSUME hist' = hist
    PROVE  /\ Now' = Now /\ Created(Now)' = Created(Now) /\ GoneBy(Now)' = GoneBy(Now)
           /\ Alive(Now)' = Alive(Now)
           /\ \A n : Created(n)' = Created(n)
           /\ OrderInv' <=> OrderInv
           /\ \A q : (Complete(q)' <=> Complete(q)) /\ (Keyed(q)' <=> Keyed(q))
<1>1. Now' = Now
  BY DEF Now
<1>2. \A n : Created(n)' = Created(n) /\ GoneBy(n)' = GoneBy(n) /\ Alive(n)' = Alive(n)
  BY DEF Created, GoneBy, Alive
<1>3. Created(Now)' = Created(Now) /\ GoneBy(Now)' = GoneBy(Now) /\ Alive(Now)' = Alive(Now)
  BY <1>1 DEF Created, GoneBy, Alive
<1>4. OrderInv' <=> OrderInv
  BY <1>1, <1>2 DEF OrderInv
<1>5. ASSUME NEW q PROVE (Complete(q)' <=> Complete(q)) /\ (Keyed(q)' <=> Keyed(q))
  <2>1. Created(q.pts)' = Created(q.pts) /\ Alive(q.pts)' = Alive(q.pts)
    BY <1>2
  <2>2. Complete(q)' <=> Complete(q)
    BY <2>1 DEF Complete
  <2>3. Keyed(q)' <=> Keyed(q)
    BY <1>3 DEF Keyed
  <2> QED
    BY <2>2, <2>3
<1> QED
  BY <1>1, <1>2, <1>3, <1>4, <1>5

\* A change is of a message that has been written.
LEMMA TouchedIsCreated ==
    ASSUME TypeOK, NEW n \in Nat, NEW to \in Int, to <= Now
    PROVE  Touched(n, to) \subseteq Created(to) /\ Touched(n, to) \subseteq Msgs
           /\ Created(to) \subseteq Created(n) \cup Touched(n, to)
<1>1. \A p \in (n + 1) .. to : p \in 1 .. to
  OBVIOUS
<1>2. Touched(n, to) \subseteq Created(to)
  BY <1>1 DEF Touched, Created
<1>3. \A p \in 1 .. to : p \in 1 .. n \/ p \in (n + 1) .. to
  OBVIOUS
<1>4. Created(to) \subseteq Created(n) \cup Touched(n, to)
  BY <1>3 DEF Touched, Created
<1> QED
  BY <1>2, <1>4, CreatedIn

LEMMA AdvanceHoles ==
    ASSUME WindowInv, WindowInv', HolesInv, NEW to \in (cursor + 1) .. Now, NEW t \in to .. Now, Advance(to, t)
    PROVE  HolesInv'
<1> DEFINE named == Touched(cursor, to)
           dead == named \cap GoneBy(t)
           held == Held \ dead
           stored == {m \in named \ (dead \cup gone) : Stores(m, to, held)}
<1>0. TypeOK /\ OrderInv /\ Reach
  BY DEF WindowInv, HolesInv
<1>1. /\ cursor' = to /\ gone' = gone \cup dead
      /\ list' = [m \in held \cup stored |-> IF m \in stored THEN t ELSE list[m]]
      /\ fresh' = [m \in Msgs |-> IF m \in stored THEN to ELSE fresh[m]]
      /\ missed' = (missed \ stored) \cup ((named \cap Overtaken(to)) \ (stored \cup held \cup dead))
      /\ UNCHANGED <<hist, win, req, sends, torn>>
  BY DEF Advance
<1>2. /\ cursor \in Nat /\ Now \in Nat /\ Now <= MaxPts /\ to \in Nat /\ t \in Nat
      /\ cursor < to /\ to <= t /\ t <= Now
  BY <1>0, HistTyped
<1>3. /\ named \subseteq Msgs /\ named \subseteq Created(to) /\ Created(to) \subseteq Created(cursor) \cup named
      /\ Created(to) \subseteq Created(Now) /\ GoneBy(t) \subseteq GoneBy(Now)
  BY <1>0, <1>2, TouchedIsCreated, CreatedUpTo
<1>4. /\ held = Held \ dead /\ Held \subseteq Msgs /\ stored \subseteq named /\ dead \subseteq GoneBy(Now)
      /\ \A m \in stored : m \in held \/ InsideWindow(held, m)
      /\ \A m \in named : m \notin dead /\ m \notin gone /\ m \notin held /\ m \notin stored =>
            win = NoWindow \/ ~ (fresh[m] < to) \/ ~ (to > win.base) \/ ~ InsideWindow(held, m)
  BY <1>0, <1>3 DEF Stores, TypeOK
<1> HIDE DEF named, dead, held, stored
<1>5. Held' = held \cup stored
  BY <1>1 DEF Held
<1>6. /\ Now' = Now /\ Created(Now)' = Created(Now) /\ Alive(Now)' = Alive(Now) /\ GoneBy(Now)' = GoneBy(Now)
      /\ OrderInv'
      /\ \A n : Created(n)' = Created(n)
      /\ \A q : (Complete(q)' <=> Complete(q)) /\ (Keyed(q)' <=> Keyed(q))
  BY <1>0, <1>1, SameHistory
<1>7. \A m \in Msgs : fresh'[m] = IF m \in stored THEN to ELSE fresh[m]
  BY <1>1
<1>8. Reach'
  <2>1. \A m \in Msgs : fresh'[m] <= Now /\ (fresh'[m] > 0 => m \in Created(fresh'[m]))
    <3> SUFFICES ASSUME NEW m \in Msgs PROVE fresh'[m] <= Now /\ (fresh'[m] > 0 => m \in Created(fresh'[m]))
      OBVIOUS
    <3>1. CASE m \in stored
      BY <1>2, <1>3, <1>4, <1>7, <3>1
    <3>2. CASE m \notin stored
      BY <1>0, <1>7, <3>2 DEF Reach
    <3> QED
      BY <3>1, <3>2
  <2>2. \A m \in Msgs : Created(fresh[m])' = Created(fresh'[m])
    BY <1>1 DEF Created
  <2>3. gone' \subseteq GoneBy(Now)' /\ Held' \subseteq Created(Now)'
    BY <1>0, <1>1, <1>3, <1>4, <1>5, <1>6 DEF Reach
  <2>4. win'.base <= Now' /\ \A x \in sends' : x.msg \in Created(Now)'
    BY <1>0, <1>1, <1>6 DEF Reach
  <2> QED
    BY <1>6, <2>1, <2>2, <2>3, <2>4 DEF Reach
<1>9. QuestionsKeyed'
  BY <1>1, <1>6 DEF QuestionsKeyed, HolesInv
<1>10. AnswersComplete'
  <2> SUFFICES ASSUME NEW s \in Slots, NEW q \in Answers, req[s] = q, Complete(q), Ahead(q)
               PROVE  Complete(q)' /\ Ahead(q)'
    BY <1>1 DEF AnswersComplete, HolesInv
  <2>1. ASSUME NEW m \in Msgs, fresh'[m] > q.pts PROVE m \in Held' \cup missed' \cup gone'
    <3>1. CASE m \in stored
      BY <1>5, <3>1
    <3>2. CASE m \notin stored
      <4>1. m \in Held \cup missed \cup gone
        BY <1>7, <2>1, <3>2 DEF Ahead
      <4> QED
        BY <1>1, <1>4, <1>5, <3>2, <4>1
    <3> QED
      BY <3>1, <3>2
  <2> QED
    BY <1>6, <2>1 DEF Ahead
<1>11. Edges'
  <2> SUFFICES ASSUME win # NoWindow, ~ torn, NEW m \in Alive(Now), m \notin Held', m \notin missed', Due(m)'
               PROVE  AwayFrom(Held', m)
    BY <1>1, <1>6 DEF Edges, AwayFrom
  <2>1. /\ m \in Msgs /\ m \notin stored /\ m \notin missed /\ m \notin held /\ m \notin dead
        /\ m \notin gone /\ m \notin Held /\ win \in Windows
    BY <1>0, <1>1, <1>2, <1>4, <1>5, CreatedIn, WindowShape DEF Alive, Reach
  <2>2. ASSUME AwayFrom(held, m) PROVE AwayFrom(Held', m)
    <3>1. \A x \in stored \ held : InsideWindow(held, x)
      BY <1>4
    <3>2. stored \ held \in SUBSET Msgs /\ held \subseteq Msgs /\ m \in Msgs \ held
      BY <1>3, <1>4, <2>1
    <3>3. AwayFrom(held \cup (stored \ held), m)
      BY <2>1, <2>2, <3>1, <3>2, InsideOrAway
    <3>4. Held' = held \cup (stored \ held)
      BY <1>5
    <3> QED
      BY <3>3, <3>4
  <2>3. ASSUME Due(m) PROVE AwayFrom(held, m)
    <3>1. AwayFrom(Held, m)
      BY <2>1, <2>3 DEF HolesInv, Edges
    <3> QED
      BY <1>4, <3>1 DEF AwayFrom
  <2>4. ASSUME m \in Created(to), ~ Due(m) PROVE AwayFrom(held, m)
    <3>1. m \in named
      BY <1>3, <2>4 DEF Due
    <3>2. fresh[m] < to
      <4>1. fresh[m] \in Int /\ (to <= fresh[m] => Created(to) \subseteq Created(fresh[m]))
        BY <1>0, <1>2, <2>1, CreatedUpTo, ViewTyped
      <4> QED
        BY <1>2, <2>4, <4>1 DEF Due
    <3>3. to > win.base
      <4>1. win.base \in Int /\ (to <= win.base => Created(to) \subseteq Created(win.base))
        BY <1>0, <1>2, CreatedUpTo, BaseTyped
      <4> QED
        BY <1>2, <2>4, <4>1 DEF Due
    <3>4. ~ InsideWindow(held, m)
      BY <1>4, <2>1, <3>1, <3>2, <3>3
    <3>5. held \subseteq Msgs /\ m \in Msgs \ held
      BY <1>4, <2>1
    <3> QED
      BY <2>1, <3>4, <3>5, InsideOrAway
  <2>5. Due(m) \/ m \in Created(to)
    <3>1. Created(cursor)' = Created(to)
      BY <1>1 DEF Created
    <3>2. Created(win.base)' = Created(win.base)
      BY <1>1 DEF Created
    <3>3. Created(fresh[m])' = Created(fresh[m])
      BY <1>1, <1>7, <2>1 DEF Created
    <3>4. ASSUME NEW h \in Held', Known(h)', m < h PROVE Due(m) \/ m \in Created(to)
      <4>1. CASE h \in stored
        BY <1>0, <1>2, <1>3, <1>4, <2>1, <3>4, <4>1, Bounds, CreatedDown
      <4>2. CASE h \notin stored
        <5>1. h \in Held /\ h \in Msgs
          BY <1>4, <1>5, <4>2
        <5>2. Known(h)
          BY <1>1, <1>7, <3>4, <4>2, <5>1 DEF Known
        <5> QED
          BY <3>4, <5>1, <5>2 DEF Due
      <4> QED
        BY <4>1, <4>2
    <3> QED
      BY <3>1, <3>2, <3>3, <3>4 DEF Due
  <2> QED
    BY <2>2, <2>3, <2>4, <2>5
<1> QED
  BY <1>6, <1>8, <1>9, <1>10, <1>11 DEF HolesInv

LEMMA ResetHoles ==
    ASSUME WindowInv, WindowInv', HolesInv, Reset
    PROVE  HolesInv'
<1>0. TypeOK /\ OrderInv /\ Reach /\ Now \in Nat
  BY HistTyped DEF WindowInv, HolesInv
<1>1. /\ cursor' = Now /\ win' = NoWindow /\ list' = [m \in {} |-> 0]
      /\ fresh' = [m \in Msgs |-> Never]
      /\ UNCHANGED <<hist, gone, sends>>
  BY DEF Reset
<1>2. LatestAsked \in Questions /\ LatestAsked \notin Answers /\ Keyed(LatestAsked)
  BY Bounds DEF LatestAsked, Asked, Questions, Answers, Keyed
<1>3. \A s \in Slots : req'[s] = req[s] \/ req'[s] = LatestAsked
  <2>1. req \in [Slots -> {Idle} \cup Questions \cup Answers]
    BY <1>0 DEF TypeOK
  <2>2. req' = req \/ \E s \in Slots : req' = [req EXCEPT ![s] = LatestAsked]
    BY DEF Reset
  <2> QED
    BY <2>1, <2>2
<1>4. /\ Now' = Now /\ Created(Now)' = Created(Now) /\ GoneBy(Now)' = GoneBy(Now) /\ OrderInv'
      /\ \A q : (Complete(q)' <=> Complete(q)) /\ (Keyed(q)' <=> Keyed(q))
  BY <1>0, <1>1, SameHistory
<1>5. Reach'
  <2>1. win'.base = -1 /\ Held' = {} /\ \A m \in Msgs : fresh'[m] = -1
    BY <1>1 DEF NoWindow, Never, Held
  <2>2. win'.base <= Now'
    BY <1>0, <1>4, <2>1
  <2>3. \A m \in Msgs : fresh'[m] <= Now' /\ ~ (fresh'[m] > 0)
    BY <1>0, <1>4, <2>1
  <2>4. gone' \subseteq GoneBy(Now)' /\ \A x \in sends' : x.msg \in Created(Now)'
    BY <1>0, <1>1, <1>4 DEF Reach
  <2> QED
    BY <2>1, <2>2, <2>3, <2>4 DEF Reach
<1>6. QuestionsKeyed'
  BY <1>2, <1>3, <1>4 DEF QuestionsKeyed, HolesInv
<1>7. AnswersComplete'
  <2> SUFFICES ASSUME NEW s \in Slots, NEW q \in Answers, req'[s] = q
               PROVE  Complete(q)' /\ Ahead(q)'
    BY DEF AnswersComplete
  <2>1. req[s] = q /\ Complete(q)
    BY <1>2, <1>3 DEF HolesInv, AnswersComplete
  <2>2. \A m \in Msgs : ~ (fresh'[m] > q.pts)
    BY <1>1, AnswerShape, Bounds DEF Never
  <2> QED
    BY <1>4, <2>1, <2>2 DEF Ahead
<1>8. Edges'
  BY <1>1 DEF Edges
<1> QED
  BY <1>4, <1>5, <1>6, <1>7, <1>8 DEF HolesInv

\* A step that shows the messages X besides, or takes one from the feed that
\* is gone.
LEMMA FewHoles ==
    ASSUME WindowInv, HolesInv, UNCHANGED <<hist, cursor, win, req>>, sends' \subseteq sends,
           gone \subseteq gone', gone' \subseteq GoneBy(Now), missed \subseteq missed',
           ~ torn' => ~ torn,
           NEW X \in SUBSET Msgs, X \subseteq Created(Now), X \subseteq Held',
           Held' \subseteq Held \cup X, Held \subseteq Held' \cup gone',
           \A m \in Msgs \ X : fresh'[m] = fresh[m],
           \A m \in X : fresh'[m] = fresh[m] \/ fresh'[m] = 0,
           ~ torn' => \A m \in X : InsideWindow(Held, m) /\ fresh'[m] <= 0
    PROVE  HolesInv'
<1>0. TypeOK /\ OrderInv /\ Reach /\ Now \in Nat /\ Held \subseteq Msgs /\ Held' \subseteq Msgs
  BY HistTyped DEF WindowInv, HolesInv, TypeOK
<1>1. /\ Now' = Now /\ Created(Now)' = Created(Now) /\ GoneBy(Now)' = GoneBy(Now) /\ Alive(Now)' = Alive(Now)
      /\ OrderInv'
      /\ \A q : (Complete(q)' <=> Complete(q)) /\ (Keyed(q)' <=> Keyed(q))
  BY <1>0, SameHistory
<1>2. Reach'
  <2>1. \A m \in Msgs : fresh'[m] <= Now /\ (fresh'[m] > 0 => m \in Created(fresh'[m]))
    BY <1>0 DEF Reach
  <2>2. \A m \in Msgs : Created(fresh[m])' = Created(fresh'[m])
    BY DEF Created
  <2>3. Held' \subseteq Created(Now)'
    BY <1>0, <1>1 DEF Reach
  <2>4. win'.base <= Now' /\ \A x \in sends' : x.msg \in Created(Now)'
    BY <1>0, <1>1 DEF Reach
  <2> QED
    BY <1>1, <2>1, <2>2, <2>3, <2>4 DEF Reach
<1>3. QuestionsKeyed'
  BY <1>1 DEF QuestionsKeyed, HolesInv
<1>4. AnswersComplete'
  <2> SUFFICES ASSUME NEW s \in Slots, NEW q \in Answers, req[s] = q, Complete(q), Ahead(q)
               PROVE  Complete(q)' /\ Ahead(q)'
    BY DEF AnswersComplete, HolesInv
  <2>1. ASSUME NEW m \in Msgs, fresh'[m] > q.pts PROVE m \in Held' \cup missed' \cup gone'
    <3>1. CASE m \in X
      BY <3>1
    <3>2. CASE m \notin X
      BY <2>1, <3>2 DEF Ahead
    <3> QED
      BY <3>1, <3>2
  <2> QED
    BY <1>1, <2>1 DEF Ahead
<1>5. Edges'
  <2> SUFFICES ASSUME win # NoWindow, ~ torn', NEW m \in Alive(Now), m \notin Held', m \notin missed', Due(m)'
               PROVE  AwayFrom(Held', m)
    BY <1>1 DEF Edges, AwayFrom
  <2>1. m \in Msgs /\ m \notin X /\ m \notin missed /\ m \notin Held /\ win \in Windows
    <3>1. m \notin gone' /\ m \in Msgs
      BY <1>0, CreatedIn DEF Alive
    <3> QED
      BY <1>0, <3>1, WindowShape
  <2>2. Due(m)
    <3>1. /\ Created(cursor)' = Created(cursor) /\ Created(win.base)' = Created(win.base)
          /\ Created(fresh[m])' = Created(fresh[m])
      BY <2>1 DEF Created
    <3>2. ASSUME NEW h \in Held', Known(h)' PROVE h \in Held /\ Known(h)
      <4>1. fresh'[h] > 0 /\ h \notin missed
        BY <3>2 DEF Known
      <4>2. h \notin X
        <5>1. CASE h \in X
          <6>1. fresh'[h] <= 0 /\ (fresh'[h] = fresh[h] \/ fresh'[h] = 0) /\ fresh[h] \in Int
            BY <1>0, <5>1, ViewTyped
          <6> QED
            BY <4>1, <6>1
        <5> QED
          BY <5>1
      <4> QED
        BY <1>0, <4>1, <4>2 DEF Known
    <3> QED
      BY <3>1, <3>2 DEF Due
  <2>3. AwayFrom(Held, m)
    BY <2>1, <2>2 DEF HolesInv, Edges
  <2>4. AwayFrom(Held \cup X, m)
    BY <1>0, <2>1, <2>3, InsideOrAway
  <2> QED
    BY <2>4 DEF AwayFrom
<1> QED
  BY <1>1, <1>2, <1>3, <1>4, <1>5 DEF HolesInv

LEMMA SentHoles ==
    ASSUME WindowInv, WindowInv', HolesInv, NEW x \in sends, TakeSent(x)
    PROVE  HolesInv'
<1>0. TypeOK /\ x.msg \in Msgs /\ x.msg \in Created(Now) /\ gone \subseteq GoneBy(Now) /\ torn \in BOOLEAN
  BY DEF WindowInv, HolesInv, Reach, TypeOK
<1>1. CASE win = NoWindow \/ x.msg \in gone \cup Held
  <2>1. /\ UNCHANGED <<hist, cursor, win, list, fresh, gone, req, missed, torn>>
        /\ sends' \subseteq sends
    BY <1>1 DEF TakeSent
  <2> QED
    BY <2>1, HolesOnlyAsked
<1>2. CASE ~ (win = NoWindow \/ x.msg \in gone \cup Held)
  <2>1. /\ list' = [m \in Held \cup {x.msg} |-> IF m = x.msg THEN x.at ELSE list[m]]
        /\ fresh' = [fresh EXCEPT ![x.msg] = IF @ = Never THEN 0 ELSE @]
        /\ missed' = IF x.msg \in Touched(x.at, cursor) \/ fresh[x.msg] > x.at
                     THEN missed \cup {x.msg} ELSE missed
        /\ torn' = (torn \/ ~ InsideWindow(Held, x.msg) \/ fresh[x.msg] > 0)
        /\ sends' = sends \ {x}
        /\ UNCHANGED <<hist, cursor, win, gone, req>>
    BY <1>2 DEF TakeSent
  <2>2. Held' = Held \cup {x.msg} /\ missed \subseteq missed'
    BY <2>1 DEF Held
  <2>3. /\ fresh'[x.msg] = (IF fresh[x.msg] = Never THEN 0 ELSE fresh[x.msg])
        /\ \A m \in Msgs \ {x.msg} : fresh'[m] = fresh[m]
    BY <1>0, <2>1 DEF TypeOK
  <2>4. fresh[x.msg] \in Int /\ (~ (fresh[x.msg] > 0) => fresh'[x.msg] <= 0)
    BY <1>0, <2>3, ViewTyped
  <2>5. ~ torn' => ~ torn /\ InsideWindow(Held, x.msg) /\ fresh'[x.msg] <= 0
    BY <2>1, <2>4
  <2>6. {x.msg} \in SUBSET Msgs /\ {x.msg} \subseteq Created(Now)
    BY <1>0
  <2> QED
    BY <1>0, <2>1, <2>2, <2>3, <2>5, <2>6, FewHoles
<1> QED
  BY <1>1, <1>2

LEMMA RemovedHoles ==
    ASSUME WindowInv, WindowInv', HolesInv, NEW m \in Msgs, TakeRemoved(m)
    PROVE  HolesInv'
<1>1. /\ m \in GoneBy(Now) /\ gone' = gone \cup {m} /\ list' = Without(list, {m})
      /\ UNCHANGED <<hist, cursor, win, fresh, req, sends, missed, torn>>
  BY DEF TakeRemoved
<1>2. Held' = Held \ {m} /\ gone \subseteq GoneBy(Now)
  BY <1>1 DEF Held, Without, HolesInv, Reach
<1>3. {} \in SUBSET Msgs /\ {} \subseteq Created(Now) /\ {} \subseteq Held'
  OBVIOUS
<1>4. /\ Held' \subseteq Held \cup {} /\ Held \subseteq Held' \cup gone'
      /\ gone \subseteq gone' /\ gone' \subseteq GoneBy(Now)
  BY <1>1, <1>2
<1> QED
  BY <1>1, <1>3, <1>4, FewHoles

LEMMA EditedHoles ==
    ASSUME WindowInv, WindowInv', HolesInv, NEW at \in 1 .. Now, TakeEdited(at)
    PROVE  HolesInv'
<1>1. UNCHANGED <<hist, cursor, win, fresh, gone, req, sends, missed, torn>> /\ Held' = Held
  BY DEF TakeEdited, Held
<1>2. gone \subseteq GoneBy(Now)
  BY DEF HolesInv, Reach
<1>3. {} \in SUBSET Msgs /\ {} \subseteq Created(Now) /\ {} \subseteq Held'
  OBVIOUS
<1> QED
  BY <1>1, <1>2, <1>3, FewHoles

\* What a cut at one edge takes is beyond what stays.
LEMMA ShowCuts ==
    ASSUME NEW w \in Windows, NEW l, DOMAIN l \subseteq Msgs, NEW side \in {"top", "bottom"}, NEW f,
           Show(w, l, side, f)
    PROVE  \E cut \in SUBSET DOMAIN l :
             /\ Held' = DOMAIN l \ cut
             /\ \A m \in Msgs : fresh'[m] = IF m \in cut THEN Never ELSE f[m]
             /\ win'.base = w.base
             /\ win'.before = (w.before \/ (cut # {} /\ side = "top"))
             /\ win'.after = (w.after \/ (cut # {} /\ side = "bottom"))
             /\ \A c \in cut, h \in Held' : IF side = "top" THEN c < h ELSE h < c
<1> DEFINE held == DOMAIN l
           n == Cardinality(held) - WindowMax
           cut == Trimmed(held, side)
<1>1. /\ list' = Without(l, cut)
      /\ fresh' = [m \in Msgs |-> IF m \in cut THEN Never ELSE f[m]]
      /\ win' = [w EXCEPT !.before = @ \/ (cut # {} /\ side = "top"),
                          !.after = @ \/ (cut # {} /\ side = "bottom")]
  BY DEF Show
<1>2. Held' = held \ cut
  BY <1>1 DEF Held, Without
<1>3. cut = {} \/ cut = IF side = "top" THEN First(n, held) ELSE Last(n, held)
  BY DEF Trimmed
<1>4. held \subseteq Msgs /\ n \in Int
  BY SomeOf, Bounds
<1> HIDE DEF held, cut, n
<1>5. cut \subseteq held
  BY <1>3 DEF First, Last
<1>6. ASSUME NEW c \in cut, NEW h \in Held' PROVE IF side = "top" THEN c < h ELSE h < c
  <2>1. c \in held /\ h \in held /\ h \notin cut
    BY <1>2, <1>5
  <2>2. CASE side = "top"
    <3>1. cut = First(n, held)
      BY <1>3, <2>2
    <3> QED
      BY <1>4, <2>1, <2>2, <3>1, Ordered
  <2>3. CASE side # "top"
    <3>1. cut = Last(n, held)
      BY <1>3, <2>3
    <3> QED
      BY <1>4, <2>1, <2>3, <3>1, Ordered
  <2> QED
    BY <2>2, <2>3
<1>7. /\ win'.base = w.base
      /\ win'.before = (w.before \/ (cut # {} /\ side = "top"))
      /\ win'.after = (w.after \/ (cut # {} /\ side = "bottom"))
  BY <1>1 DEF Windows
<1>8. \A m \in Msgs : fresh'[m] = IF m \in cut THEN Never ELSE f[m]
  BY <1>1
<1> QED
  BY <1>2, <1>5, <1>6, <1>7, <1>8 DEF held

\* What a message that a page does not show says of the page and the device.
LEMMA LeftOut ==
    ASSUME WindowInv, HolesInv, NEW q \in Answers, Sound(q), Complete(q), Ahead(q), PageTaken(q),
           NEW others, missed' = (missed \ Renewed(q)) \cup GivenUp(q, others),
           NEW m \in Msgs, m \notin Held', m \notin missed', m \notin gone
    PROVE  /\ m \notin missed
           /\ m \in q.page => m \in Incoming(q)
           /\ fresh[m] > q.pts => m \in Held
           /\ m \in Created(cursor) /\ m \notin Created(q.pts) => fresh[m] > q.pts
           /\ m \in Created(fresh'[m]) => m \in Created(q.pts) \/ fresh[m] > q.pts
           /\ m \in Created(fresh'[m]) /\ m \notin q.page => m \in Created(fresh[m])
           /\ m \notin Created(q.pts) => \A k \in q.page : k < m
<1>0. /\ TypeOK /\ OrderInv /\ Reach /\ q.pts \in Nat /\ q.pts <= Now /\ q.page \subseteq Msgs
      /\ cursor \in Nat /\ cursor <= Now /\ fresh[m] \in Int
  BY AnswerShape, Bounds, HistTyped, ViewTyped DEF WindowInv, HolesInv, Sound
<1>1. m \notin missed
  BY DEF Renewed
<1>2. ASSUME m \in q.page PROVE m \in Incoming(q)
  <2>1. m \in Held \/ ~ (fresh[m] > q.pts)
    BY <1>2 DEF GivenUp
  <2> QED
    BY <1>0, <1>2, <2>1 DEF Incoming
<1>3. fresh[m] > q.pts => m \in Held
  BY <1>1 DEF Ahead
<1>4. ASSUME m \in Created(cursor), m \notin Created(q.pts) PROVE fresh[m] > q.pts
  <2>1. m \in Touched(q.pts, cursor)
    BY <1>0, <1>4, TouchedIsCreated
  <2> QED
    BY <1>0, <1>1, <2>1 DEF Sound
<1>5. \/ fresh'[m] = Never
      \/ fresh'[m] = q.pts /\ m \in q.page
      \/ fresh'[m] = fresh[m]
  BY DEF PageTaken, FreshAfter
<1>6. m \notin Created(Never)
  BY DEF Created, Never
<1>7. m \in Created(fresh'[m]) => m \in Created(q.pts) \/ fresh[m] > q.pts
  <2>1. CASE fresh'[m] = fresh[m] /\ ~ (fresh[m] > q.pts)
    <3>1. Created(fresh[m]) \subseteq Created(q.pts)
      BY <1>0, <2>1, CreatedUpTo
    <3> QED
      BY <2>1, <3>1
  <2> QED
    BY <1>5, <1>6, <2>1
<1>8. m \in Created(fresh'[m]) /\ m \notin q.page => m \in Created(fresh[m])
  BY <1>5, <1>6
<1>9. ASSUME m \notin Created(q.pts), NEW k \in q.page PROVE k < m
  <2>1. k \in Created(q.pts) /\ k \in Nat /\ m \in Nat
    BY <1>0, Bounds DEF Complete
  <2>2. ~ (m <= k)
    BY <1>0, <1>9, <2>1, CreatedDown
  <2> QED
    BY <2>1, <2>2
<1> QED
  BY <1>1, <1>2, <1>3, <1>4, <1>7, <1>8, <1>9

\* What the page does not name is known as it was.
LEMMA KnownStays ==
    ASSUME WindowInv, NEW q \in Answers, PageTaken(q),
           NEW others, missed' = (missed \ Renewed(q)) \cup GivenUp(q, others),
           NEW h \in Held', h \notin q.page, Known(h)'
    PROVE  h \in Held /\ Known(h) /\ fresh'[h] = fresh[h]
<1>1. h \in Held /\ fresh'[h] = fresh[h]
  BY DEF PageTaken, FromPage
<1>2. h \notin missed /\ fresh'[h] > 0
  BY DEF Renewed, Known
<1> QED
  BY <1>1, <1>2 DEF Known

LEMMA PageNumbers ==
    ASSUME WindowInv, HolesInv, NEW q \in Answers, Sound(q)
    PROVE  /\ TypeOK /\ OrderInv /\ Reach /\ Held \subseteq Msgs /\ Now \in Nat /\ cursor \in Nat /\ cursor <= Now
           /\ q.pts \in 0 .. MaxPts /\ q.pts \in Nat /\ q.pts <= Now /\ q.page \subseteq Msgs /\ win.base \in Int
           /\ q.before \in BOOLEAN /\ q.after \in BOOLEAN /\ win.base <= MaxPts
           /\ torn \in BOOLEAN
<1>1. TypeOK /\ OrderInv /\ Reach
  BY DEF WindowInv, HolesInv
<1>2. Held \subseteq Msgs /\ torn \in BOOLEAN
  BY <1>1 DEF TypeOK
<1>3. /\ q.pts \in 0 .. MaxPts /\ q.page \subseteq Msgs /\ q.before \in BOOLEAN /\ q.after \in BOOLEAN
      /\ q.pts <= Now
  BY AnswerShape DEF Sound
<1>4. Now \in Nat /\ cursor \in Nat /\ cursor <= Now /\ win.base \in Int /\ win.base <= MaxPts
  BY <1>1, HistTyped, BaseTyped
<1>5. q.pts \in Nat
  BY <1>3, Bounds
<1> QED
  BY <1>1, <1>2, <1>3, <1>4, <1>5

\* The window that a page of the tail, or a jump, leaves.
LEMMA TailEdges ==
    ASSUME WindowInv, HolesInv, NEW q \in Answers, Sound(q), Complete(q), Ahead(q), PageTaken(q),
           q.kind \in {"latest", "jump"}, TakeTail(q), hist' = hist, cursor' = cursor,
           NEW others, missed' = (missed \ Renewed(q)) \cup GivenUp(q, others)
    PROVE  Edges' /\ win'.base <= Now
<1> DEFINE in == Incoming(q)
           newer == IF q.kind = "jump" /\ q.after THEN {} ELSE NewerThan(q)
           older == IF q.kind = "jump" \/ win = NoWindow THEN {} ELSE Joined(q)
           w == [base |-> IF q.kind = "latest" /\ win.base > q.pts THEN win.base ELSE q.pts,
                 before |-> IF older # {} THEN win.before ELSE q.before,
                 after |-> q.after, stale |-> FALSE]
           shown == older \cup in \cup newer
           l == Views(q, shown)
<1>0. /\ TypeOK /\ OrderInv /\ Reach /\ Held \subseteq Msgs /\ Now \in Nat /\ cursor \in Nat /\ cursor <= Now
      /\ q.pts \in 0 .. MaxPts /\ q.pts \in Nat /\ q.pts <= Now /\ q.page \subseteq Msgs /\ win.base \in Int
      /\ q.before \in BOOLEAN /\ q.after \in BOOLEAN /\ win.base <= MaxPts
      /\ torn \in BOOLEAN
  BY PageNumbers
<1>1. /\ in \subseteq q.page /\ in \subseteq Msgs /\ newer \subseteq Held /\ older \subseteq Held
      /\ older # {} => /\ q.kind = "latest" /\ win # NoWindow /\ in # {}
                       /\ older = {m \in Held : m < MinOf(in)}
      /\ ~ (q.kind = "jump" /\ q.after) => newer = {m \in Held \ in : fresh[m] > q.pts}
      /\ q.kind = "jump" /\ q.after => newer = {} /\ older = {}
  BY <1>0 DEF Incoming, NewerThan, Joined
<1>2. in # {} => MinOf(in) \in in /\ \A k \in in : MinOf(in) <= k
  BY <1>1, Ends
<1>3. /\ w.base = IF q.kind = "latest" /\ win.base > q.pts THEN win.base ELSE q.pts
      /\ w.before = IF older # {} THEN win.before ELSE q.before
      /\ w.after = q.after
  OBVIOUS
<1>4. w \in Windows
  <2>1. (IF q.kind = "latest" /\ win.base > q.pts THEN win.base ELSE q.pts) \in 0 .. MaxPts
    BY <1>0
  <2>2. (IF older # {} THEN win.before ELSE q.before) \in BOOLEAN
    BY <1>0, <1>1, WindowShape
  <2> HIDE DEF older
  <2> QED
    BY <1>0, <2>1, <2>2 DEF Windows
<1>5. /\ IF q.kind = "latest" THEN Show(w, l, "top", FreshAfter(q))
         ELSE list' = l /\ win' = w /\ fresh' = FreshAfter(q)
      /\ torn' = \/ older # {} /\ (torn \/ \A m \in Held : m < MinOf(in) \/ ~ Known(m))
                 \/ \E m \in newer : fresh[m] > cursor \/ \A k \in in : m < k
                 \/ q.kind = "latest" /\ win.base > q.pts
  BY DEF TakeTail
<1>6. DOMAIN l = shown /\ shown \subseteq Msgs
  BY <1>0, <1>1 DEF Views
<1> HIDE DEF in, newer, older, w, shown, l
<1>7. shown = older \cup in \cup newer
  BY DEF shown
<1>8. PICK cut \in SUBSET shown :
        /\ Held' = shown \ cut
        /\ win'.base = w.base /\ win'.after = q.after
        /\ win'.before = (w.before \/ cut # {})
        /\ \A c \in cut, h \in Held' : c < h
  <2>1. CASE q.kind = "latest"
    <3>1. Show(w, l, "top", FreshAfter(q))
      BY <1>5, <2>1
    <3>2. PICK cut \in SUBSET DOMAIN l :
            /\ Held' = DOMAIN l \ cut
            /\ win'.base = w.base
            /\ win'.before = (w.before \/ (cut # {} /\ "top" = "top"))
            /\ win'.after = (w.after \/ (cut # {} /\ "top" = "bottom"))
            /\ \A c \in cut, h \in Held' : IF "top" = "top" THEN c < h ELSE h < c
      BY <1>4, <1>6, <3>1, ShowCuts
    <3>3. win'.before = (w.before \/ cut # {}) /\ win'.after = w.after
      BY <1>4, <3>2 DEF Windows
    <3> QED
      BY <1>3, <1>6, <3>2, <3>3
  <2>2. CASE q.kind # "latest"
    <3>1. win' = w /\ list' = l
      BY <1>5, <2>2
    <3>2. Held' = shown \ {}
      BY <1>6, <3>1 DEF Held
    <3>3. w.before = (w.before \/ {} # {})
      BY <1>4 DEF Windows
    <3>4. {} \in SUBSET shown /\ \A c \in {}, h \in Held' : c < h
      OBVIOUS
    <3>5. win'.base = w.base /\ win'.after = q.after /\ win'.before = (w.before \/ {} # {})
      BY <1>3, <3>1, <3>3
    <3> QED
      BY <3>2, <3>4, <3>5
  <2> QED
    BY <2>1, <2>2
<1>9. win'.base <= Now
  BY <1>0, <1>3, <1>8 DEF Reach
<1>10. /\ Now' = Now /\ Alive(Now)' = Alive(Now) /\ \A n : Created(n)' = Created(n)
  BY SameHistory
<1>11. Edges'
  <2> SUFFICES ASSUME ~ torn', NEW m \in Alive(Now), m \notin Held', m \notin missed', Due(m)'
               PROVE  AwayFrom(Held, m)'
    BY <1>10 DEF Edges
  <2>0. /\ m \in Msgs /\ m \notin gone /\ m \in Nat
        /\ \A n \in Int : m \in Created(n) /\ n <= Now => m \in Alive(n)
    <3>1. m \in Msgs /\ m \notin GoneBy(Now) /\ m \notin gone
      BY <1>0, CreatedIn DEF Alive, Reach
    <3>2. \A n \in Int : n <= Now => GoneBy(n) \subseteq GoneBy(Now)
      BY <1>0, CreatedUpTo
    <3> QED
      BY <3>1, <3>2, Bounds DEF Alive
  <2>1. /\ m \notin missed
        /\ m \in q.page => m \in in
        /\ fresh[m] > q.pts => m \in Held
        /\ m \in Created(cursor) /\ m \notin Created(q.pts) => fresh[m] > q.pts
        /\ m \in Created(fresh'[m]) => m \in Created(q.pts) \/ fresh[m] > q.pts
        /\ m \notin Created(q.pts) => \A k \in q.page : k < m
    BY <2>0, LeftOut DEF in
  <2>2. /\ \A x \in newer : fresh[x] <= cursor /\ \E k \in in : k <= x
        /\ older # {} => ~ torn /\ \E h \in Held : MinOf(in) <= h /\ Known(h)
        /\ ~ (q.kind = "latest" /\ win.base > q.pts)
    <3>1. /\ \A x \in newer : ~ (fresh[x] > cursor) /\ \E k \in in : ~ (x < k)
          /\ older # {} => ~ torn /\ \E h \in Held : ~ (h < MinOf(in)) /\ Known(h)
          /\ ~ (q.kind = "latest" /\ win.base > q.pts)
      BY <1>5
    <3>2. \A x \in Msgs : x \in Nat /\ fresh[x] \in Int
      BY <1>0, Bounds, ViewTyped
    <3>3. \A x \in newer : fresh[x] <= cursor /\ \E k \in in : k <= x
      BY <1>0, <1>1, <3>1, <3>2
    <3>4. ASSUME older # {} PROVE \E h \in Held : MinOf(in) <= h /\ Known(h)
      <4>1. PICK low \in in : low = MinOf(in)
        BY <1>1, <1>2, <3>4
      <4>2. PICK h \in Held : ~ (h < low) /\ Known(h)
        BY <3>1, <3>4, <4>1
      <4> QED
        BY <1>0, <1>1, <3>2, <4>1, <4>2
    <3> QED
      BY <3>1, <3>3, <3>4
  <2>3. CASE m \in cut
    <3>1. win'.before /\ \A h \in Held' : m < h
      BY <1>8, <2>3
    <3> QED
      BY <3>1 DEF AwayFrom
  <2>4. CASE m \notin cut /\ m \in Created(q.pts)
    <3>1. m \notin shown /\ m \notin q.page /\ m \in Alive(q.pts)
      BY <1>0, <1>7, <1>8, <2>0, <2>1, <2>4
    <3>2. CASE q.before /\ \A k \in q.page : m < k
      <4>1. \A x \in in \cup newer : m < x
        <5>1. \A x \in newer : \E k \in in : m < k /\ k <= x /\ k \in Msgs /\ x \in Msgs
          BY <1>0, <1>1, <2>2, <3>2
        <5>2. \A k \in Msgs, x \in Msgs : m < k /\ k <= x => m < x
          BY <2>0, Bounds
        <5> QED
          BY <1>1, <3>2, <5>1, <5>2
      <4>2. CASE older = {}
        <5>1. w.before
          BY <1>3, <3>2, <4>2
        <5> QED
          BY <1>7, <1>8, <4>1, <4>2, <5>1 DEF AwayFrom
      <4>3. CASE older # {}
        <5>1. PICK low \in in : low = MinOf(in)
          BY <1>1, <1>2, <4>3
        <5>2. PICK h \in Held : low <= h /\ Known(h)
          BY <2>2, <4>3, <5>1
        <5>3. m < low /\ m < h /\ h \in Nat
          <6>1. m < low /\ low \in Nat /\ h \in Nat
            BY <1>0, <1>1, <3>2, <5>1, <5>2, Bounds
          <6> QED
            BY <2>0, <5>2, <6>1
        <5>4. Due(m)
          BY <5>2, <5>3 DEF Due
        <5>5. m \notin Held
          BY <1>1, <1>7, <3>1, <4>3, <5>1, <5>3
        <5>6. AwayFrom(Held, m)
          BY <1>1, <2>1, <2>2, <4>3, <5>4, <5>5 DEF HolesInv, Edges
        <5>7. win.before /\ \A k \in Held : m < k
          BY <2>0, <5>2, <5>3, <5>6 DEF AwayFrom
        <5> QED
          BY <1>1, <1>3, <1>7, <1>8, <4>1, <4>3, <5>7 DEF AwayFrom
      <4> QED
        BY <4>2, <4>3
    <3>3. CASE q.kind = "jump" /\ q.after /\ \A k \in q.page : k < m
      BY <1>1, <1>7, <1>8, <3>3 DEF AwayFrom
    <3> QED
      BY <3>1, <3>2, <3>3 DEF Complete
  <2>5. CASE m \notin cut /\ m \notin Created(q.pts)
    <3>1. m \notin shown /\ \A k \in q.page : k < m
      BY <1>8, <2>1, <2>5
    <3>2. CASE q.kind = "jump" /\ q.after
      BY <1>1, <1>7, <1>8, <3>1, <3>2 DEF AwayFrom
    <3>3. CASE ~ (q.kind = "jump" /\ q.after)
      <4>1. ~ (fresh[m] > q.pts)
        BY <1>1, <1>7, <2>1, <3>1, <3>3
      <4>2. m \notin Created(cursor) /\ m \notin Created(fresh'[m])
        BY <2>1, <2>5, <4>1
      <4>3. ASSUME NEW h \in Held', Known(h)', m < h PROVE FALSE
        <5>1. h \in shown /\ h \in Msgs /\ h \in Nat
          BY <1>6, <1>8, Bounds
        <5>2. h \notin q.page
          BY <2>0, <3>1, <4>3, <5>1
        <5>3. h \notin older
          <6>1. ASSUME h \in older PROVE FALSE
            <7>1. PICK low \in in : low = MinOf(in)
              BY <1>1, <1>2, <6>1
            <7>2. h < low /\ low < m /\ low \in Nat
              BY <1>1, <3>1, <6>1, <7>1, Bounds
            <7> QED
              BY <2>0, <4>3, <5>1, <7>2
          <6> QED
            BY <6>1
        <5>4. fresh[h] <= cursor
          BY <1>1, <1>7, <2>2, <5>1, <5>2, <5>3
        <5>5. Known(h)
          BY <4>3, <5>2, KnownStays
        <5>6. h \in Created(fresh[h]) /\ fresh[h] \in Int
          BY <1>0, <5>1, <5>5, ViewTyped DEF Reach, Known
        <5>7. h \in Created(cursor)
          BY <1>0, <5>4, <5>6, CreatedUpTo
        <5>8. m \in Created(cursor)
          BY <1>0, <2>0, <4>3, <5>1, <5>7, CreatedDown
        <5> QED
          BY <4>2, <5>8
      <4>4. m \notin Created(win'.base)
        BY <1>3, <1>8, <2>2, <2>5
      <4>5. m \notin Created(cursor)' /\ m \notin Created(win.base)' /\ m \notin Created(fresh[m])'
        BY <4>2, <4>4 DEF Created
      <4>6. ~ Due(m)'
        BY <4>3, <4>5 DEF Due
      <4> QED
        BY <4>6
    <3> QED
      BY <3>2, <3>3
  <2> QED
    BY <2>3, <2>4, <2>5
<1> QED
  BY <1>9, <1>11

LEMMA StillThere ==
    ASSUME TypeOK, Reach, NEW m \in Alive(Now)
    PROVE  /\ m \in Msgs /\ m \in Nat /\ m \notin gone
           /\ \A n \in Int : m \in Created(n) /\ n <= Now => m \in Alive(n)
<1>1. Now \in Nat
  BY HistTyped
<1>2. m \in Msgs /\ m \notin GoneBy(Now) /\ m \notin gone
  BY <1>1, CreatedIn DEF Alive, Reach
<1>3. \A n \in Int : n <= Now => GoneBy(n) \subseteq GoneBy(Now)
  BY <1>1, CreatedUpTo
<1> QED
  BY <1>2, <1>3, Bounds DEF Alive

\* The window after a piece from above it.
LEMMA OlderEdges ==
    ASSUME WindowInv, HolesInv, NEW q \in Answers, Sound(q), Complete(q), Ahead(q), PageTaken(q),
           q.kind = "older", Fits(q), TakeOlder(q), hist' = hist, cursor' = cursor,
           NEW others, missed' = (missed \ Renewed(q)) \cup GivenUp(q, others)
    PROVE  Edges' /\ win'.base <= Now
<1> DEFINE in == Incoming(q)
           l == [m \in Held \cup Incoming(q) |-> IF m \in Held THEN list[m] ELSE IncomingView(q, m)]
           w == [win EXCEPT !.before = q.before]
           shown == Held \cup Incoming(q)
<1>0. /\ TypeOK /\ OrderInv /\ Reach /\ Held \subseteq Msgs /\ Now \in Nat /\ cursor \in Nat /\ cursor <= Now
      /\ q.pts \in Nat /\ q.pts <= Now /\ q.page \subseteq Msgs /\ q.before \in BOOLEAN
  BY PageNumbers
<1>1. /\ in \subseteq q.page /\ in \subseteq Msgs /\ DOMAIN l = shown /\ shown = Held \cup in
  BY <1>0 DEF Incoming
<1>2. win \in Windows /\ win # NoWindow /\ Held # {} /\ q.key = MinOf(Held)
  BY <1>0, WindowShape DEF Fits
<1>3. q.key \in Held /\ (\A h \in Held : q.key <= h) /\ (\A k \in q.page : k < q.key)
  BY <1>0, <1>2, Ends DEF Sound
<1>4. w \in Windows /\ w.base = win.base /\ w.before = q.before /\ w.after = win.after
  BY <1>0, <1>2 DEF Windows
<1>5. Show(w, l, "bottom", FreshAfter(q)) /\ torn' = torn
  BY DEF TakeOlder
<1> HIDE DEF in, w, l, shown
<1>6. PICK cut \in SUBSET shown :
        /\ Held' = shown \ cut
        /\ win'.base = win.base /\ win'.before = q.before
        /\ win'.after = (win.after \/ cut # {})
        /\ \A c \in cut, h \in Held' : h < c
  <2>1. PICK cut \in SUBSET DOMAIN l :
          /\ Held' = DOMAIN l \ cut
          /\ win'.base = w.base
          /\ win'.before = (w.before \/ (cut # {} /\ "bottom" = "top"))
          /\ win'.after = (w.after \/ (cut # {} /\ "bottom" = "bottom"))
          /\ \A c \in cut, h \in Held' : IF "bottom" = "top" THEN c < h ELSE h < c
    BY <1>0, <1>1, <1>4, <1>5, ShowCuts
  <2>2. win'.before = w.before /\ win'.after = (w.after \/ cut # {})
    BY <1>0, <1>4, <2>1
  <2> QED
    BY <1>1, <1>4, <2>1, <2>2
<1>7. /\ Now' = Now /\ Alive(Now)' = Alive(Now) /\ \A n : Created(n)' = Created(n)
  BY SameHistory
<1>8. Edges'
  <2> SUFFICES ASSUME ~ torn, NEW m \in Alive(Now), m \notin Held', m \notin missed', Due(m)'
               PROVE  AwayFrom(Held, m)'
    BY <1>5, <1>7 DEF Edges
  <2>0. /\ m \in Msgs /\ m \notin gone /\ m \in Nat
        /\ m \in Created(q.pts) => m \in Alive(q.pts)
    BY <1>0, StillThere
  <2>1. /\ m \notin missed
        /\ m \in q.page => m \in in
        /\ m \in Created(fresh'[m]) /\ m \notin q.page => m \in Created(fresh[m])
    BY <2>0, LeftOut DEF in
  <2>2. q.key \in Nat /\ \A h \in Msgs : h \in Nat
    BY <1>0, <1>3, Bounds
  <2>3. CASE m \in cut
    <3>1. win'.after /\ \A h \in Held' : h < m
      BY <1>6, <2>3
    <3> QED
      BY <3>1 DEF AwayFrom
  <2>4. CASE m \notin cut /\ m < q.key
    <3>1. m \notin q.page
      BY <1>1, <1>6, <2>1, <2>4
    <3>2. m \in Alive(q.pts)
      <4>1. q.key \in Created(q.pts)
        BY DEF Complete
      <4> QED
        BY <1>0, <2>0, <2>2, <2>4, <4>1, CreatedDown
    <3>3. q.before /\ \A k \in q.page : m < k
      BY <2>4, <3>1, <3>2 DEF Complete
    <3>4. ASSUME NEW h \in Held PROVE m < h
      <4>1. h \in Nat /\ q.key <= h
        BY <1>0, <1>3, <2>2
      <4> QED
        BY <2>0, <2>2, <2>4, <4>1
    <3> QED
      BY <1>1, <1>6, <3>3, <3>4 DEF AwayFrom
  <2>5. CASE m \notin cut /\ ~ (m < q.key)
    <3>1. m \notin Held /\ q.key < m
      BY <1>1, <1>3, <1>6, <2>0, <2>2, <2>5
    <3>2. ASSUME NEW k \in q.page PROVE k < m
      <4>1. k \in Nat /\ k < q.key
        BY <1>0, <1>3, <2>2
      <4> QED
        BY <2>0, <2>2, <3>1, <4>1
    <3>3. m \notin q.page
      BY <2>0, <3>2
    <3>4. Due(m)
      <4>1. m \in Created(fresh'[m]) => m \in Created(fresh[m])
        BY <2>1, <3>3
      <4>2. ASSUME NEW h \in Held', Known(h)', m < h PROVE h \in Held /\ Known(h)
        <5>1. h \in Msgs /\ h \in Nat
          BY <1>0, <1>1, <1>6, <2>2
        <5>2. h \notin q.page
          BY <2>0, <3>2, <4>2, <5>1
        <5> QED
          BY <4>2, <5>2, KnownStays
      <4>3. /\ Created(cursor)' = Created(cursor) /\ Created(win.base)' = Created(win.base)
            /\ Created(fresh[m])' = Created(fresh'[m])
        BY <1>6 DEF Created
      <4> QED
        BY <4>1, <4>2, <4>3 DEF Due
    <3>5. AwayFrom(Held, m)
      BY <1>2, <2>1, <3>1, <3>4 DEF HolesInv, Edges
    <3>6. win.after /\ \A h \in Held : h < m
      BY <1>3, <2>0, <2>2, <3>1, <3>5 DEF AwayFrom
    <3> QED
      BY <1>1, <1>6, <3>2, <3>6 DEF AwayFrom
  <2> QED
    BY <2>3, <2>4, <2>5
<1> QED
  BY <1>0, <1>6, <1>8 DEF Reach

\* The window after a piece from below it.
LEMMA NewerEdges ==
    ASSUME WindowInv, HolesInv, NEW q \in Answers, Sound(q), Complete(q), Ahead(q), PageTaken(q),
           q.kind = "newer", Fits(q), TakeNewer(q), hist' = hist, cursor' = cursor,
           NEW others, missed' = (missed \ Renewed(q)) \cup GivenUp(q, others)
    PROVE  Edges' /\ win'.base <= Now
<1> DEFINE in == Incoming(q)
           shown == Held \cup Incoming(q)
           l == Views(q, shown)
           base == IF q.after \/ win.base > q.pts THEN win.base ELSE q.pts
           w == [win EXCEPT !.after = q.after, !.base = IF q.after \/ @ > q.pts THEN @ ELSE q.pts]
<1>0. /\ TypeOK /\ OrderInv /\ Reach /\ Held \subseteq Msgs /\ Now \in Nat /\ cursor \in Nat /\ cursor <= Now
      /\ q.pts \in 0 .. MaxPts /\ q.pts \in Nat /\ q.pts <= Now /\ q.page \subseteq Msgs /\ q.after \in BOOLEAN
      /\ torn \in BOOLEAN
  BY PageNumbers
<1>1. /\ in \subseteq q.page /\ in \subseteq Msgs /\ DOMAIN l = shown /\ shown = Held \cup in
  BY <1>0 DEF Incoming, Views
<1>2. win \in Windows /\ win # NoWindow /\ Held # {} /\ q.key = MaxOf(Held) /\ win.base \in 0 .. MaxPts
  BY <1>0, WindowShape DEF Fits
<1>3. q.key \in Held /\ (\A h \in Held : h <= q.key) /\ (\A k \in q.page : q.key < k)
  BY <1>0, <1>2, Ends DEF Complete
<1>4. w \in Windows /\ w.base = base /\ w.before = win.before /\ w.after = q.after
  <2>1. base \in 0 .. MaxPts
    BY <1>0, <1>2
  <2>2. w = [win EXCEPT !.after = q.after, !.base = base]
    OBVIOUS
  <2> HIDE DEF w, base
  <2> QED
    BY <1>0, <1>2, <2>1, <2>2 DEF Windows
<1>5. /\ Show(w, l, "top", FreshAfter(q))
      /\ torn' = (torn \/ (~ q.after /\ win.base > q.pts) \/ ~ Known(q.key))
  BY <1>2 DEF TakeNewer
<1>6. base = IF q.after \/ win.base > q.pts THEN win.base ELSE q.pts
  OBVIOUS
<1> HIDE DEF in, w, l, shown, base
<1>7. PICK cut \in SUBSET shown :
        /\ Held' = shown \ cut
        /\ win'.base = base /\ win'.after = q.after
        /\ win'.before = (win.before \/ cut # {})
        /\ \A c \in cut, h \in Held' : c < h
  <2>1. PICK cut \in SUBSET DOMAIN l :
          /\ Held' = DOMAIN l \ cut
          /\ win'.base = w.base
          /\ win'.before = (w.before \/ (cut # {} /\ "top" = "top"))
          /\ win'.after = (w.after \/ (cut # {} /\ "top" = "bottom"))
          /\ \A c \in cut, h \in Held' : IF "top" = "top" THEN c < h ELSE h < c
    BY <1>0, <1>1, <1>4, <1>5, ShowCuts
  <2>2. win'.before = (w.before \/ cut # {}) /\ win'.after = w.after
    BY <1>0, <1>4, <2>1
  <2> QED
    BY <1>1, <1>4, <2>1, <2>2
<1>8. /\ Now' = Now /\ Alive(Now)' = Alive(Now) /\ \A n : Created(n)' = Created(n)
  BY SameHistory
<1>9. Edges'
  <2> SUFFICES ASSUME ~ torn', NEW m \in Alive(Now), m \notin Held', m \notin missed', Due(m)'
               PROVE  AwayFrom(Held, m)'
    BY <1>8 DEF Edges
  <2>0. /\ m \in Msgs /\ m \notin gone /\ m \in Nat
        /\ m \in Created(q.pts) => m \in Alive(q.pts)
    BY <1>0, StillThere
  <2>1. /\ m \notin missed
        /\ m \in q.page => m \in in
        /\ fresh[m] > q.pts => m \in Held
        /\ m \in Created(cursor) /\ m \notin Created(q.pts) => fresh[m] > q.pts
        /\ m \in Created(fresh'[m]) => m \in Created(q.pts) \/ fresh[m] > q.pts
        /\ m \notin Created(q.pts) => \A k \in q.page : k < m
    BY <2>0, LeftOut DEF in
  <2>2. q.key \in Nat /\ \A h \in Msgs : h \in Nat
    BY <1>0, <1>3, Bounds
  <2>3. ~ torn /\ Known(q.key) /\ (~ q.after => ~ (win.base > q.pts))
    BY <1>5
  <2>4. CASE m \in cut
    <3>1. win'.before /\ \A h \in Held' : m < h
      BY <1>7, <2>4
    <3> QED
      BY <3>1 DEF AwayFrom
  <2>5. CASE m \notin cut /\ m < q.key
    <3>1. m \notin Held
      BY <1>1, <1>7, <2>5
    <3>2. AwayFrom(Held, m)
      BY <1>2, <1>3, <2>1, <2>3, <2>5, <3>1 DEF HolesInv, Edges, Due
    <3>3. win.before /\ \A h \in Held : m < h
      BY <1>3, <2>0, <2>2, <2>5, <3>2 DEF AwayFrom
    <3>4. ASSUME NEW k \in q.page PROVE m < k
      <4>1. k \in Nat /\ q.key < k
        BY <1>0, <1>3, <2>2
      <4> QED
        BY <2>0, <2>2, <2>5, <4>1
    <3> QED
      BY <1>1, <1>7, <3>3, <3>4 DEF AwayFrom
  <2>6. CASE m \notin cut /\ ~ (m < q.key)
    <3>1. m \notin Held /\ q.key < m /\ m \notin q.page
      BY <1>1, <1>3, <1>7, <2>0, <2>1, <2>2, <2>6
    <3>2. ASSUME NEW h \in Held PROVE h < m
      <4>1. h \in Nat /\ h <= q.key
        BY <1>0, <1>3, <2>2
      <4> QED
        BY <2>0, <2>2, <3>1, <4>1
    <3>3. CASE m \in Created(q.pts)
      <4>1. q.after /\ \A k \in q.page : k < m
        BY <2>0, <3>1, <3>3 DEF Complete
      <4> QED
        BY <1>1, <1>7, <3>2, <4>1 DEF AwayFrom
    <3>4. CASE m \notin Created(q.pts)
      <4>1. \A k \in q.page : k < m
        BY <2>1, <3>4
      <4>2. CASE q.after
        BY <1>1, <1>7, <3>2, <4>1, <4>2 DEF AwayFrom
      <4>3. CASE ~ q.after
        <5>1. m \notin Created(cursor) /\ m \notin Created(fresh'[m]) /\ m \notin Created(win'.base)
          BY <1>6, <1>7, <2>1, <2>3, <3>1, <3>4, <4>3
        <5>2. m \notin Created(cursor)' /\ m \notin Created(fresh[m])' /\ m \notin Created(win.base)'
          BY <5>1 DEF Created
        <5>3. \A h \in Held' : h < m /\ h \in Nat
          BY <1>0, <1>1, <1>7, <2>2, <3>2, <4>1
        <5>4. ~ Due(m)'
          BY <2>0, <5>2, <5>3 DEF Due
        <5> QED
          BY <5>4
      <4> QED
        BY <4>2, <4>3
    <3> QED
      BY <3>3, <3>4
  <2> QED
    BY <2>4, <2>5, <2>6
<1> QED
  BY <1>0, <1>6, <1>7, <1>9 DEF Reach

\* A message that comes in with a page is shown, or cut with its number.
LEMMA ShownOrCut ==
    ASSUME NEW w, NEW l, NEW side, NEW f, Show(w, l, side, f)
    PROVE  \A m \in Msgs : m \in DOMAIN l => m \in Held' \/ fresh'[m] = Never
  BY DEF Show, Held, Without

LEMMA IncomingShown ==
    ASSUME WindowInv, NEW q \in Answers,
           CASE q.kind \in {"latest", "jump"} -> TakeTail(q)
             [] q.kind = "older" -> TakeOlder(q)
             [] q.kind = "newer" -> TakeNewer(q)
    PROVE  \A m \in Incoming(q) : m \in Held' \/ fresh'[m] = Never
<1>0. Incoming(q) \subseteq Msgs /\ q.kind \in {"latest", "jump", "older", "newer"}
  BY AnswerShape DEF Incoming
<1>1. CASE q.kind \in {"latest", "jump"}
  <2> DEFINE newer == IF q.kind = "jump" /\ q.after THEN {} ELSE NewerThan(q)
             older == IF q.kind = "jump" \/ win = NoWindow THEN {} ELSE Joined(q)
             w == [base |-> IF q.kind = "latest" /\ win.base > q.pts THEN win.base ELSE q.pts,
                   before |-> IF older # {} THEN win.before ELSE q.before,
                   after |-> q.after, stale |-> FALSE]
             l == Views(q, older \cup Incoming(q) \cup newer)
  <2>1. TakeTail(q)
    BY <1>1
  <2>2. IF q.kind = "latest" THEN Show(w, l, "top", FreshAfter(q))
        ELSE list' = l /\ win' = w /\ fresh' = FreshAfter(q)
    BY <2>1 DEF TakeTail
  <2>3. Incoming(q) \subseteq DOMAIN l
    BY DEF Views
  <2> HIDE DEF l, w
  <2>4. CASE q.kind = "latest"
    <3>1. Show(w, l, "top", FreshAfter(q))
      BY <2>2, <2>4
    <3> QED
      BY <1>0, <2>3, <3>1, ShownOrCut
  <2>5. CASE q.kind # "latest"
    BY <2>2, <2>3, <2>5 DEF Held
  <2> QED
    BY <2>4, <2>5
<1>2. CASE q.kind = "older"
  <2> DEFINE l == [m \in Held \cup Incoming(q) |-> IF m \in Held THEN list[m] ELSE IncomingView(q, m)]
  <2>1. TakeOlder(q)
    BY <1>2
  <2>2. Show([win EXCEPT !.before = q.before], l, "bottom", FreshAfter(q)) /\ Incoming(q) \subseteq DOMAIN l
    BY <2>1 DEF TakeOlder
  <2> HIDE DEF l
  <2> QED
    BY <1>0, <2>2, ShownOrCut
<1>3. CASE q.kind = "newer"
  <2> DEFINE l == Views(q, Held \cup Incoming(q))
  <2>1. TakeNewer(q)
    BY <1>3
  <2>2. /\ Show([win EXCEPT !.after = q.after, !.base = IF q.after \/ @ > q.pts THEN @ ELSE q.pts],
                l, "top", FreshAfter(q))
        /\ Incoming(q) \subseteq DOMAIN l
    BY <2>1 DEF TakeNewer, Views
  <2> HIDE DEF l
  <2> QED
    BY <1>0, <2>2, ShownOrCut
<1> QED
  BY <1>0, <1>1, <1>2, <1>3

LEMMA TakenPageHoles ==
    ASSUME WindowInv, HolesInv, NEW s \in Slots, NEW q \in Answers, Sound(q), Complete(q), Ahead(q),
           PageTaken(q), \A m \in Incoming(q) : m \in Held' \/ fresh'[m] = Never,
           missed' = (missed \ Renewed(q)) \cup GivenUp(q, Slots \ {s}),
           req' = [req EXCEPT ![s] = Idle], UNCHANGED <<hist, cursor, gone, sends>>,
           Edges', win'.base <= Now
    PROVE  HolesInv'
<1>0. /\ TypeOK /\ OrderInv /\ Reach /\ Held \subseteq Msgs /\ Now \in Nat
      /\ q.pts \in Nat /\ q.pts <= Now /\ q.page \subseteq Msgs
      /\ q.page \subseteq Created(q.pts) /\ Created(q.pts) \subseteq Created(Now)
  BY PageNumbers, CreatedUpTo DEF Complete
<1>1. /\ Now' = Now /\ Created(Now)' = Created(Now) /\ GoneBy(Now)' = GoneBy(Now) /\ OrderInv'
      /\ \A a : (Complete(a)' <=> Complete(a)) /\ (Keyed(a)' <=> Keyed(a))
  BY <1>0, SameHistory
<1>2. \A m \in Msgs : \/ fresh'[m] = Never
                      \/ fresh'[m] = q.pts /\ m \in Incoming(q) /\ m \in q.page
                      \/ fresh'[m] = fresh[m]
  BY DEF PageTaken, FreshAfter, Incoming
<1>3. /\ Idle \notin Answers /\ Idle \notin Questions
      /\ \A o \in Slots : req'[o] = IF o = s THEN Idle ELSE req[o]
  <2>1. req \in [Slots -> {Idle} \cup Questions \cup Answers]
    BY <1>0 DEF TypeOK
  <2> QED
    BY <2>1 DEF Questions, Answers, Idle
<1>4. Reach'
  <2>1. ASSUME NEW m \in Msgs PROVE fresh'[m] <= Now /\ (fresh'[m] > 0 => m \in Created(fresh'[m]))
    <3>1. CASE fresh'[m] = Never
      BY <1>0, <3>1 DEF Never
    <3>2. CASE fresh'[m] = q.pts /\ m \in q.page
      BY <1>0, <3>2
    <3>3. CASE fresh'[m] = fresh[m]
      BY <1>0, <3>3 DEF Reach
    <3> QED
      BY <1>2, <3>1, <3>2, <3>3
  <2>2. \A m \in Msgs : Created(fresh[m])' = Created(fresh'[m])
    BY DEF Created
  <2>3. Held' \subseteq Created(Now)'
    BY <1>0, <1>1 DEF Reach, PageTaken, Incoming
  <2>4. gone' \subseteq GoneBy(Now)' /\ \A x \in sends' : x.msg \in Created(Now)'
    BY <1>0, <1>1 DEF Reach
  <2> QED
    BY <1>1, <2>1, <2>2, <2>3, <2>4 DEF Reach
<1>5. QuestionsKeyed'
  BY <1>1, <1>3 DEF QuestionsKeyed, HolesInv
<1>6. AnswersComplete'
  <2> SUFFICES ASSUME NEW o \in Slots, NEW a \in Answers, o # s, req[o] = a
               PROVE  Complete(a)' /\ Ahead(a)'
    BY <1>3 DEF AnswersComplete
  <2>1. Complete(a)' /\ Ahead(a) /\ a.pts \in Nat /\ req[o].stage = "answered"
    BY <1>1, AnswerShape, Bounds DEF HolesInv, AnswersComplete, Answers
  <2>2. ASSUME NEW m \in Msgs, fresh'[m] > a.pts PROVE m \in Held' \cup missed' \cup gone'
    <3>1. fresh'[m] # Never
      BY <2>1, <2>2 DEF Never
    <3>2. CASE m \in Incoming(q)
      BY <3>1, <3>2
    <3>3. CASE fresh'[m] = fresh[m]
      <4>1. m \in Held \cup missed \cup gone
        BY <2>1, <2>2, <3>3 DEF Ahead
      <4>2. m \in missed /\ m \notin missed' => m \in Held'
        BY DEF Renewed
      <4>3. ASSUME m \in Held, m \notin Held' PROVE m \in GivenUp(q, Slots \ {s})
        <5>1. o \in Slots \ {s} /\ req[o].stage = "answered" /\ req[o].pts < fresh[m]
          BY <2>1, <2>2, <3>3
        <5> QED
          BY <4>3, <5>1 DEF GivenUp
      <4> QED
        BY <4>1, <4>2, <4>3
    <3> QED
      BY <1>2, <3>1, <3>2, <3>3
  <2> QED
    BY <2>1, <2>2 DEF Ahead
<1> QED
  BY <1>1, <1>4, <1>5, <1>6 DEF HolesInv

LEMMA PageHoles ==
    ASSUME WindowInv, WindowInv', HolesInv, NEW s \in Slots, TakePage(s)
    PROVE  HolesInv'
<1> DEFINE q == req[s]
<1>1. q \in Answers /\ Sound(q) /\ Complete(q) /\ Ahead(q)
  <2>1. q \in Answers
    BY Stages DEF TakePage, WindowInv
  <2> QED
    BY <2>1 DEF WindowInv, AnswersInv, HolesInv, AnswersComplete
<1>2. req' = [req EXCEPT ![s] = Idle] /\ UNCHANGED <<hist, cursor, gone, sends>>
  BY DEF TakePage
<1>3. CASE Fits(q)
  <2>1. /\ CASE q.kind \in {"latest", "jump"} -> TakeTail(q)
             [] q.kind = "older" -> TakeOlder(q)
             [] q.kind = "newer" -> TakeNewer(q)
        /\ missed' = (missed \ Renewed(q)) \cup GivenUp(q, Slots \ {s})
    BY <1>3 DEF TakePage
  <2> HIDE DEF q
  <2>2. \A m \in Incoming(q) : m \in Held' \/ fresh'[m] = Never
    BY <1>1, <2>1, IncomingShown
  <2>3. PageTaken(q) /\ Edges' /\ win'.base <= Now
    <3>1. CASE q.kind \in {"latest", "jump"}
      <4>1. TakeTail(q)
        BY <2>1, <3>1
      <4>2. PageTaken(q)
        BY <1>1, <4>1, TailTakesPage
      <4> QED
        BY <1>1, <1>2, <2>1, <3>1, <4>1, <4>2, TailEdges
    <3>2. CASE q.kind = "older"
      <4>1. TakeOlder(q)
        BY <2>1, <3>2
      <4>2. PageTaken(q)
        BY <1>1, <1>3, <3>2, <4>1, OlderTakesPage
      <4> QED
        BY <1>1, <1>2, <1>3, <2>1, <3>2, <4>1, <4>2, OlderEdges
    <3>3. CASE q.kind = "newer"
      <4>1. TakeNewer(q)
        BY <2>1, <3>3
      <4>2. PageTaken(q)
        BY <1>1, <1>3, <3>3, <4>1, NewerTakesPage
      <4> QED
        BY <1>1, <1>2, <1>3, <2>1, <3>3, <4>1, <4>2, NewerEdges
    <3> QED
      BY <1>1, <3>1, <3>2, <3>3, AnswerShape
  <2> QED
    BY <1>1, <1>2, <2>1, <2>2, <2>3, TakenPageHoles
<1>4. CASE ~ Fits(q)
  <2>1. UNCHANGED <<hist, cursor, win, list, fresh, gone, sends, missed, torn>>
    BY <1>2, <1>4 DEF TakePage
  <2>2. req \in [Slots -> {Idle} \cup Questions \cup Answers] /\ Idle \notin Answers /\ Idle \notin Questions
    BY DEF WindowInv, TypeOK, Questions, Answers, Idle
  <2> QED
    BY <1>2, <2>1, <2>2, HolesOnlyAsked
<1> QED
  BY <1>3, <1>4

----------------------------------------------------------------------------
(* The theorems.                                                           *)

LEMMA WindowInvInit == Init => WindowInv
<1> SUFFICES ASSUME Init PROVE WindowInv
  OBVIOUS
<1>1. /\ hist = <<>> /\ cursor = 0 /\ win = NoWindow /\ list = [m \in {} |-> 0]
      /\ fresh = [m \in Msgs |-> Never] /\ gone = {} /\ req = [s \in Slots |-> Idle]
      /\ sends = {} /\ missed = {} /\ torn = FALSE
  BY DEF Init
<1>2. Now = 0 /\ Held = {}
  BY <1>1 DEF Now, Held
<1>3. Idle \notin Answers /\ Idle \notin Questions
  BY DEF Idle, Answers, Questions
<1>4. TypeOK
  <2>1. fresh \in [Msgs -> Never .. MaxPts] /\ cursor \in 0 .. Now /\ Now <= MaxPts
    BY <1>1, <1>2, Bounds DEF Never
  <2>2. list \in [Held -> 0 .. MaxPts] /\ hist \in Seq([msg : Msgs, kind : {"new", "edit", "gone"}])
    BY <1>1, <1>2
  <2>3. req \in [Slots -> {Idle} \cup Questions \cup Answers]
    BY <1>1
  <2> QED
    BY <1>1, <1>2, <2>1, <2>2, <2>3 DEF TypeOK
<1>5. HistInv
  <2>1. 1 .. Now = {}
    BY <1>2
  <2>2. Created(Now) = {} /\ Cardinality(Created(Now)) = 0
    BY <2>1, FS_EmptySet DEF Created
  <2> QED
    BY <2>1, <2>2 DEF HistInv
<1>6. ViewsInv /\ GoneInv /\ SendsInv
  BY <1>1, <1>2 DEF ViewsInv, GoneInv, SendsInv
<1>7. AnswersInv /\ QuestionsInv
  BY <1>1, <1>3 DEF AnswersInv, QuestionsInv
<1> QED
  BY <1>4, <1>5, <1>6, <1>7 DEF WindowInv

LEMMA WindowInvStep == WindowInv /\ [Next]_vars => WindowInv'
<1> SUFFICES ASSUME WindowInv, [Next]_vars PROVE WindowInv'
  OBVIOUS
<1>1. CASE Happen
  BY <1>1, HappenKeeps
<1>2. CASE \E to \in (cursor + 1) .. Now : \E t \in to .. Now : Advance(to, t)
  BY <1>2, AdvanceKeeps
<1>3. CASE Reset
  BY <1>3, ResetKeeps
<1>4. CASE TokenChanged
  BY <1>4, TokenKeeps
<1>5. CASE \E x \in sends : TakeSent(x)
  BY <1>5, SentKeeps
<1>6. CASE \E m \in Msgs : TakeRemoved(m)
  BY <1>6, RemovedKeeps
<1>7. CASE \E at \in 1 .. Now : TakeEdited(at)
  BY <1>7, EditedKeeps
<1>8. CASE \E s \in Slots :
             \/ OpenLatest(s) \/ OpenJump(s) \/ LoadOlder(s) \/ LoadNewer(s)
             \/ Answer(s) \/ Fail(s) \/ TakePage(s)
  <2> PICK s \in Slots :
             \/ OpenLatest(s) \/ OpenJump(s) \/ LoadOlder(s) \/ LoadNewer(s)
             \/ Answer(s) \/ Fail(s) \/ TakePage(s)
    BY <1>8
  <2>1. CASE OpenLatest(s) \/ OpenJump(s) \/ LoadOlder(s) \/ LoadNewer(s)
    BY <2>1, QuestionsKeep
  <2>2. CASE Answer(s)
    BY <2>2, AnswerKeeps
  <2>3. CASE Fail(s)
    BY <2>3, FailKeeps
  <2>4. CASE TakePage(s)
    BY <2>4, PageKeeps
  <2> QED
    BY <2>1, <2>2, <2>3, <2>4
<1>9. CASE UNCHANGED vars
  <2>1. UNCHANGED <<hist, cursor, list, fresh, gone, sends, missed, torn>> /\ win' = win /\ req' = req
    BY <1>9 DEF vars
  <2>2. req' \in [Slots -> {Idle} \cup Questions \cup Answers]
    BY <2>1 DEF WindowInv, TypeOK
  <2> QED
    BY <2>1, <2>2, OnlyAsked
<1> QED
  BY <1>1, <1>2, <1>3, <1>4, <1>5, <1>6, <1>7, <1>8, <1>9 DEF Next

\* The invariant that carries the rest: each view, each answer on its way and
\* each answer to an own sending is of the past and of a message that was there
\* (applyPage, applyMessage, applySent); the freshness number never runs ahead
\* of a view; whatever an answer on its way shows outdated, the device knows
\* better of (msgPts, gone) or has given up.
THEOREM WindowInvariant == Spec => []WindowInv
<1>1. Init => WindowInv
  BY WindowInvInit
<1>2. WindowInv /\ [Next]_vars => WindowInv'
  BY WindowInvStep
<1> QED
  BY <1>1, <1>2, PTL DEF Spec

\* A feed shows every message as the device's journal number has it, neither
\* outdated nor deleted, in whatever order pages, events and answers to own
\* edits, deletions and sendings land and however many requests are in flight
\* (applyPage, applyMessage, applyGone, applyEdited, applySent): but for the
\* messages of which trimWindow or a new window gave up a view, or its number,
\* while an older snapshot was on its way.
THEOREM FeedShowsWhatIs == Spec => []FeedIsRight
<1>1. WindowInv => FeedIsRight
  <2> SUFFICES ASSUME WindowInv, NEW m \in Held \ missed
               PROVE  Right(m) /\ m \notin GoneBy(cursor)
    BY DEF FeedIsRight
  <2>1. m \in Msgs /\ TypeOK /\ cursor \in Nat
    BY HistTyped DEF WindowInv, TypeOK
  <2>2. PICK v \in 0 .. MaxPts : list[m] = v
    BY <2>1, ViewTyped
  <2>3. v \in Nat /\ m \notin GoneBy(v) /\ m \notin Touched(v, cursor)
    BY <2>2, Bounds DEF WindowInv, ViewsInv, PastView
  <2>4. ASSUME m \in GoneBy(cursor) PROVE FALSE
    <3>1. PICK p \in 1 .. cursor : hist[p].kind = "gone" /\ hist[p].msg = m
      BY <2>4 DEF GoneBy
    <3>2. CASE p <= v
      <4>1. p \in 1 .. v
        BY <2>3, <3>2
      <4> QED
        BY <2>3, <3>1, <4>1 DEF GoneBy
    <3>3. CASE ~ (p <= v)
      <4>1. p \in (v + 1) .. cursor
        BY <2>1, <2>3, <3>3
      <4> QED
        BY <2>3, <3>1, <4>1 DEF Touched
    <3> QED
      BY <3>2, <3>3
  <2> QED
    BY <2>2, <2>3, <2>4 DEF Right
<1> QED
  BY <1>1, WindowInvariant, PTL

\* What the device was told is gone, by an event, a catch-up or the answer to a
\* deletion of its own, stays gone: no page and no late answer brings it back
\* (`gone` is read by applyPage, applyMessage and applySent, and is kept by
\* resetAll).
THEOREM DeletedStaysDeleted == Spec => GoneStaysGone
<1>1. ASSUME WindowInv, WindowInv', [Next]_vars
      PROVE  gone \subseteq gone' /\ gone' \cap Held' = {}
  <2>1. gone \subseteq gone'
    <3>1. CASE Happen \/ Reset \/ TokenChanged \/ UNCHANGED vars
      BY <3>1 DEF Happen, Reset, TokenChanged, vars
    <3>2. CASE \E to \in (cursor + 1) .. Now : \E t \in to .. Now : Advance(to, t)
      BY <3>2 DEF Advance
    <3>3. CASE \E x \in sends : TakeSent(x)
      BY <3>3 DEF TakeSent
    <3>4. CASE \E m \in Msgs : TakeRemoved(m)
      BY <3>4 DEF TakeRemoved
    <3>5. CASE \E at \in 1 .. Now : TakeEdited(at)
      BY <3>5 DEF TakeEdited
    <3>6. CASE \E s \in Slots :
                 \/ OpenLatest(s) \/ OpenJump(s) \/ LoadOlder(s) \/ LoadNewer(s)
                 \/ Answer(s) \/ Fail(s) \/ TakePage(s)
      BY <3>6 DEF OpenLatest, OpenJump, LoadOlder, LoadNewer, Ask, Answer, Fail, TakePage
    <3> QED
      BY <1>1, <3>1, <3>2, <3>3, <3>4, <3>5, <3>6 DEF Next
  <2>2. gone' \cap Held' = {}
    BY <1>1 DEF WindowInv, GoneInv
  <2> QED
    BY <2>1, <2>2
<1> QED
  BY <1>1, WindowInvariant, PTL DEF Spec, GoneStaysGone

\* An event that comes late puts no message into the feed which the last
\* snapshot of the tail had deleted already (applyMessage looks at basePts).
THEOREM LateEventBringsNoGhost == Spec => NoGhostFromLateEvent
<1>1. ASSUME WindowInv, [Next]_vars
      PROVE  cursor' # cursor => \A m \in Held' \ Held : m \notin GoneBy(win.base)
  <2> SUFFICES ASSUME cursor' # cursor, NEW m \in Held' \ Held
               PROVE  m \notin GoneBy(win.base)
    OBVIOUS
  <2>1. CASE Happen \/ TokenChanged \/ UNCHANGED vars
    BY <1>1, <2>1 DEF Happen, TokenChanged, vars
  <2>2. CASE Reset
    <3>1. Held' = {}
      BY <2>2 DEF Reset, Held
    <3> QED
      BY <1>1, <3>1
  <2>3. CASE \E to \in (cursor + 1) .. Now : \E t \in to .. Now : Advance(to, t)
    <3>0. PICK to \in (cursor + 1) .. Now : \E t \in to .. Now : Advance(to, t)
      BY <2>3
    <3>1. PICK t \in to .. Now : Advance(to, t)
      BY <3>0
    <3> DEFINE dead == Touched(cursor, to) \cap GoneBy(t)
               held == Held \ dead
    <3>2. /\ m \in Touched(cursor, to) \ dead /\ Stores(m, to, held) /\ m \notin held
      <4>1. Held' = held \cup {k \in Touched(cursor, to) \ (dead \cup gone) : Stores(k, to, held)}
        BY <3>1 DEF Advance, Held
      <4> QED
        BY <1>1, <4>1
    <3>3. m \notin GoneBy(t) /\ win # NoWindow /\ to > win.base
      BY <3>2 DEF Stores
    <3>4. /\ TypeOK /\ win.base \in Nat /\ to \in Int /\ t \in Int /\ to <= t
      BY <1>1, <3>3, WindowShape, Bounds, HistTyped DEF WindowInv
    <3>5. \A p \in 1 .. win.base : p \in 1 .. t
      BY <3>3, <3>4
    <3> QED
      BY <3>3, <3>5 DEF GoneBy
  <2>4. CASE (\E x \in sends : TakeSent(x)) \/ (\E k \in Msgs : TakeRemoved(k))
    BY <1>1, <2>4 DEF TakeSent, TakeRemoved
  <2>5. CASE \E at \in 1 .. Now : TakeEdited(at)
    BY <1>1, <2>5 DEF TakeEdited
  <2>6. CASE \E s \in Slots :
               \/ OpenLatest(s) \/ OpenJump(s) \/ LoadOlder(s) \/ LoadNewer(s)
               \/ Answer(s) \/ Fail(s) \/ TakePage(s)
    BY <1>1, <2>6 DEF OpenLatest, OpenJump, LoadOlder, LoadNewer, Ask, Answer, Fail, TakePage
  <2> QED
    BY <1>1, <2>1, <2>2, <2>3, <2>4, <2>5, <2>6 DEF Next
<1> QED
  BY <1>1, WindowInvariant, PTL DEF Spec, NoGhostFromLateEvent

LEMMA HolesInvInit == Init => HolesInv
<1> SUFFICES ASSUME Init PROVE HolesInv
  OBVIOUS
<1>1. /\ hist = <<>> /\ win = NoWindow /\ list = [m \in {} |-> 0]
      /\ fresh = [m \in Msgs |-> Never] /\ gone = {} /\ req = [s \in Slots |-> Idle] /\ sends = {}
  BY DEF Init
<1>2. Now = 0 /\ Held = {} /\ win.base = -1 /\ \A m \in Msgs : fresh[m] = -1
  BY <1>1 DEF Now, Held, NoWindow, Never
<1>3. Idle \notin Answers /\ Idle \notin Questions
  BY DEF Idle, Answers, Questions
<1>4. OrderInv /\ Reach
  BY <1>1, <1>2 DEF OrderInv, Reach
<1>5. QuestionsKeyed /\ AnswersComplete
  BY <1>1, <1>3 DEF QuestionsKeyed, AnswersComplete
<1>6. Edges
  BY <1>1 DEF Edges
<1> QED
  BY <1>4, <1>5, <1>6 DEF HolesInv

LEMMA HolesInvStep == WindowInv /\ WindowInv' /\ HolesInv /\ [Next]_vars => HolesInv'
<1> SUFFICES ASSUME WindowInv, WindowInv', HolesInv, [Next]_vars PROVE HolesInv'
  OBVIOUS
<1>1. CASE Happen
  BY <1>1, HappenHoles
<1>2. CASE \E to \in (cursor + 1) .. Now : \E t \in to .. Now : Advance(to, t)
  BY <1>2, AdvanceHoles
<1>3. CASE Reset
  BY <1>3, ResetHoles
<1>4. CASE TokenChanged
  BY <1>4, TokenHoles
<1>5. CASE \E x \in sends : TakeSent(x)
  BY <1>5, SentHoles
<1>6. CASE \E m \in Msgs : TakeRemoved(m)
  BY <1>6, RemovedHoles
<1>7. CASE \E at \in 1 .. Now : TakeEdited(at)
  BY <1>7, EditedHoles
<1>8. CASE \E s \in Slots :
             \/ OpenLatest(s) \/ OpenJump(s) \/ LoadOlder(s) \/ LoadNewer(s)
             \/ Answer(s) \/ Fail(s) \/ TakePage(s)
  <2> PICK s \in Slots :
             \/ OpenLatest(s) \/ OpenJump(s) \/ LoadOlder(s) \/ LoadNewer(s)
             \/ Answer(s) \/ Fail(s) \/ TakePage(s)
    BY <1>8
  <2>1. CASE OpenLatest(s) \/ OpenJump(s) \/ LoadOlder(s) \/ LoadNewer(s)
    BY <2>1, AskHoles
  <2>2. CASE Answer(s)
    BY <2>2, AnswerHoles
  <2>3. CASE Fail(s)
    BY <2>3, FailHoles
  <2>4. CASE TakePage(s)
    BY <2>4, PageHoles
  <2> QED
    BY <2>1, <2>2, <2>3, <2>4
<1>9. CASE UNCHANGED vars
  <2>1. /\ UNCHANGED <<hist, cursor, list, fresh, gone, missed, torn>> /\ win' = win /\ req' = req
        /\ sends' \subseteq sends
    BY <1>9 DEF vars
  <2> QED
    BY <2>1, HolesOnlyAsked
<1> QED
  BY <1>1, <1>2, <1>3, <1>4, <1>5, <1>6, <1>7, <1>8, <1>9 DEF Next

\* The invariant under it: every page on its way leaves out only what it says
\* lies beyond it; a message with a later number than such a page is held, given
\* up or gone; and a window that is not torn is whole as far as it is known.
THEOREM HolesInvariant == Spec => []HolesInv
<1>1. Init => HolesInv
  BY HolesInvInit
<1>2. WindowInv /\ WindowInv' /\ HolesInv /\ [Next]_vars => HolesInv'
  BY HolesInvStep
<1> QED
  BY <1>1, <1>2, WindowInvariant, PTL DEF Spec

\* What a feed shows side by side is side by side in the history, and what it
\* does not show lies beyond an edge where hasMoreBefore or hasMoreAfter says
\* there is more: however pages of the tail, of a jump, from above and from
\* below, events, resets, cuts of the window and answers to own sendings
\* interleave (applyPage, applyMessage, insideWindow, trimWindow, applySent);
\* but for the windows that `torn` names and the messages given up in `missed`.
THEOREM FeedIsWhole == Spec => []FeedHasNoHoles
<1>1. WindowInv /\ HolesInv => FeedHasNoHoles
  <2> SUFFICES ASSUME WindowInv, HolesInv, win # NoWindow, Held # {}, ~ torn,
                      NEW m \in Expected \ (Held \cup missed)
               PROVE  Outside(m)
    BY DEF FeedHasNoHoles
  <2>1. TypeOK /\ Held \subseteq Msgs
    BY DEF WindowInv, TypeOK
  <2>2. Due(m) /\ m \in Alive(Now)
    BY DEF Expected, Due
  <2>3. AwayFrom(Held, m)
    BY <2>2 DEF HolesInv, Edges
  <2>4. MinOf(Held) \in Held /\ MaxOf(Held) \in Held /\ m \in Nat /\ \A h \in Held : h \in Nat
    <3>1. MinOf(Held) \in Held /\ MaxOf(Held) \in Held
      BY <2>1, Ends
    <3>2. m \in Nat
      BY <2>1, <2>2, StillThere DEF HolesInv
    <3> QED
      BY <2>1, <3>1, <3>2, Bounds
  <2>5. PICK high \in Held : high = MaxOf(Held)
    BY <2>4
  <2>6. high < m => m > high
    BY <2>4
  <2> QED
    BY <2>3, <2>4, <2>5, <2>6 DEF AwayFrom, Outside
<1> QED
  BY <1>1, WindowInvariant, HolesInvariant, PTL

=============================================================================
