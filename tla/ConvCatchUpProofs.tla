------------------------- MODULE ConvCatchUpProofs -------------------------
(***************************************************************************)
(* A device that only ever uses answers of the server misses nothing, for  *)
(* any set of entities, any page size and any pruning.  TypeOK first, then *)
(* the inductive invariant CatchUpInv, then the two properties a reader    *)
(* cares about.                                                            *)
(***************************************************************************)
EXTENDS ConvCatchUp, TLAPS

\* Type correctness: an answer is one of four kinds, numbers are numbers and
\* the journal never holds a row above its last number.
THEOREM TypeCorrect == Spec => []TypeOK
<1>1. Init => TypeOK
  BY NumbersAssumption DEF Init, LogInit, TypeOK, Never, NoAnswer
<1>2. TypeOK /\ [Next]_vars => TypeOK'
  <2> SUFFICES ASSUME TypeOK, [Next]_vars PROVE TypeOK'
    OBVIOUS
  <2> USE DEF Never
  <2>1. CASE Write /\ UNCHANGED <<copy, cursor, answer, disk>>
    <3>1. pts' \in Nat /\ minPts' \in 0 .. pts'
      BY <2>1, NumbersAssumption DEF Write, TypeOK
    <3>2. DOMAIN changes' = DOMAIN changes \cup (pts + 1) .. pts'
      BY <2>1 DEF Write
    <3>3. DOMAIN changes' \subseteq 1 .. pts'
      BY <2>1, <3>1, <3>2 DEF Write, TypeOK
    <3> QED
      BY <2>1, <3>1, <3>2, <3>3 DEF Write, TypeOK
  <2>2. CASE Prune /\ UNCHANGED <<copy, cursor, answer, disk>>
    BY <2>2 DEF Prune, TypeOK
  <2>3. CASE AnswerSync
    <3>1. Named(cursor, pts) \subseteq Entities
      BY DEF Named, Rows, TypeOK
    <3>2. CASE answer' = ResetAnswer
      BY <2>3, <3>2 DEF AnswerSync, TypeOK
    <3>3. CASE \E end \in Rows(cursor, pts) \cup {pts} : answer' = SyncPage(cursor, end)
      <4>1. PICK end \in Rows(cursor, pts) \cup {pts} : answer' = SyncPage(cursor, end)
        BY <3>3
      <4>2. end \in Nat
        BY DEF Rows, TypeOK
      <4>3. Named(cursor, end) \subseteq Entities
        BY DEF Named, Rows, TypeOK
      <4>4. [e \in Named(cursor, end) |-> view[e]] \in [Named(cursor, end) -> Values]
        BY <4>3 DEF TypeOK
      <4> QED
        BY <2>3, <4>1, <4>2, <4>3, <4>4 DEF AnswerSync, SyncPage, TypeOK
    <3> QED
      BY <2>3, <3>2, <3>3 DEF AnswerSync
  <2>4. CASE AnswerList
    BY <2>4 DEF AnswerList, TypeOK
  <2>5. CASE TakePage
    <3>1. answer.pts \in Nat /\ answer.views \in [DOMAIN answer.views -> Values]
      BY <2>5 DEF TakePage, TypeOK, NoAnswer, ResetAnswer
    <3>2. copy' \in [Entities -> Values] /\ cursor' \in Nat \cup {Never}
      BY <2>5, <3>1 DEF TakePage, TypeOK, Larger
    <3> QED
      BY <2>5, <3>2 DEF TakePage, TypeOK
  <2>6. CASE TakeList
    <3>1. answer.pts \in Nat /\ answer.views \in [Entities -> Values]
      BY <2>6 DEF TakeList, TypeOK, NoAnswer, ResetAnswer
    <3> QED
      BY <2>6, <3>1 DEF TakeList, TypeOK
  <2>7. CASE LoseAnswer
    BY <2>7 DEF LoseAnswer, TypeOK
  <2>8. CASE WriteDisk
    BY <2>8 DEF WriteDisk, TypeOK
  <2>9. CASE Restart
    BY <2>9 DEF Restart, TypeOK
  <2>10. CASE UNCHANGED vars
    BY <2>10 DEF vars, TypeOK
  <2> QED
    BY <2>1, <2>2, <2>3, <2>4, <2>5, <2>6, <2>7, <2>8, <2>9, <2>10
       DEF Next, ServerStep, LogNext, DeviceStep
<1> QED
  BY <1>1, <1>2, PTL DEF Spec
----------------------------------------------------------------------------
\* A write adds rows above every number a device can have, so what was
\* covered stays covered, whatever the copy is.
LEMMA WriteKeepsCovered ==
  ASSUME TypeOK, Write,
         NEW c \in [Entities -> Values], NEW n \in Int, n <= pts,
         Covered(c, n)
  PROVE  Covered(c, n)'
<1>1. SUFFICES ASSUME NEW e \in Entities, c[e] # view'[e]
               PROVE  \E p \in DOMAIN changes' : p > n /\ e \in changes'[p]
  BY DEF Covered
<1>2. CASE view'[e] # view[e]
  <2>1. PICK p \in (pts + 1) .. pts' : e \in changes'[p]
    BY <1>2 DEF Write
  <2>2. p \in DOMAIN changes' /\ p > n
    BY <2>1, NumbersAssumption DEF Write, TypeOK
  <2> QED
    BY <2>1, <2>2
<1>3. CASE view'[e] = view[e]
  <2>1. PICK p \in DOMAIN changes : p > n /\ e \in changes[p]
    BY <1>1, <1>3 DEF Covered
  <2>2. p \in DOMAIN changes' /\ changes'[p] = changes[p]
    BY <2>1 DEF Write
  <2> QED
    BY <2>1, <2>2
<1> QED
  BY <1>2, <1>3

\* Pruning deletes only rows up to the new min_pts, which no device whose
\* number is still accepted needs.
LEMMA PruneKeepsCovered ==
  ASSUME TypeOK, Prune,
         NEW c \in [Entities -> Values], NEW n \in Int, n >= minPts',
         Covered(c, n)
  PROVE  Covered(c, n)'
<1>1. PICK kept \in SUBSET DOMAIN changes :
        /\ changes' = [p \in kept |-> changes[p]]
        /\ \A p \in DOMAIN changes \ kept : p <= minPts'
  BY DEF Prune
<1>2. SUFFICES ASSUME NEW e \in Entities, c[e] # view[e]
               PROVE  \E p \in DOMAIN changes' : p > n /\ e \in changes'[p]
  BY DEF Prune, Covered
<1>3. PICK p \in DOMAIN changes : p > n /\ e \in changes[p]
  BY <1>2 DEF Covered
<1>4. p \in kept
  BY <1>1, <1>3 DEF TypeOK, Prune
<1> QED
  BY <1>1, <1>3, <1>4

\* A page refreshes what its rows name; whatever else is stale is named by a
\* row the page did not reach.
LEMMA PageCovers ==
  ASSUME TypeOK,
         NEW c \in [Entities -> Values], NEW n \in Int, Covered(c, n),
         NEW end \in Int
  PROVE  Covered([e \in Entities |-> IF e \in Named(n, end) THEN view[e] ELSE c[e]], end)
<1> DEFINE m == [e \in Entities |-> IF e \in Named(n, end) THEN view[e] ELSE c[e]]
<1>1. SUFFICES ASSUME NEW e \in Entities, m[e] # view[e]
               PROVE  \E p \in DOMAIN changes : p > end /\ e \in changes[p]
  BY DEF Covered
<1>2. e \notin Named(n, end) /\ c[e] # view[e]
  BY <1>1
<1>3. PICK p \in DOMAIN changes : p > n /\ e \in changes[p]
  BY <1>2 DEF Covered
<1>4. p > end
  BY <1>2, <1>3 DEF Named, Rows, TypeOK
<1> QED
  BY <1>3, <1>4

----------------------------------------------------------------------------
\* The inductive invariant: the copy, the copy on disk and the copy an answer
\* on its way would make are each covered at their own number.
THEOREM CatchUpInvariant == Spec => []CatchUpInv
<1>1. Init => CatchUpInv
  BY DEF Init, LogInit, CatchUpInv, NeverAhead, NumbersWithoutGaps, NothingMissed,
         DiskCovered, ListCovered, PageCovered, NoAnswer, Never
<1>2. TypeOK /\ TypeOK' /\ CatchUpInv /\ [Next]_vars => CatchUpInv'
  <2> SUFFICES ASSUME TypeOK, TypeOK', CatchUpInv, [Next]_vars PROVE CatchUpInv'
    OBVIOUS
  <2> USE DEF Never
  <2>m. answer.kind = "page" => Merged \in [Entities -> Values] /\ answer.pts \in Nat
    BY DEF TypeOK, Merged, NoAnswer, ResetAnswer
  <2>l. answer.kind = "list" => answer.views \in [Entities -> Values] /\ answer.pts \in Nat
    BY DEF TypeOK, NoAnswer, ResetAnswer
  <2>1. CASE Write /\ UNCHANGED <<copy, cursor, answer, disk>>
    <3>1. pts' > pts /\ minPts' = minPts
      BY <2>1 DEF Write
    <3>2. NeverAhead'
      BY <2>1, <3>1, <2>m, <2>l, NumbersAssumption DEF CatchUpInv, NeverAhead, TypeOK
    <3>3. NumbersWithoutGaps'
      BY <2>1, NumbersAssumption DEF Write, CatchUpInv, NumbersWithoutGaps, TypeOK
    <3>4. NothingMissed'
      BY <2>1, <3>1, WriteKeepsCovered
         DEF CatchUpInv, NeverAhead, NothingMissed, TypeOK, Covered
    <3>5. DiskCovered'
      BY <2>1, <3>1, WriteKeepsCovered
         DEF CatchUpInv, NeverAhead, DiskCovered, TypeOK, Covered
    <3>6. ListCovered'
      BY <2>1, <3>1, <2>l, WriteKeepsCovered
         DEF CatchUpInv, NeverAhead, ListCovered, Covered
    <3>7. PageCovered'
      <4>1. Merged' = Merged
        BY <2>1 DEF Merged
      <4>2. ASSUME answer.kind = "page", answer.pts >= minPts PROVE Covered(Merged, answer.pts)'
        <5>1. Covered(Merged, answer.pts) /\ answer.pts <= pts
          BY <4>2 DEF CatchUpInv, NeverAhead, PageCovered
        <5>2. \A e \in Entities : Merged[e] # view'[e] =>
                \E p \in DOMAIN changes' : p > answer.pts /\ e \in changes'[p]
          BY <2>1, <2>m, <4>2, <5>1, WriteKeepsCovered DEF Covered
        <5> QED BY <2>1, <4>1, <5>2 DEF Covered
      <4> QED BY <2>1, <3>1, <4>2 DEF CatchUpInv, PageCovered
    <3> QED BY <3>2, <3>3, <3>4, <3>5, <3>6, <3>7 DEF CatchUpInv
  <2>2. CASE Prune /\ UNCHANGED <<copy, cursor, answer, disk>>
    <3>1. minPts' >= minPts /\ minPts' \in Nat /\ pts' = pts
      BY <2>2 DEF Prune, TypeOK
    <3>2. NeverAhead'
      BY <2>2, <3>1 DEF CatchUpInv, NeverAhead
    <3>3. NumbersWithoutGaps'
      <4>1. SUFFICES ASSUME NEW p \in (minPts' + 1) .. pts' PROVE p \in DOMAIN changes'
        BY DEF NumbersWithoutGaps
      <4>2. p \in DOMAIN changes
        BY <3>1, <4>1 DEF CatchUpInv, NumbersWithoutGaps, TypeOK
      <4> QED BY <2>2, <4>1, <4>2, <3>1 DEF Prune
    <3>4. NothingMissed'
      BY <2>2, <3>1, PruneKeepsCovered DEF CatchUpInv, NothingMissed, TypeOK, Covered
    <3>5. DiskCovered'
      BY <2>2, <3>1, PruneKeepsCovered DEF CatchUpInv, DiskCovered, TypeOK, Covered
    <3>6. ListCovered'
      BY <2>2, <3>1, <2>l, PruneKeepsCovered DEF CatchUpInv, ListCovered, TypeOK, Covered
    <3>7. PageCovered'
      <4>1. Merged' = Merged
        BY <2>2 DEF Merged, Prune
      <4>2. ASSUME answer.kind = "page", answer.pts >= minPts' PROVE Covered(Merged, answer.pts)'
        <5>1. Covered(Merged, answer.pts)
          BY <3>1, <2>m, <4>2 DEF CatchUpInv, PageCovered, TypeOK
        <5>2. \A e \in Entities : Merged[e] # view'[e] =>
                \E p \in DOMAIN changes' : p > answer.pts /\ e \in changes'[p]
          BY <2>2, <2>m, <4>2, <5>1, PruneKeepsCovered DEF Covered
        <5> QED BY <2>2, <4>1, <5>2 DEF Covered
      <4> QED BY <2>2, <3>1, <4>2 DEF CatchUpInv, PageCovered
    <3> QED BY <3>2, <3>3, <3>4, <3>5, <3>6, <3>7 DEF CatchUpInv
  <2>3. CASE AnswerSync
    <3>1. CASE answer' = ResetAnswer
      BY <2>3, <3>1 DEF AnswerSync, CatchUpInv, NeverAhead, NumbersWithoutGaps, NothingMissed,
                        DiskCovered, ListCovered, PageCovered, Covered, ResetAnswer
    <3>2. CASE /\ ~ (cursor < minPts \/ cursor > pts)
               /\ \E end \in Rows(cursor, pts) \cup {pts} : answer' = SyncPage(cursor, end)
      <4>1. PICK end \in Rows(cursor, pts) \cup {pts} : answer' = SyncPage(cursor, end)
        BY <3>2
      <4>2. end \in Nat /\ cursor <= end /\ end <= pts /\ cursor \in Nat
        BY <2>3, <3>2 DEF Rows, TypeOK, AnswerSync
      <4>3. Covered(copy, cursor)
        BY <2>3, <3>2, <4>2 DEF CatchUpInv, NothingMissed, TypeOK, AnswerSync
      <4>4. Covered([e \in Entities |-> IF e \in Named(cursor, end) THEN view[e] ELSE copy[e]], end)
        BY <4>2, <4>3, PageCovers DEF TypeOK
      <4>5. Merged' = [e \in Entities |-> IF e \in Named(cursor, end) THEN view[e] ELSE copy[e]]
        BY <2>3, <4>1 DEF Merged, SyncPage, AnswerSync
      <4>6. PageCovered'
        BY <2>3, <4>1, <4>2, <4>4, <4>5 DEF PageCovered, Covered, AnswerSync, SyncPage
      <4> QED
        BY <2>3, <4>1, <4>2, <4>6
           DEF AnswerSync, CatchUpInv, NeverAhead, NumbersWithoutGaps, NothingMissed,
               DiskCovered, ListCovered, Covered, SyncPage
    <3> QED BY <2>3, <3>1, <3>2 DEF AnswerSync
  <2>4. CASE AnswerList
    BY <2>4 DEF AnswerList, CatchUpInv, NeverAhead, NumbersWithoutGaps, NothingMissed,
                DiskCovered, ListCovered, PageCovered, Covered, TypeOK
  <2>5. CASE TakePage
    <3>1. copy' = Merged /\ cursor' = answer.pts /\ answer.pts <= pts
      BY <2>5, <2>m DEF TakePage, Merged, CatchUpInv, NeverAhead, PageCovered, TypeOK, Larger
    <3> QED
      BY <2>5, <3>1 DEF TakePage, CatchUpInv, NeverAhead, NumbersWithoutGaps, NothingMissed,
                        DiskCovered, ListCovered, PageCovered, Covered, NoAnswer
  <2>6. CASE TakeList
    BY <2>6, <2>l DEF TakeList, CatchUpInv, NeverAhead, NumbersWithoutGaps, NothingMissed,
                DiskCovered, ListCovered, PageCovered, Covered, NoAnswer
  <2>7. CASE LoseAnswer
    BY <2>7 DEF LoseAnswer, CatchUpInv, NeverAhead, NumbersWithoutGaps, NothingMissed,
                DiskCovered, ListCovered, PageCovered, Covered, NoAnswer
  <2>8. CASE WriteDisk
    BY <2>8 DEF WriteDisk, CatchUpInv, NeverAhead, NumbersWithoutGaps, NothingMissed,
                DiskCovered, ListCovered, PageCovered, Covered, Merged
  <2>9. CASE Restart
    BY <2>9 DEF Restart, CatchUpInv, NeverAhead, NumbersWithoutGaps, NothingMissed,
                DiskCovered, ListCovered, PageCovered, Covered, NoAnswer
  <2>10. CASE UNCHANGED vars
    BY <2>10 DEF vars, CatchUpInv, NeverAhead, NumbersWithoutGaps, NothingMissed,
                DiskCovered, ListCovered, PageCovered, Covered, Merged
  <2> QED
    BY <2>1, <2>2, <2>3, <2>4, <2>5, <2>6, <2>7, <2>8, <2>9, <2>10
       DEF Next, ServerStep, LogNext, DeviceStep
<1> QED
  BY <1>1, <1>2, TypeCorrect, PTL DEF Spec

\* A device whose number is still accepted will be told of everything it shows
\* wrongly (syncSince, catchupPlan, pruneJournal together).
THEOREM CatchUpMissesNothing == Spec => []NothingMissed
  BY CatchUpInvariant, PTL DEF CatchUpInv

\* A device that has the last number of the journal shows everything as it is.
THEOREM CaughtUp == Spec => []CaughtUpIsRight
<1>1. TypeOK /\ CatchUpInv => CaughtUpIsRight
  <2>1. SUFFICES ASSUME TypeOK, CatchUpInv, cursor = pts PROVE copy = view
    BY DEF CaughtUpIsRight
  <2>2. Covered(copy, pts)
    BY <2>1 DEF CatchUpInv, NothingMissed, TypeOK, Never
  <2>3. ASSUME NEW e \in Entities PROVE copy[e] = view[e]
    BY <2>1, <2>2 DEF Covered, TypeOK
  <2> QED
    BY <2>1, <2>3 DEF TypeOK
<1> QED
  BY <1>1, TypeCorrect, CatchUpInvariant, PTL
=============================================================================
