--------------------------- MODULE ConvSyncProofs ---------------------------
(***************************************************************************)
(* The safety of a device's synchronisation for every number of            *)
(* conversations, every page limit and every length of the journal.        *)
(*                                                                         *)
(* What has to be known besides the properties: an event shows things no   *)
(* older than its number; a page or a list ends no later than it was read; *)
(* no view is older than the number it is marked with; and from the moment *)
(* the gateway is taken for up, each number is accounted for that is newer *)
(* than the answer at hand.                                                *)
(***************************************************************************)
EXTENDS ConvSync, WellFoundedInduction, TLAPS

\* A live device has a number, no catch-up and nothing put by.
Phases ==
    /\ phase = "live" => sync = Off /\ gateway = "up" /\ buffer = {} /\ cursor # Never
    /\ sync # Off => phase # "live"

\* Events and answers tell of the past, and not of before their numbers.
NoNews ==
    /\ \A ev \in inbox \cup buffer : ev.pts <= ev.at /\ ev.at <= Pts
    /\ sync.stage = "page" =>
         /\ cursor # Never /\ cursor <= sync.end /\ sync.end <= sync.at /\ sync.at <= Pts
         /\ ~ sync.more => sync.end = sync.at
    /\ sync.stage = "list" => sync.at <= Pts

\* A record taken from the disk while the first list was on its way.
HydratedFirst ==
    /\ sync = AskList => cursor # Never
    /\ sync = AskFirst => \A e \in Entities : fresh[e] = cursor
    /\ (sync.stage = "list" /\ ~ sync.reset /\ cursor # Never) =>
         \A e \in Entities : fresh[e] = cursor

SyncInv == TypeOK /\ Phases /\ NoNews /\ HydratedFirst

\* No view is older than the number it is marked with.
NoOlder == \A e \in Entities : fresh[e] <= at[e]

\* The numbers above n are accounted for.
Accounted(n) == (n + 1) .. Pts \subseteq unsent \cup Numbers(inbox) \cup lost \cup Numbers(buffer)

AnswerAccounted ==
    (conn /\ gateway = "up") =>
        /\ phase = "live" => Accounted(cursor)
        /\ (sync.stage \in {"page", "list"} /\ ~ again) => Accounted(sync.at)

----------------------------------------------------------------------------
\* A bounded set of numbers has a greatest one.
LEMMA GreatestBelow ==
    ASSUME NEW S, S \subseteq Int, S # {}, NEW low \in Int, NEW high \in Int,
           \A x \in S : low <= x /\ x <= high
    PROVE  \E m \in S : \A x \in S : x <= m
<1> DEFINE T == {n \in Nat : high - n \in S}
           Less == OpToRel(<, Nat)
<1>1. \A k, n \in Nat : k < n => <<k, n>> \in Less
  BY DEF OpToRel
<1>2. IsWellFoundedOn(Less, Nat)
  BY NatLessThanWellFounded
<1>3. \A x \in S : high - x \in T
  <2> SUFFICES ASSUME NEW x \in S PROVE high - x \in T
    OBVIOUS
  <2>1. x \in Int /\ x <= high
    OBVIOUS
  <2>2. high - x \in Nat /\ high - (high - x) = x
    BY <2>1
  <2> QED
    BY <2>2
<1>4. T \subseteq Nat /\ T # {}
  BY <1>3
<1> HIDE DEF Less, T
<1>5. PICK n \in T : \A k \in T : ~ (<<k, n>> \in Less)
  BY <1>2, <1>4, WFMin, Zenon
<1>6. n \in Nat /\ high - n \in S
  BY DEF T
<1>7. ASSUME NEW x \in S PROVE x <= high - n
  <2>1. high - x \in T /\ x \in Int
    BY <1>3
  <2>2. high - x \in Nat /\ ~ (high - x < n)
    BY <1>1, <1>4, <1>5, <2>1
  <2> QED
    BY <1>6, <2>1, <2>2
<1> QED
  BY <1>6, <1>7

\* MaxOf of such a set is its greatest.
LEMMA MaxOfBelow ==
    ASSUME NEW S, S \subseteq Int, S # {}, NEW low \in Int, NEW high \in Int,
           \A x \in S : low <= x /\ x <= high
    PROVE  MaxOf(S) \in S /\ \A x \in S : x <= MaxOf(S)
BY GreatestBelow DEF MaxOf

\* What the end of a round does to the number and the views: it goes on from n
\* over the numbers of the buffer that follow it without a gap, and each view
\* stays as it was or becomes that of the newest of them about it.
Drained(n, a, f) ==
    /\ cursor' \in n .. Pts
    /\ (n + 1) .. cursor' \subseteq Numbers(buffer)
    /\ buffer' = {ev \in buffer : ev.pts > cursor'}
    /\ at' \in [Entities -> Int] /\ fresh' \in [Entities -> Int]
    /\ \A e \in Entities :
         \/ /\ at'[e] = a[e] /\ fresh'[e] = f[e]
            /\ \A p \in (n + 1) .. cursor' : hist[p] = e => p <= f[e]
         \/ \E ev \in buffer :
              /\ ev.pts > n /\ at'[e] = ev.at /\ fresh'[e] = ev.pts
              /\ \A p \in (n + 1) .. cursor' : hist[p] = e => p <= ev.pts

LEMMA FinishDrains ==
    ASSUME buffer \subseteq Events, \A ev \in buffer : ev.at <= Pts /\ ev.pts <= ev.at, Pts \in Nat,
           NEW n \in 0 .. Pts, NEW a \in [Entities -> Int], NEW f \in [Entities -> Int],
           Finish(n, a, f)
    PROVE  Drained(n, a, f)
<1> DEFINE run == {ev \in Consecutive(n) : ev.pts > n}
           last == MaxOf({n} \cup Numbers(run))
           rest == {ev \in buffer : ev.pts > last}
           on(e) == {ev \in run : hist[ev.pts] = e}
           top(e) == CHOOSE ev \in on(e) : \A other \in on(e) : other.pts <= ev.pts
           newer(e) == on(e) # {} /\ top(e).pts > f[e]
<1>1. /\ cursor' = last
      /\ at' = [e \in Entities |-> IF newer(e) THEN top(e).at ELSE a[e]]
      /\ fresh' = [e \in Entities |-> IF newer(e) THEN top(e).pts ELSE f[e]]
      /\ buffer' = rest
  BY DEF Finish
<1>2. \A ev \in buffer : ev.pts \in 1 .. Pts /\ ev.at \in 1 .. Pts
  <2> SUFFICES ASSUME NEW ev \in buffer PROVE ev.pts \in 1 .. Pts /\ ev.at \in 1 .. Pts
    OBVIOUS
  <2>1. ev.pts \in Int /\ ev.at \in Int /\ 1 <= ev.pts /\ 1 <= ev.at
    BY DEF Events
  <2> QED
    BY <2>1
<1>3. \A ev \in run : ev \in buffer /\ ev.pts > n
  BY DEF Consecutive
<1>4. last \in {n} \cup Numbers(run) /\ \A x \in {n} \cup Numbers(run) : x <= last
  <2> DEFINE all == {n} \cup Numbers(run)
  <2>1. \A x \in all : x \in Int /\ 0 <= x /\ x <= Pts
    BY <1>2, <1>3 DEF Numbers
  <2>2. all # {} /\ 0 \in Int /\ Pts \in Int
    OBVIOUS
  <2> HIDE DEF all
  <2>3. all \subseteq Int
    BY <2>1
  <2>4. MaxOf(all) \in all /\ \A x \in all : x <= MaxOf(all)
    BY <2>1, <2>2, <2>3, MaxOfBelow, Zenon
  <2> QED
    BY <2>4 DEF all
<1>5. last \in n .. Pts
  BY <1>2, <1>3, <1>4 DEF Numbers
<1>6. ASSUME NEW p \in (n + 1) .. last
      PROVE  \E ev \in run : ev.pts = p
  <2>1. p \in Int /\ n < p /\ p <= last
    BY <1>5
  <2>2. PICK ev \in run : ev.pts = last
    BY <1>4, <1>5, <2>1 DEF Numbers
  <2>3. \A q \in (n + 1) .. last : q \in Numbers(buffer)
    BY <2>2 DEF Consecutive
  <2>4. PICK evp \in buffer : evp.pts = p
    BY <2>3 DEF Numbers
  <2>5. \A q \in (n + 1) .. p : q \in (n + 1) .. last
    BY <1>5, <2>1
  <2>6. evp \in run
    BY <2>1, <2>3, <2>4, <2>5 DEF Consecutive
  <2> QED
    BY <2>4, <2>6
<1> HIDE DEF run, last
<1>7. (n + 1) .. last \subseteq Numbers(buffer)
  BY <1>3, <1>6 DEF Numbers
<1>8. ASSUME NEW e \in Entities, on(e) # {}
      PROVE  top(e) \in on(e) /\ \A other \in on(e) : other.pts <= top(e).pts
  <2> DEFINE all == Numbers(on(e))
  <2>1. \A x \in all : x \in Int /\ 0 <= x /\ x <= Pts
    BY <1>2, <1>3 DEF Numbers
  <2>2. all # {} /\ 0 \in Int /\ Pts \in Int
    BY <1>8 DEF Numbers
  <2>3. PICK m \in all : \A x \in all : x <= m
    <3> HIDE DEF all
    <3>1. all \subseteq Int
      BY <2>1
    <3> QED
      BY <2>1, <2>2, <3>1, GreatestBelow, Zenon
  <2>4. \E ev \in on(e) : \A other \in on(e) : other.pts <= ev.pts
    BY <2>3 DEF Numbers
  <2> QED
    BY <2>4
<1>9. ASSUME NEW e \in Entities
      PROVE  /\ at'[e] \in Int /\ fresh'[e] \in Int
             /\ \/ /\ at'[e] = a[e] /\ fresh'[e] = f[e]
                   /\ \A p \in (n + 1) .. last : hist[p] = e => p <= f[e]
                \/ \E ev \in buffer :
                     /\ ev.pts > n /\ at'[e] = ev.at /\ fresh'[e] = ev.pts
                     /\ \A p \in (n + 1) .. last : hist[p] = e => p <= ev.pts
  <2>1. \A p \in (n + 1) .. last : hist[p] = e => \E ev \in on(e) : ev.pts = p
    BY <1>6
  <2>2. CASE newer(e)
    <3>1. top(e) \in on(e) /\ \A other \in on(e) : other.pts <= top(e).pts
      BY <1>8, <2>2
    <3>2. \A p \in (n + 1) .. last : hist[p] = e => p <= top(e).pts
      BY <2>1, <3>1
    <3>3. top(e) \in buffer /\ top(e).pts > n
      BY <1>3, <3>1
    <3>4. at'[e] = top(e).at /\ fresh'[e] = top(e).pts
      BY <1>1, <2>2
    <3> HIDE DEF top
    <3> QED
      BY <1>2, <3>2, <3>3, <3>4
  <2>3. CASE ~ newer(e)
    <3>1. at'[e] = a[e] /\ fresh'[e] = f[e]
      BY <1>1, <2>3
    <3>2. CASE on(e) = {}
      BY <2>1, <3>1, <3>2
    <3>3. CASE on(e) # {}
      <4>1. top(e) \in on(e) /\ (\A other \in on(e) : other.pts <= top(e).pts) /\ ~ (top(e).pts > f[e])
        BY <1>8, <2>3, <3>3
      <4>2. top(e).pts \in Int /\ f[e] \in Int /\ top(e).pts <= f[e]
        BY <1>2, <1>3, <4>1
      <4>3. ASSUME NEW p \in (n + 1) .. last, hist[p] = e PROVE p <= f[e]
        <5>1. PICK ev \in on(e) : ev.pts = p
          BY <2>1, <4>3
        <5>2. p <= top(e).pts
          BY <4>1, <5>1
        <5> HIDE DEF top
        <5> QED
          BY <4>2, <5>2, <1>5
      <4> QED
        BY <3>1, <4>3
    <3> QED
      BY <3>2, <3>3
  <2> QED
    BY <2>2, <2>3
<1> HIDE DEF newer, top, on
<1>10. at' \in [Entities -> Int] /\ fresh' \in [Entities -> Int]
  BY <1>1, <1>9
<1> QED
  BY <1>1, <1>5, <1>7, <1>9, <1>10 DEF Drained

----------------------------------------------------------------------------
\* The stages a round goes through.
LEMMA RoundStages ==
    ASSUME NEW n \in Nat
    PROVE  /\ \A r \in Rounds(n) :
                 \/ r \in {Off, AskSync, AskFirst, AskList} /\ r.stage \notin {"page", "list"}
                 \/ /\ r.stage = "page" /\ r.at \in 0 .. n /\ r.end \in 0 .. n /\ r.more \in BOOLEAN
                    /\ r \notin {Off, AskSync, AskFirst, AskList}
                 \/ /\ r.stage = "list" /\ r.at \in 0 .. n /\ r.reset \in BOOLEAN
                    /\ r \notin {Off, AskSync, AskFirst, AskList}
           /\ Rounds(n) \subseteq Rounds(n + 1)
           /\ {Off, AskSync, AskFirst, AskList} \subseteq Rounds(n)
           /\ \A r \in {Off, AskSync, AskFirst, AskList} : r.stage \notin {"page", "list"}
           /\ Off # AskSync /\ Off # AskFirst /\ Off # AskList
           /\ AskSync # AskFirst /\ AskSync # AskList /\ AskFirst # AskList
BY DEF Rounds, Off, AskSync, AskFirst, AskList

LEMMA RunSyncDoes ==
    ASSUME NEW force \in BOOLEAN, RunSync(force), again \in BOOLEAN
    PROVE  /\ again' \in BOOLEAN
           /\ \/ sync = Off /\ sync' = AskSync /\ phase' = "syncing" /\ again' = FALSE
              \/ /\ sync # Off /\ sync' = sync /\ phase' = phase
                 /\ force => again'
                 /\ ~ force => again' = again
BY Zenon DEF RunSync

\* Whatever makes the device ask, or ask again, keeps the round in order.
LEMMA AskingKeeps ==
    ASSUME SyncInv, NEW force \in BOOLEAN, RunSync(force),
           UNCHANGED <<serverVars, copyVars>>,
           conn' \in BOOLEAN, retry' \in BOOLEAN, gateway' \in {"unknown", "up", "down"},
           inbox' \subseteq inbox, buffer' \subseteq inbox \cup buffer
    PROVE  SyncInv'
<1> USE DEF SyncInv, TypeOK, Phases, NoNews, HydratedFirst, serverVars, copyVars
<1>1. Pts \in Nat /\ Pts' = Pts
  BY DEF Pts
<1>2. /\ again' \in BOOLEAN
      /\ \/ sync' = AskSync /\ phase' = "syncing"
         \/ sync # Off /\ sync' = sync /\ phase' = phase
  BY RunSyncDoes
<1>3. sync' \in Rounds(Pts) /\ sync' # Off /\ AskSync.stage = "ask" /\ AskSync # AskFirst /\ AskSync # AskList
  BY <1>1, <1>2, RoundStages DEF AskSync
<1>4. TypeOK'
  BY <1>1, <1>2, <1>3
<1>5. Phases' /\ NoNews' /\ HydratedFirst'
  BY <1>1, <1>2, <1>3
<1> QED
  BY <1>4, <1>5

\* The end of a round.
LEMMA RoundEnds ==
    ASSUME SyncInv, NEW n \in 0 .. Pts, NEW a \in [Entities -> 0 .. Pts],
           NEW f \in [Entities -> Never .. Pts], Finish(n, a, f),
           UNCHANGED <<serverVars, conn, inbox, gateway, retry>>
    PROVE  SyncInv' /\ Drained(n, a, f)
<1> USE DEF SyncInv, TypeOK, Phases, NoNews, HydratedFirst, serverVars
<1>1. Pts \in Nat /\ Pts' = Pts
  BY DEF Pts
<1>2. \A ev \in buffer : ev.at \in 1 .. Pts /\ ev.pts \in 1 .. Pts /\ ev.pts <= ev.at
  <2> SUFFICES ASSUME NEW ev \in buffer
               PROVE  ev.at \in 1 .. Pts /\ ev.pts \in 1 .. Pts /\ ev.pts <= ev.at
    OBVIOUS
  <2>1. ev.pts \in 1 .. MaxPts /\ ev.at \in 1 .. MaxPts /\ ev.pts <= ev.at /\ ev.at <= Pts
    BY DEF Events
  <2> QED
    BY <1>1, <2>1, SyncAssumption
<1>3. Drained(n, a, f)
  <2>1. a \in [Entities -> Int] /\ f \in [Entities -> Int]
    BY <1>1 DEF Never
  <2> QED
    BY <1>1, <1>2, <2>1, FinishDrains
<1>4. /\ again' = FALSE
      /\ \/ sync' = AskSync /\ phase' = "syncing"
         \/ /\ sync' = Off /\ phase' = IF gateway = "up" THEN "live" ELSE "idle"
            /\ buffer' = {}
  BY DEF Finish
<1>5. /\ cursor' \in 0 .. Pts /\ buffer' \subseteq buffer
      /\ \A e \in Entities : at'[e] \in 0 .. Pts /\ fresh'[e] \in Never .. Pts
  <2>1. cursor' \in 0 .. Pts /\ buffer' \subseteq buffer
    BY <1>1, <1>3 DEF Drained
  <2>2. ASSUME NEW e \in Entities PROVE at'[e] \in 0 .. Pts /\ fresh'[e] \in Never .. Pts
    <3>1. \/ at'[e] = a[e] /\ fresh'[e] = f[e]
          \/ \E ev \in buffer : at'[e] = ev.at /\ fresh'[e] = ev.pts
      BY <1>3 DEF Drained
    <3>2. a[e] \in 0 .. Pts /\ f[e] \in Never .. Pts
      OBVIOUS
    <3>3. \A ev \in buffer : ev.at \in 0 .. Pts /\ ev.pts \in Never .. Pts
      BY <1>1, <1>2 DEF Never
    <3> QED
      BY <3>1, <3>2, <3>3
  <2> QED
    BY <2>1, <2>2
<1>6. at' \in [Entities -> 0 .. Pts] /\ fresh' \in [Entities -> Never .. Pts]
  BY <1>3, <1>5 DEF Drained
<1>7. sync' \in {Off, AskSync} /\ sync' \in Rounds(Pts) /\ Off # AskSync
      /\ sync'.stage \notin {"page", "list"} /\ sync' # AskFirst /\ sync' # AskList
  BY <1>1, <1>4, RoundStages
<1>8. TypeOK'
  <2>1. cursor' \in Never .. Pts
    BY <1>1, <1>5 DEF Never
  <2>2. phase' \in {"idle", "syncing", "live"} /\ again' \in BOOLEAN /\ buffer' \subseteq Events
    BY <1>4, <1>5
  <2> QED
    BY <1>1, <1>6, <1>7, <2>1, <2>2
<1>9. Phases' /\ NoNews' /\ HydratedFirst'
  BY <1>1, <1>4, <1>5, <1>7 DEF Never
<1> QED
  BY <1>3, <1>8, <1>9

RightUpTo(n, a) == \A e \in Entities : \A p \in (a[e] + 1) .. n : hist[p] # e

\* What a page makes of the views, and a list; the round ends with them, or
\* (a page that is not the last) goes on.
LEMMA PageTaken ==
    ASSUME SyncInv, TakePage
    PROVE  \E a \in [Entities -> 0 .. Pts], f \in [Entities -> Never .. Pts] :
             /\ NoOlder => \A e \in Entities : f[e] <= a[e]
             /\ NoOlder /\ NothingSkipped => RightUpTo(sync.end, a)
             /\ sync.end \in 0 .. Pts /\ sync.stage = "page" /\ cursor <= sync.end
             /\ \/ /\ cursor' = sync.end /\ at' = a /\ fresh' = f
                   /\ sync' = AskSync
                   /\ UNCHANGED <<buffer, phase, again>>
                \/ ~ sync.more /\ Finish(sync.end, a, f)
             /\ UNCHANGED <<serverVars, conn, inbox, gateway, retry>>
<1> USE DEF SyncInv, TypeOK, NoNews
<1> DEFINE took(e) == (\E p \in (cursor + 1) .. sync.end : hist[p] = e) /\ sync.end > fresh[e]
           a == [e \in Entities |-> IF took(e) THEN sync.at ELSE at[e]]
           f == [e \in Entities |-> IF took(e) THEN sync.end ELSE fresh[e]]
<1>1. Pts \in Nat
  BY DEF Pts
<1>2. sync.stage = "page"
  BY DEF TakePage
<1>3. /\ sync.at \in 0 .. Pts /\ sync.end \in 0 .. Pts /\ sync.end <= sync.at
      /\ cursor \in 0 .. sync.end
  BY <1>1, <1>2, RoundStages DEF Never
<1>4. a \in [Entities -> 0 .. Pts] /\ f \in [Entities -> Never .. Pts]
  <2>1. \A e \in Entities : at[e] \in 0 .. Pts /\ fresh[e] \in Never .. Pts
    OBVIOUS
  <2>2. sync.end \in Never .. Pts
    BY <1>1, <1>3 DEF Never
  <2> QED
    BY <1>3, <2>1, <2>2
<1>5. NoOlder => \A e \in Entities : f[e] <= a[e]
  BY <1>3 DEF NoOlder
<1>6. ASSUME NoOlder, NothingSkipped, NEW e \in Entities, NEW p \in (a[e] + 1) .. sync.end
      PROVE  hist[p] # e
  <2>1. at[e] \in 0 .. Pts /\ fresh[e] \in Never .. Pts /\ fresh[e] <= at[e]
    BY <1>6 DEF NoOlder
  <2>2. CASE took(e)
    BY <1>1, <1>3, <1>6, <2>2
  <2>3. CASE ~ took(e)
    <3>1. a[e] = at[e] /\ p \in Int /\ at[e] < p /\ p <= sync.end
      BY <1>1, <1>3, <1>6, <2>1, <2>3
    <3>2. CASE p <= cursor
      BY <1>3, <1>6, <2>1, <3>1, <3>2 DEF NothingSkipped
    <3>3. CASE p > cursor
      <4>1. sync.end > fresh[e]
        BY <1>1, <1>3, <2>1, <3>1 DEF Never
      <4> QED
        BY <1>3, <2>3, <3>1, <3>3, <4>1
    <3> QED
      BY <1>3, <3>1, <3>2, <3>3
  <2> QED
    BY <2>2, <2>3
<1>7. /\ \/ /\ cursor' = sync.end /\ at' = a /\ fresh' = f
            /\ sync' = AskSync
            /\ UNCHANGED <<buffer, phase, again>>
         \/ ~ sync.more /\ Finish(sync.end, a, f)
      /\ UNCHANGED <<serverVars, conn, inbox, gateway, retry>>
  BY DEF TakePage
<1> HIDE DEF a, f
<1>8. NoOlder /\ NothingSkipped => RightUpTo(sync.end, a)
  BY <1>6 DEF RightUpTo
<1> QED
  BY <1>2, <1>3, <1>4, <1>5, <1>7, <1>8

LEMMA ListTaken ==
    ASSUME SyncInv, TakeList
    PROVE  \E n \in 0 .. Pts, a \in [Entities -> 0 .. Pts], f \in [Entities -> Never .. Pts] :
             /\ NoOlder => \A e \in Entities : f[e] <= a[e]
             /\ NoOlder /\ NothingSkipped => RightUpTo(n, a)
             /\ sync.stage = "list" /\ sync.at \in 0 .. Pts /\ sync.at <= n
             /\ Finish(n, a, f)
             /\ UNCHANGED <<serverVars, conn, inbox, gateway, retry>>
<1> USE DEF SyncInv, TypeOK, NoNews
<1> DEFINE kept(e) == ~ sync.reset /\ fresh[e] > sync.at
           n == IF ~ sync.reset /\ cursor > sync.at THEN cursor ELSE sync.at
           a == [e \in Entities |-> IF kept(e) THEN at[e] ELSE sync.at]
           f == [e \in Entities |-> IF kept(e) THEN fresh[e] ELSE sync.at]
<1>1. Pts \in Nat
  BY DEF Pts
<1>2. sync.stage = "list"
  BY DEF TakeList
<1>3. sync.at \in 0 .. Pts /\ cursor \in Never .. Pts
  BY <1>1, <1>2, RoundStages
<1>4. n \in 0 .. Pts /\ sync.at <= n
  BY <1>1, <1>3 DEF Never
<1>5. \A e \in Entities : at[e] \in 0 .. Pts /\ fresh[e] \in Never .. Pts
  OBVIOUS
<1>6. a \in [Entities -> 0 .. Pts] /\ f \in [Entities -> Never .. Pts]
  <2>1. sync.at \in Never .. Pts
    BY <1>1, <1>3 DEF Never
  <2> QED
    BY <1>3, <1>5, <2>1
<1>7. NoOlder => \A e \in Entities : f[e] <= a[e]
  BY <1>3, <1>5 DEF NoOlder
<1>8. ASSUME NoOlder, NothingSkipped, NEW e \in Entities, NEW p \in (a[e] + 1) .. n
      PROVE  hist[p] # e
  <2>1. at[e] \in 0 .. Pts /\ fresh[e] \in Never .. Pts /\ fresh[e] <= at[e]
    BY <1>5, <1>8 DEF NoOlder
  <2>2. CASE ~ sync.reset /\ cursor > sync.at
    <3>1. fresh[e] = cursor
      BY <1>1, <1>2, <1>3, <2>2 DEF HydratedFirst, Never
    <3>2. a[e] = at[e] /\ n = cursor
      BY <2>2, <3>1
    <3> QED
      BY <1>8, <3>2 DEF NothingSkipped
  <2>3. CASE ~ (~ sync.reset /\ cursor > sync.at)
    <3>1. n = sync.at /\ a[e] \in Int /\ a[e] >= sync.at
      BY <1>1, <1>3, <2>1, <2>3 DEF Never
    <3> QED
      BY <1>3, <1>8, <3>1
  <2> QED
    BY <2>2, <2>3
<1>9. Finish(n, a, f) /\ UNCHANGED <<serverVars, conn, inbox, gateway, retry>>
  BY DEF TakeList
<1> HIDE DEF n, a, f
<1>10. NoOlder /\ NothingSkipped => RightUpTo(n, a)
  BY <1>8 DEF RightUpTo
<1> QED
  BY <1>2, <1>3, <1>4, <1>6, <1>7, <1>9, <1>10

\* The list, the word that the number is too old, or a page.
LEMMA AnswerIs ==
    ASSUME Answer
    PROVE  LET last == IF cursor + Limit < Pts THEN cursor + Limit ELSE Pts
               list == [stage |-> "list", at |-> Pts, reset |-> sync = AskList]
               page == [stage |-> "page", at |-> Pts, end |-> last, more |-> last < Pts]
           IN  \/ (sync \in {AskList, AskFirst} \/ (sync = AskSync /\ cursor = Never)) /\ sync' = list
               \/ sync = AskSync /\ cursor # Never /\ sync' = AskList
               \/ sync = AskSync /\ cursor # Never /\ sync' = page
BY Zenon DEF Answer

\* The types, the phases of a round and what events and answers tell of
\* (convStore.ts), whatever arrives, fails or restarts.
LEMMA SyncInvHolds == Spec => []SyncInv
<1> USE SyncAssumption DEF SyncInv, TypeOK, Phases, NoNews, HydratedFirst
<1>1. Init => SyncInv
  <2> SUFFICES ASSUME Init PROVE SyncInv
    OBVIOUS
  <2>1. Pts = 0
    BY DEF Init, Pts
  <2>2. Off \in Rounds(0) /\ Off # AskList /\ Off # AskFirst /\ Off.stage = "off"
    BY RoundStages DEF Off
  <2>3. /\ hist = <<>> /\ minPts = 0 /\ unsent = {} /\ lost = {} /\ conn = FALSE /\ inbox = {}
        /\ gateway = "unknown" /\ phase = "idle" /\ cursor = Never /\ buffer = {}
        /\ at = [e \in Entities |-> 0] /\ fresh = [e \in Entities |-> Never]
        /\ sync = Off /\ again = FALSE /\ retry = FALSE
    BY DEF Init
  <2>4. at \in [Entities -> 0 .. 0] /\ fresh \in [Entities -> Never .. 0] /\ cursor \in Never .. 0
    BY <2>3 DEF Never
  <2>5. hist \in Seq(Entities) /\ Len(hist) <= MaxPts /\ minPts \in 0 .. 0
        /\ unsent \subseteq 1 .. 0 /\ lost \subseteq 1 .. 0
    BY <2>3
  <2>6. TypeOK
    BY <2>1, <2>2, <2>3, <2>4, <2>5
  <2> QED
    BY <2>2, <2>3, <2>6
<1>2. SyncInv /\ [Next]_vars => SyncInv'
  <2> SUFFICES ASSUME SyncInv, [Next]_vars PROVE SyncInv'
    OBVIOUS
  <2> USE DEF serverVars, copyVars, runVars
  <2>0. Pts \in Nat /\ (hist' = hist => Pts' = Pts)
    BY DEF Pts
  <2>1. ASSUME NEW e \in Entities, Commit(e) PROVE SyncInv'
    <3>1. hist' \in Seq(Entities) /\ Pts' = Pts + 1 /\ Len(hist') <= MaxPts
      BY <2>1 DEF Commit, Pts
    <3>2. Rounds(Pts) \subseteq Rounds(Pts')
      BY <2>0, <3>1, RoundStages
    <3>3. 0 .. Pts \subseteq 0 .. Pts' /\ Never .. Pts \subseteq Never .. Pts'
      BY <2>0, <3>1 DEF Never
    <3>4. TypeOK'
      BY <2>0, <2>1, <3>1, <3>2, <3>3 DEF Commit
    <3>5. Phases' /\ HydratedFirst'
      BY <2>1 DEF Commit
    <3>6. NoNews'
      <4>1. \A ev \in inbox \cup buffer : ev.pts <= ev.at /\ ev.at <= Pts'
        <5>1. \A ev \in inbox \cup buffer : ev.at \in Int
          BY DEF Events
        <5> QED
          BY <2>0, <3>1, <5>1
      <4>2. sync.stage \in {"page", "list"} => sync.at \in 0 .. Pts
        BY <2>0, RoundStages
      <4> QED
        BY <2>0, <2>1, <3>1, <4>1, <4>2 DEF Commit
    <3> QED
      BY <3>4, <3>5, <3>6
  <2>2. ASSUME NEW p \in unsent, Publish(p) PROVE SyncInv'
    <3>1. p \in 1 .. Pts /\ Pts' = Pts /\ Pts \in 1 .. MaxPts
      BY <2>0, <2>2 DEF Publish, Pts
    <3>2. [pts |-> p, at |-> Pts] \in Events
      BY <2>0, <3>1 DEF Events
    <3>3. inbox' \subseteq inbox \cup {[pts |-> p, at |-> Pts]}
      BY <2>2 DEF Publish
    <3>4. TypeOK'
      BY <2>2, <3>1, <3>2, <3>3 DEF Publish
    <3>5. Phases' /\ NoNews' /\ HydratedFirst'
      BY <2>0, <2>2, <3>1, <3>3 DEF Publish
    <3> QED
      BY <3>4, <3>5
  <2>3. ASSUME NEW p \in unsent, LoseEvent(p) PROVE SyncInv'
    BY <2>0, <2>3 DEF LoseEvent
  <2>4. CASE Prune
    BY <2>0, <2>4 DEF Prune
  <2>5. CASE Break
    BY <2>0, <2>5 DEF Break
  <2>6. CASE Register
    BY <2>0, <2>6 DEF Register
  <2>7. CASE Answer
    <3> DEFINE last == IF cursor + Limit < Pts THEN cursor + Limit ELSE Pts
               list == [stage |-> "list", at |-> Pts, reset |-> sync = AskList]
               page == [stage |-> "page", at |-> Pts, end |-> last, more |-> last < Pts]
    <3>0. UNCHANGED <<serverVars, conn, inbox, gateway, buffer, copyVars, phase, again, retry>> /\ Pts' = Pts
      BY <2>0, <2>7 DEF Answer
    <3>1. CASE sync' = list
               /\ (sync \in {AskList, AskFirst} \/ (sync = AskSync /\ cursor = Never))
      <4>1. /\ sync' \in Rounds(Pts) /\ sync'.stage = "list" /\ sync'.at = Pts
            /\ sync'.reset <=> sync = AskList
        <5> DEFINE whole == (sync = AskList)
        <5>1. whole \in BOOLEAN /\ sync' = [stage |-> "list", at |-> Pts, reset |-> whole]
          BY <3>1
        <5> HIDE DEF whole
        <5>2. sync' \in Rounds(Pts) /\ sync'.stage = "list" /\ sync'.at = Pts /\ (sync'.reset <=> whole)
          BY <2>0, <5>1 DEF Rounds
        <5> QED
          BY <5>2 DEF whole
      <4>2. sync' \notin {Off, AskSync, AskFirst, AskList} /\ sync # Off
        BY <2>0, <3>1, <4>1, RoundStages
      <4>3. TypeOK' /\ Phases'
        BY <3>0, <4>1, <4>2
      <4>4. NoNews' /\ HydratedFirst'
        BY <2>0, <3>0, <3>1, <4>1, <4>2
      <4> QED
        BY <4>3, <4>4
    <3>2. CASE sync = AskSync /\ cursor # Never /\ sync' = AskList
      <4>1. /\ sync' \in Rounds(Pts) /\ sync'.stage \notin {"page", "list"}
            /\ sync' # AskFirst /\ sync' # Off /\ sync # Off
        BY <2>0, <3>2, RoundStages
      <4>2. TypeOK' /\ Phases'
        BY <3>0, <4>1
      <4>3. NoNews' /\ HydratedFirst'
        BY <3>0, <3>2, <4>1
      <4> QED
        BY <4>2, <4>3
    <3>3. CASE sync = AskSync /\ cursor # Never /\ sync' = page
      <4>0. cursor \in 0 .. Pts
        BY <2>0, <3>3 DEF Never
      <4>1. PICK end \in cursor .. Pts :
               sync' = [stage |-> "page", at |-> Pts, end |-> end, more |-> end < Pts]
        <5>1. last \in cursor .. Pts
          BY <2>0, <4>0
        <5> HIDE DEF last
        <5> QED
          BY <3>3, <5>1
      <4>2. /\ sync' \in Rounds(Pts) /\ sync'.stage = "page" /\ sync'.at = Pts
            /\ sync'.end = end /\ (sync'.more <=> end < Pts)
        <5> DEFINE more == end < Pts
        <5>1. more \in BOOLEAN /\ end \in 0 .. Pts
              /\ sync' = [stage |-> "page", at |-> Pts, end |-> end, more |-> more]
          BY <2>0, <4>0, <4>1
        <5> HIDE DEF more
        <5>2. /\ sync' \in Rounds(Pts) /\ sync'.stage = "page" /\ sync'.at = Pts
              /\ sync'.end = end /\ (sync'.more <=> more)
          BY <2>0, <5>1 DEF Rounds
        <5> QED
          BY <5>2 DEF more
      <4>3. sync' \notin {Off, AskSync, AskFirst, AskList} /\ sync # Off
        BY <2>0, <3>3, <4>2, RoundStages
      <4>4. TypeOK' /\ Phases'
        BY <3>0, <4>2, <4>3
      <4>5. NoNews' /\ HydratedFirst'
        BY <2>0, <3>0, <3>3, <4>0, <4>2, <4>3
      <4> QED
        BY <4>4, <4>5
    <3>4. \/ (sync \in {AskList, AskFirst} \/ (sync = AskSync /\ cursor = Never)) /\ sync' = list
          \/ sync = AskSync /\ cursor # Never /\ sync' = AskList
          \/ sync = AskSync /\ cursor # Never /\ sync' = page
      BY <2>7, AnswerIs
    <3> HIDE DEF list, page
    <3> QED
      BY <3>1, <3>2, <3>3, <3>4
  <2>8. CASE FailSync
    <3>1. UNCHANGED <<serverVars, conn, inbox, gateway, buffer, copyVars, phase, again>>
          /\ sync' = Off /\ sync # Off /\ retry' = TRUE /\ Pts' = Pts
      BY <2>0, <2>8 DEF FailSync
    <3>2. Off \in Rounds(Pts) /\ Off.stage \notin {"page", "list"} /\ Off # AskFirst /\ Off # AskList
      BY <2>0, RoundStages
    <3>3. TypeOK' /\ Phases'
      BY <3>1, <3>2
    <3>4. NoNews' /\ HydratedFirst'
      BY <3>1, <3>2
    <3> QED
      BY <3>3, <3>4
  <2>9. CASE EnsureList
    BY <2>9, AskingKeeps DEF EnsureList
  <2>10. CASE Leave
    <3>1. Off \in Rounds(Pts) /\ Off.stage \notin {"page", "list"} /\ Off # AskFirst /\ Off # AskList
      BY <2>0, RoundStages
    <3>2. /\ at' \in [Entities -> 0 .. Pts] /\ fresh' \in [Entities -> Never .. Pts]
          /\ cursor' \in Never .. Pts /\ Pts' = Pts
      BY <2>0, <2>10 DEF Leave, Never
    <3>3. TypeOK'
      BY <2>10, <3>1, <3>2 DEF Leave
    <3> QED
      BY <2>10, <3>1, <3>3 DEF Leave
  <2>11. CASE Hydrate
    <3>1. PICK n \in 0 .. Pts :
            cursor' = n /\ at' \in [Entities -> n .. Pts] /\ fresh' = [e \in Entities |-> n]
      BY <2>11 DEF Hydrate
    <3>2. /\ UNCHANGED <<serverVars, conn, inbox, gateway, again, retry>>
          /\ phase' = "idle" /\ buffer' = {} /\ Pts' = Pts /\ cursor = Never
          /\ sync' = IF sync = AskSync THEN AskFirst ELSE sync
      BY <2>0, <2>11 DEF Hydrate
    <3>3. n .. Pts \subseteq 0 .. Pts /\ n \in Never .. Pts /\ n # Never
      BY <2>0 DEF Never
    <3>4. /\ sync' \in Rounds(Pts)
          /\ sync'.stage = "page" => sync.stage = "page"
          /\ sync'.stage = "list" => sync' = sync
      BY <2>0, <3>2, RoundStages
    <3>5. TypeOK'
      <4>1. at' \in [Entities -> 0 .. Pts] /\ fresh' \in [Entities -> Never .. Pts]
        BY <3>1, <3>3
      <4> QED
        BY <3>1, <3>2, <3>3, <3>4, <4>1
    <3>6. Phases' /\ HydratedFirst'
      BY <3>1, <3>2, <3>3, <3>4
    <3>7. NoNews'
      BY <3>1, <3>2, <3>4
    <3> QED
      BY <3>5, <3>6, <3>7
  <2>12. CASE Ready
    BY <2>12, AskingKeeps DEF Ready
  <2>13. CASE NoticeLost
    BY <2>13, AskingKeeps DEF NoticeLost
  <2>14. CASE Retry
    BY <2>14, AskingKeeps DEF Retry
  <2>15. CASE Poll
    BY <2>15, AskingKeeps DEF Poll
  <2>16. ASSUME NEW ev \in inbox, OnChange(ev) PROVE SyncInv'
    <3>1. inbox' \subseteq inbox /\ Buffered(ev) \subseteq inbox \cup buffer
      BY <2>16 DEF OnChange, Buffered
    <3>2. CASE EventDecision(ev) = "buffer" /\ buffer' = Buffered(ev) /\ UNCHANGED <<copyVars, runVars>>
      BY <2>0, <2>16, <3>1, <3>2 DEF OnChange, EventDecision
    <3>3. CASE EventDecision(ev) = "skip" /\ UNCHANGED <<buffer, copyVars, runVars>>
      BY <2>0, <2>16, <3>1, <3>3 DEF OnChange
    <3>4. CASE EventDecision(ev) = "apply" /\ UNCHANGED <<buffer, runVars>>
      <4>1. ev.pts \in 1 .. Pts /\ ev.at \in 0 .. Pts /\ phase = "live" /\ sync = Off
        <5>1. ev.pts \in 1 .. MaxPts /\ ev.at \in 1 .. MaxPts /\ ev.pts <= ev.at /\ ev.at <= Pts
          BY DEF Events
        <5> QED
          BY <2>0, <3>4, <5>1 DEF EventDecision
      <4>2. cursor' = ev.pts
        BY <2>16, <3>4 DEF OnChange
      <4>3. \/ /\ at' = [at EXCEPT ![hist[ev.pts]] = ev.at]
               /\ fresh' = [fresh EXCEPT ![hist[ev.pts]] = ev.pts]
            \/ UNCHANGED <<at, fresh>>
        BY <2>16, <3>4 DEF OnChange
      <4>4. cursor' \in Never .. Pts /\ cursor' # Never /\ ev.pts \in Never .. Pts
        BY <2>0, <4>1, <4>2 DEF Never
      <4>5. at' \in [Entities -> 0 .. Pts] /\ fresh' \in [Entities -> Never .. Pts]
        BY <4>1, <4>3, <4>4
      <4>6. UNCHANGED <<serverVars, conn, gateway, retry, buffer, runVars>> /\ Pts' = Pts
        BY <2>0, <2>16, <3>4 DEF OnChange
      <4>7. TypeOK'
        BY <3>1, <4>4, <4>5, <4>6
      <4>8. Off.stage \notin {"page", "list"} /\ Off # AskFirst /\ Off # AskList
        BY <2>0, RoundStages
      <4>9. Phases' /\ NoNews' /\ HydratedFirst'
        BY <3>1, <4>1, <4>4, <4>6, <4>8
      <4> QED
        BY <4>7, <4>9
    <3>5. CASE EventDecision(ev) = "gap" /\ buffer' = Buffered(ev) /\ RunSync(TRUE) /\ UNCHANGED copyVars
      BY <2>16, <3>1, <3>5, AskingKeeps DEF OnChange
    <3> QED
      BY <2>16, <3>2, <3>3, <3>4, <3>5 DEF OnChange
  <2>17. CASE TakePage
    <3>1. PICK a \in [Entities -> 0 .. Pts], f \in [Entities -> Never .. Pts] :
            /\ sync.end \in 0 .. Pts /\ sync.stage = "page"
            /\ \/ /\ cursor' = sync.end /\ at' = a /\ fresh' = f
                  /\ sync' = AskSync
                  /\ UNCHANGED <<buffer, phase, again>>
               \/ Finish(sync.end, a, f)
            /\ UNCHANGED <<serverVars, conn, inbox, gateway, retry>>
      BY <2>17, PageTaken
    <3>2. CASE Finish(sync.end, a, f)
      BY <3>1, <3>2, RoundEnds
    <3>3. CASE /\ cursor' = sync.end /\ at' = a /\ fresh' = f
               /\ sync' = AskSync
               /\ UNCHANGED <<buffer, phase, again>>
      <4>1. sync' \in Rounds(Pts) /\ sync'.stage \notin {"page", "list"}
            /\ sync' # AskFirst /\ sync' # AskList /\ sync # Off
        BY <2>0, <3>1, <3>3, RoundStages
      <4>2. cursor' \in Never .. Pts
        BY <2>0, <3>1, <3>3 DEF Never
      <4>3. TypeOK'
        BY <2>0, <3>1, <3>3, <4>1, <4>2
      <4>4. Phases' /\ NoNews' /\ HydratedFirst'
        BY <2>0, <3>1, <3>3, <4>1
      <4> QED
        BY <4>3, <4>4
    <3> QED
      BY <3>1, <3>2, <3>3
  <2>18. CASE TakeList
    <3>1. PICK n \in 0 .. Pts, a \in [Entities -> 0 .. Pts], f \in [Entities -> Never .. Pts] :
            Finish(n, a, f) /\ UNCHANGED <<serverVars, conn, inbox, gateway, retry>>
      BY <2>18, ListTaken
    <3> QED
      BY <3>1, RoundEnds
  <2>19. CASE UNCHANGED vars
    BY <2>0, <2>19 DEF vars
  <2> QED
    BY <2>1, <2>2, <2>3, <2>4, <2>5, <2>6, <2>7, <2>8, <2>9, <2>10, <2>11, <2>12, <2>13, <2>14,
       <2>15, <2>16, <2>17, <2>18, <2>19 DEF Next, DeviceStep
<1> QED
  BY <1>1, <1>2, PTL DEF Spec

----------------------------------------------------------------------------
\* Numbers, views and answers keep their shapes through every order of events,
\* answers, losses and restarts (convStore.ts).
THEOREM TypeCorrect == Spec => []TypeOK
<1>1. SyncInv => TypeOK
  BY DEF SyncInv
<1> QED
  BY <1>1, SyncInvHolds, PTL

\* Draining keeps views right that were right up to n.
LEMMA DrainKeepsRight ==
    ASSUME SyncInv, NEW n \in 0 .. Pts, NEW a \in [Entities -> 0 .. Pts],
           NEW f \in [Entities -> Never .. Pts], Drained(n, a, f), RightUpTo(n, a),
           \A e \in Entities : f[e] <= a[e], hist' = hist
    PROVE  NothingSkipped' /\ NoOlder'
<1> USE DEF SyncInv, TypeOK, NoNews
<1>1. Pts \in Nat /\ cursor' \in n .. Pts
  BY DEF Pts, Drained
<1>2. \A ev \in buffer : ev.pts \in Int /\ ev.at \in Int /\ ev.pts <= ev.at
  BY DEF Events
<1>3. ASSUME NEW e \in Entities
      PROVE  fresh'[e] <= at'[e] /\ \A p \in (at'[e] + 1) .. cursor' : hist[p] # e
  <2>0. a[e] \in 0 .. Pts /\ f[e] \in Never .. Pts /\ f[e] <= a[e]
    OBVIOUS
  <2>1. CASE /\ at'[e] = a[e] /\ fresh'[e] = f[e]
             /\ \A p \in (n + 1) .. cursor' : hist[p] = e => p <= f[e]
    <3>1. ASSUME NEW p \in (at'[e] + 1) .. cursor', hist[p] = e PROVE FALSE
      <4>1. p \in Int /\ a[e] < p /\ p <= cursor' /\ n \in Int /\ f[e] \in Int
        BY <1>1, <2>0, <2>1, <3>1 DEF Never
      <4>2. CASE p <= n
        BY <2>1, <3>1, <4>1, <4>2, <1>1 DEF RightUpTo
      <4>3. CASE p > n
        <5>1. p \in (n + 1) .. cursor'
          BY <1>1, <4>1, <4>3
        <5>2. p <= f[e]
          BY <2>1, <3>1, <5>1
        <5> QED
          BY <2>0, <4>1, <5>2
      <4> QED
        BY <4>1, <4>2, <4>3
    <3> QED
      BY <2>0, <2>1, <3>1
  <2>2. ASSUME NEW ev \in buffer, ev.pts > n, at'[e] = ev.at, fresh'[e] = ev.pts,
               \A p \in (n + 1) .. cursor' : hist[p] = e => p <= ev.pts
        PROVE  fresh'[e] <= at'[e] /\ \A p \in (at'[e] + 1) .. cursor' : hist[p] # e
    <3>1. ev.pts \in Int /\ ev.at \in Int /\ ev.pts <= ev.at
      BY <1>2
    <3>2. ASSUME NEW p \in (at'[e] + 1) .. cursor', hist[p] = e PROVE FALSE
      <4>0. p \in (ev.at + 1) .. cursor' /\ cursor' \in Int
        BY <1>1, <2>2, <3>2
      <4>1. p \in Int /\ ev.at < p /\ p <= cursor'
        BY <3>1, <4>0
      <4>2. p \in (n + 1) .. cursor'
        BY <1>1, <2>2, <3>1, <4>1
      <4>3. p <= ev.pts
        BY <2>2, <3>2, <4>2
      <4> QED
        BY <3>1, <4>1, <4>3
    <3> QED
      BY <2>2, <3>1, <3>2
  <2> QED
    BY <1>3, <2>1, <2>2 DEF Drained
<1> QED
  BY <1>3 DEF NothingSkipped, NoOlder

\* Whatever order events and answers come in, each view of the device shows
\* all that its number says it has seen (convOnChange, syncOnce, applyList).
THEOREM NoViewSkipsANumber == Spec => []NothingSkipped
<1>1. Init => NothingSkipped /\ NoOlder
  BY DEF Init, NothingSkipped, NoOlder, Never
<1>2. SyncInv /\ NothingSkipped /\ NoOlder /\ [Next]_vars => NothingSkipped' /\ NoOlder'
  <2> SUFFICES ASSUME SyncInv, NothingSkipped, NoOlder, [Next]_vars
               PROVE  NothingSkipped' /\ NoOlder'
    OBVIOUS
  <2> USE DEF serverVars, copyVars
  <2>0. Pts \in Nat /\ cursor \in Never .. Pts
    BY DEF Pts, SyncInv, TypeOK
  <2>1. ASSUME NEW e \in Entities, Commit(e) PROVE NothingSkipped' /\ NoOlder'
    <3>1. UNCHANGED <<cursor, at, fresh>>
      BY <2>1 DEF Commit
    <3>2. \A p \in 1 .. Pts : hist'[p] = hist[p]
      BY <2>1 DEF Commit, Pts, SyncInv, TypeOK
    <3>3. \A x \in Entities : at[x] \in Nat
      BY <2>0 DEF SyncInv, TypeOK
    <3>4. ASSUME NEW x \in Entities, NEW p \in (at[x] + 1) .. cursor
          PROVE  hist'[p] # x
      <4>1. p \in 1 .. Pts
        BY <2>0, <3>3 DEF Never
      <4> QED
        BY <3>2, <4>1 DEF NothingSkipped
    <3> QED
      BY <3>1, <3>4 DEF NothingSkipped, NoOlder
  <2>2. ASSUME UNCHANGED <<hist, cursor, at, fresh>> PROVE NothingSkipped' /\ NoOlder'
    BY <2>2 DEF NothingSkipped, NoOlder
  <2>3. ASSUME NEW p \in unsent, Publish(p) \/ LoseEvent(p) PROVE NothingSkipped' /\ NoOlder'
    BY <2>2, <2>3 DEF Publish, LoseEvent
  <2>4. CASE Prune \/ Break \/ Register \/ Answer \/ FailSync
    BY <2>2, <2>4 DEF Prune, Break, Register, Answer, FailSync
  <2>5. CASE EnsureList \/ Ready \/ NoticeLost \/ Retry \/ Poll
    BY <2>2, <2>5 DEF EnsureList, Ready, NoticeLost, Retry, Poll
  <2>6. CASE Leave
    BY <2>6 DEF Leave, NothingSkipped, NoOlder, Never
  <2>7. CASE Hydrate
    <3>1. PICK n \in 0 .. Pts :
            cursor' = n /\ at' \in [Entities -> n .. Pts] /\ fresh' = [e \in Entities |-> n]
      BY <2>7 DEF Hydrate
    <3>2. \A e \in Entities : at'[e] \in n .. Pts /\ fresh'[e] = n
      BY <3>1
    <3> QED
      BY <2>0, <3>1, <3>2 DEF NothingSkipped, NoOlder
  <2>8. ASSUME NEW ev \in inbox, OnChange(ev) PROVE NothingSkipped' /\ NoOlder'
    <3>1. CASE UNCHANGED copyVars
      BY <2>2, <2>8, <3>1 DEF OnChange
    <3>2. CASE EventDecision(ev) = "apply"
      <4>1. /\ ev.pts = cursor + 1 /\ cursor # Never
            /\ ev.pts \in 1 .. Pts /\ ev.at \in Int /\ ev.pts <= ev.at
        <5>1. ev.pts \in 1 .. MaxPts /\ ev.at \in 1 .. MaxPts /\ ev.pts <= ev.at /\ ev.at <= Pts
          BY DEF SyncInv, TypeOK, NoNews, Events
        <5> QED
          BY <2>0, <3>2, <5>1, SyncAssumption DEF EventDecision
      <4> DEFINE about == hist[ev.pts]
      <4>2. /\ cursor' = ev.pts /\ hist' = hist
            /\ IF ev.pts > fresh[about]
               THEN /\ at' = [at EXCEPT ![about] = ev.at]
                    /\ fresh' = [fresh EXCEPT ![about] = ev.pts]
               ELSE UNCHANGED <<at, fresh>>
        BY <2>8, <3>2 DEF OnChange
      <4>3. \A e \in Entities : at[e] \in Int /\ fresh[e] \in Int /\ fresh[e] <= at[e]
        BY <2>0 DEF NoOlder, SyncInv, TypeOK, Never
      <4>4. ASSUME NEW e \in Entities, e # about
            PROVE  fresh'[e] <= at'[e] /\ \A p \in (at'[e] + 1) .. cursor' : hist[p] # e
        <5>1. at'[e] = at[e] /\ fresh'[e] = fresh[e]
          BY <4>2, <4>4 DEF SyncInv, TypeOK
        <5>2. ASSUME NEW p \in (at[e] + 1) .. ev.pts PROVE hist[p] # e
          <6>1. p = ev.pts \/ p \in (at[e] + 1) .. cursor
            BY <2>0, <4>1, <4>3 DEF Never
          <6> QED
            BY <4>4, <6>1 DEF NothingSkipped
        <5> QED
          BY <4>2, <4>3, <5>1, <5>2
      <4>5. ASSUME about \in Entities
            PROVE  fresh'[about] <= at'[about] /\ at'[about] \in Int /\ cursor' <= at'[about]
        <5>1. CASE ev.pts > fresh[about]
          BY <4>1, <4>2, <4>5, <5>1 DEF SyncInv, TypeOK
        <5>2. CASE ~ (ev.pts > fresh[about])
          BY <4>1, <4>2, <4>3, <4>5, <5>2
        <5> QED
          BY <5>1, <5>2
      <4>6. ASSUME about \in Entities, NEW p \in (at'[about] + 1) .. cursor' PROVE FALSE
        <5>1. cursor' \in Int
          BY <4>1, <4>2
        <5> QED
          BY <4>5, <4>6, <5>1
      <4> HIDE DEF about
      <4> QED
        BY <4>2, <4>4, <4>5, <4>6 DEF NothingSkipped, NoOlder
    <3> QED
      BY <2>8, <3>1, <3>2 DEF OnChange
  <2>9. CASE TakePage
    <3>1. PICK a \in [Entities -> 0 .. Pts], f \in [Entities -> Never .. Pts] :
            /\ \A e \in Entities : f[e] <= a[e]
            /\ RightUpTo(sync.end, a)
            /\ sync.end \in 0 .. Pts
            /\ \/ cursor' = sync.end /\ at' = a /\ fresh' = f
               \/ Finish(sync.end, a, f)
            /\ UNCHANGED <<serverVars, conn, inbox, gateway, retry>>
      BY <2>9, PageTaken
    <3>2. CASE cursor' = sync.end /\ at' = a /\ fresh' = f
      BY <3>1, <3>2 DEF NothingSkipped, NoOlder, RightUpTo
    <3>3. CASE Finish(sync.end, a, f)
      BY <3>1, <3>3, RoundEnds, DrainKeepsRight
    <3> QED
      BY <3>1, <3>2, <3>3
  <2>10. CASE TakeList
    <3>1. PICK n \in 0 .. Pts, a \in [Entities -> 0 .. Pts], f \in [Entities -> Never .. Pts] :
            /\ \A e \in Entities : f[e] <= a[e]
            /\ RightUpTo(n, a)
            /\ Finish(n, a, f)
            /\ UNCHANGED <<serverVars, conn, inbox, gateway, retry>>
      BY <2>10, ListTaken
    <3> QED
      BY <3>1, RoundEnds, DrainKeepsRight
  <2>11. CASE UNCHANGED vars
    BY <2>2, <2>11 DEF vars
  <2> QED
    BY <2>1, <2>3, <2>4, <2>5, <2>6, <2>7, <2>8, <2>9, <2>10, <2>11 DEF Next, DeviceStep
<1> QED
  BY <1>1, <1>2, SyncInvHolds, PTL DEF Spec

\* A device that is not live, with the gateway up, has a request at work or
\* the retry timer set: no way through runSync, scheduleRetry and the end of a
\* round leaves it waiting for nobody.
THEOREM NobodyWaitsForNobody == Spec => []SomebodyActs
<1>1. Init => SomebodyActs
  BY DEF Init, SomebodyActs
<1>2. SyncInv /\ SyncInv' /\ SomebodyActs /\ [Next]_vars => SomebodyActs'
  <2> SUFFICES ASSUME SyncInv, SyncInv', SomebodyActs, [Next]_vars PROVE SomebodyActs'
    OBVIOUS
  <2> USE DEF SomebodyActs, runVars
  <2>0. AskSync # Off /\ AskList # Off /\ AskFirst # Off
        /\ (sync'.stage \in {"page", "list"} => sync' # Off)
    BY DEF AskSync, AskList, AskFirst, Off
  <2>1. ASSUME UNCHANGED <<phase, sync, retry, gateway>> PROVE SomebodyActs'
    BY <2>1
  <2>2. ASSUME NEW e \in Entities, Commit(e) PROVE SomebodyActs'
    BY <2>1, <2>2 DEF Commit
  <2>3. ASSUME NEW p \in unsent, Publish(p) \/ LoseEvent(p) PROVE SomebodyActs'
    BY <2>1, <2>3 DEF Publish, LoseEvent
  <2>4. CASE Prune \/ Break
    BY <2>1, <2>4 DEF Prune, Break
  <2>5. CASE Register
    BY <2>5 DEF Register
  <2>6. CASE Answer
    <3>1. sync' # Off
      BY <2>0, <2>6, AnswerIs
    <3> QED
      BY <3>1
  <2>7. CASE FailSync
    BY <2>7 DEF FailSync
  <2>8. ASSUME NEW force \in BOOLEAN, RunSync(force) PROVE sync' # Off
    BY <2>0, <2>8 DEF RunSync
  <2>9. CASE EnsureList \/ Ready \/ NoticeLost \/ Retry \/ Poll
    BY <2>8, <2>9 DEF EnsureList, Ready, NoticeLost, Retry, Poll
  <2>10. CASE Leave
    BY <2>10 DEF Leave
  <2>11. CASE Hydrate
    BY <2>11 DEF Hydrate
  <2>12. ASSUME NEW ev \in inbox, OnChange(ev) PROVE SomebodyActs'
    BY <2>8, <2>12 DEF OnChange
  <2>13. ASSUME NEW n, NEW a, NEW f, Finish(n, a, f), gateway' = gateway PROVE SomebodyActs'
    BY <2>0, <2>13 DEF Finish
  <2>14. CASE TakePage
    BY <2>0, <2>13, <2>14, PageTaken
  <2>15. CASE TakeList
    BY <2>13, <2>15, ListTaken
  <2>16. CASE UNCHANGED vars
    BY <2>1, <2>16 DEF vars
  <2> QED
    BY <2>2, <2>3, <2>4, <2>5, <2>6, <2>7, <2>9, <2>10, <2>11, <2>12, <2>14, <2>15, <2>16
       DEF Next, DeviceStep
<1> QED
  BY <1>1, <1>2, SyncInvHolds, PTL DEF Spec

\* A device that is live and connected misses nothing that is not on its way
\* or was never sent: a snapshot too old for the connection is followed by one
\* more round (convOnReady), and nothing is dropped at the end of a round.
THEOREM LiveDeviceMissesNothing == Spec => []LiveMissesNothing
<1> USE DEF AnswerAccounted
<1>1. Init => AnswerAccounted
  BY DEF Init
<1>2. SyncInv /\ SyncInv' /\ AnswerAccounted /\ [Next]_vars => AnswerAccounted'
  <2> SUFFICES ASSUME SyncInv, SyncInv', AnswerAccounted, [Next]_vars, conn', gateway' = "up"
               PROVE  /\ phase' = "live" => Accounted(cursor)'
                      /\ (sync'.stage \in {"page", "list"} /\ ~ again') => Accounted(sync.at)'
    OBVIOUS
  <2> USE DEF serverVars, copyVars, runVars
  <2> DEFINE Goal == /\ phase' = "live" => Accounted(cursor)'
                     /\ (sync'.stage \in {"page", "list"} /\ ~ again') => Accounted(sync.at)'
  <2>0. /\ Pts \in Nat /\ (hist' = hist => Pts' = Pts)
        /\ cursor \in Int /\ (sync.stage \in {"page", "list"} => sync.at \in 0 .. Pts)
        /\ AskSync.stage = "ask" /\ AskList.stage = "askList" /\ Off.stage = "off"
        /\ (sync # Off => phase # "live") /\ (sync' # Off => phase' # "live")
        /\ (phase' = "live" => sync' = Off)
    <3>1. Pts \in Nat /\ cursor \in Never .. Pts /\ sync \in Rounds(Pts)
      BY DEF SyncInv, TypeOK, Pts
    <3> QED
      BY <3>1, RoundStages DEF SyncInv, Phases, Pts, Never, AskSync, AskList, Off
  <2>1. ASSUME NEW n \in Int, Accounted(n), hist' = hist,
               unsent \cup Numbers(inbox) \cup lost \cup Numbers(buffer)
                 \subseteq unsent' \cup Numbers(inbox') \cup lost' \cup Numbers(buffer')
        PROVE  /\ cursor' = n => Accounted(cursor)'
               /\ sync'.at = n => Accounted(sync.at)'
    BY <2>0, <2>1 DEF Accounted
  <2>2. ASSUME conn, gateway = "up", UNCHANGED <<hist, cursor, sync, phase>>, again' <=> again,
               unsent \cup Numbers(inbox) \cup lost \cup Numbers(buffer)
                 \subseteq unsent' \cup Numbers(inbox') \cup lost' \cup Numbers(buffer')
        PROVE  Goal
    BY <2>0, <2>1, <2>2
  <2>3. ASSUME NEW e \in Entities, Commit(e) PROVE Goal
    <3>1. Pts' = Pts + 1 /\ unsent' = unsent \cup {Pts + 1}
          /\ UNCHANGED <<lost, conn, inbox, gateway, buffer, cursor, phase, sync, again>>
      <4>1. hist \in Seq(Entities)
        BY DEF SyncInv, TypeOK
      <4>2. hist' = Append(hist, e)
        BY <2>3 DEF Commit
      <4>3. Pts' = Pts + 1
        BY <4>1, <4>2 DEF Pts
      <4> QED
        BY <2>3, <4>3 DEF Commit
    <3>2. ASSUME NEW n \in Int, Accounted(n)
          PROVE  (n + 1) .. Pts' \subseteq unsent' \cup Numbers(inbox) \cup lost \cup Numbers(buffer)
      BY <2>0, <3>1, <3>2 DEF Accounted
    <3> QED
      BY <2>0, <3>1, <3>2 DEF Accounted
  <2>4. ASSUME NEW p \in unsent, Publish(p) PROVE Goal
    <3>1. /\ UNCHANGED <<hist, cursor, sync, phase, again, conn, gateway, lost, buffer>>
          /\ unsent' = unsent \ {p} /\ inbox' = inbox \cup {[pts |-> p, at |-> Pts]}
      BY <2>4 DEF Publish
    <3>2. Numbers(inbox) \cup {p} \subseteq Numbers(inbox')
      <4> DEFINE ev == [pts |-> p, at |-> Pts]
      <4>1. ev.pts = p /\ inbox' = inbox \cup {ev}
        BY <3>1
      <4> HIDE DEF ev
      <4> QED
        BY <4>1 DEF Numbers
    <3> QED
      BY <2>2, <3>1, <3>2
  <2>5. ASSUME NEW p \in unsent, LoseEvent(p) PROVE Goal
    BY <2>2, <2>5 DEF LoseEvent
  <2>6. CASE Prune
    BY <2>2, <2>6 DEF Prune
  <2>7. CASE Break \/ Register \/ NoticeLost \/ Leave \/ Hydrate
    BY <2>7 DEF Break, Register, NoticeLost, Leave, Hydrate
  <2>8. CASE Answer
    <3>1. UNCHANGED <<hist, unsent, lost, conn, inbox, gateway, buffer, cursor, phase, again>>
      BY <2>8 DEF Answer
    <3>2. sync # Off /\ (sync'.stage \in {"page", "list"} => sync'.at = Pts)
      BY <2>0, <2>8, AnswerIs DEF AskSync, AskList, AskFirst, Off
    <3>3. (Pts + 1) .. Pts = {}
      BY <2>0
    <3> QED
      BY <2>0, <3>1, <3>2, <3>3 DEF Accounted
  <2>9. CASE FailSync
    BY <2>0, <2>9 DEF FailSync
  <2>10. ASSUME NEW force \in BOOLEAN, RunSync(force)
         PROVE  /\ phase' # "live"
                /\ \/ sync'.stage \notin {"page", "list"}
                   \/ sync' = sync /\ (force => again') /\ (~ force => (again' <=> again)) /\ phase' = phase
    BY <2>0, <2>10, RunSyncDoes DEF SyncInv, TypeOK
  <2>11. CASE Ready
    BY <2>10, <2>11 DEF Ready
  <2>12. CASE EnsureList \/ Retry \/ Poll
    <3>1. UNCHANGED <<hist, unsent, lost, conn, inbox, gateway, buffer, cursor>>
      BY <2>12 DEF EnsureList, Retry, Poll
    <3>2. \E force \in BOOLEAN : RunSync(force)
      BY <2>12 DEF EnsureList, Retry, Poll
    <3> QED
      BY <2>1, <2>0, <2>10, <3>1, <3>2
  <2>13. ASSUME NEW ev \in inbox, OnChange(ev) PROVE Goal
    <3>1. inbox' = inbox \ {ev} /\ UNCHANGED <<serverVars, conn, gateway>>
      BY <2>13 DEF OnChange
    <3>2. Numbers(inbox) \subseteq Numbers(inbox') \cup {ev.pts}
      BY <3>1 DEF Numbers
    <3>3. CASE EventDecision(ev) = "buffer" /\ buffer' = Buffered(ev) /\ UNCHANGED <<copyVars, runVars>>
      <4>1. Numbers(buffer) \cup {ev.pts} \subseteq Numbers(buffer')
        BY <3>3 DEF Buffered, Numbers
      <4> QED
        BY <2>2, <3>1, <3>2, <3>3, <4>1
    <3>4. CASE EventDecision(ev) = "skip" /\ UNCHANGED <<buffer, copyVars, runVars>>
      <4>1. phase = "live" /\ ev.pts <= cursor /\ ev.pts \in Int
        BY <3>4 DEF EventDecision, SyncInv, TypeOK, Events
      <4>2. Accounted(cursor)'
        BY <2>0, <3>1, <3>2, <3>4, <4>1 DEF Accounted
      <4>3. sync' = Off
        BY <2>0, <3>4, <4>1
      <4> QED
        BY <2>0, <4>2, <4>3
    <3>5. CASE EventDecision(ev) = "apply" /\ cursor' = ev.pts /\ UNCHANGED <<buffer, runVars>>
      <4>1. phase = "live" /\ ev.pts = cursor + 1
        BY <3>5 DEF EventDecision
      <4>2. Accounted(cursor)'
        BY <2>0, <3>1, <3>2, <3>5, <4>1 DEF Accounted
      <4>3. sync' = Off
        BY <2>0, <3>5, <4>1
      <4> QED
        BY <2>0, <4>2, <4>3
    <3>6. CASE EventDecision(ev) = "gap" /\ RunSync(TRUE)
      BY <2>10, <3>6
    <3> QED
      BY <2>13, <3>3, <3>4, <3>5, <3>6 DEF OnChange
  <2>14. ASSUME NEW n \in 0 .. Pts, NEW a \in [Entities -> 0 .. Pts], NEW f \in [Entities -> Never .. Pts],
                Finish(n, a, f), UNCHANGED <<serverVars, conn, inbox, gateway, retry>>,
                sync.stage \in {"page", "list"}, sync.at <= n
         PROVE  Goal
    <3>1. Drained(n, a, f)
      BY <2>14, RoundEnds
    <3>2. sync'.stage \notin {"page", "list"} /\ (phase' = "live" => buffer' = {} /\ ~ again)
      BY <2>0, <2>14 DEF Finish
    <3>3. CASE phase' = "live"
      <4>1. Accounted(sync.at)
        BY <2>14, <3>2, <3>3
      <4>2. cursor' \in n .. Pts /\ \A ev \in buffer : ev.pts \in Int /\ ~ (ev.pts > cursor')
        BY <3>1, <3>2, <3>3 DEF Drained, SyncInv, TypeOK, Events
      <4>3. ASSUME NEW p \in (cursor' + 1) .. Pts
            PROVE  p \in (sync.at + 1) .. Pts /\ p \notin Numbers(buffer)
        <5>0. Pts \in Int /\ n \in Int
          BY <2>0
        <5>a. PICK c \in n .. Pts : c = cursor'
          BY <4>2
        <5>b. c \in Int
          BY <5>0
        <5>c. n <= c
          BY <5>0
        <5>d. p \in (c + 1) .. Pts
          BY <5>a
        <5>1. p \in Int /\ c < p /\ p <= Pts
          BY <5>0, <5>b, <5>d
        <5>2. sync.at \in Int /\ sync.at <= n
          BY <2>0, <2>14
        <5>3. p \in (sync.at + 1) .. Pts
          BY <5>0, <5>b, <5>c, <5>1, <5>2
        <5>4. ASSUME NEW ev \in buffer PROVE ev.pts # p
          <6>1. ev.pts \in Int /\ ~ (ev.pts > c)
            BY <4>2, <5>a
          <6> QED
            BY <5>b, <5>1, <6>1
        <5> QED
          BY <5>3, <5>4 DEF Numbers
      <4> QED
        BY <2>0, <2>14, <3>2, <4>1, <4>3 DEF Accounted
    <3> QED
      BY <3>2, <3>3
  <2>15. CASE TakePage
    <3>1. PICK a \in [Entities -> 0 .. Pts], f \in [Entities -> Never .. Pts] :
            /\ sync.end \in 0 .. Pts /\ sync.stage = "page"
            /\ \/ sync' = AskSync /\ UNCHANGED phase
               \/ ~ sync.more /\ Finish(sync.end, a, f)
            /\ UNCHANGED <<serverVars, conn, inbox, gateway, retry>>
      BY <2>15, PageTaken
    <3>2. CASE sync' = AskSync /\ UNCHANGED phase
      BY <2>0, <3>1, <3>2
    <3>3. CASE ~ sync.more /\ Finish(sync.end, a, f)
      <4>1. sync.at = sync.end
        BY <3>1, <3>3 DEF SyncInv, NoNews
      <4>2. sync.at <= sync.end
        BY <2>0, <3>1, <4>1
      <4> QED
        BY <2>14, <3>1, <3>3, <4>2
    <3> QED
      BY <3>1, <3>2, <3>3
  <2>16. CASE TakeList
    BY <2>14, <2>16, ListTaken
  <2>17. CASE UNCHANGED vars
    BY <2>2, <2>17 DEF vars
  <2> QED
    BY <2>3, <2>4, <2>5, <2>6, <2>7, <2>8, <2>9, <2>11, <2>12, <2>13, <2>15, <2>16, <2>17
       DEF Next, DeviceStep
<1>3. SyncInv /\ AnswerAccounted => LiveMissesNothing
  BY DEF SyncInv, Phases, Accounted, Numbers, LiveMissesNothing
<1> QED
  BY <1>1, <1>2, <1>3, SyncInvHolds, PTL DEF Spec
=============================================================================
