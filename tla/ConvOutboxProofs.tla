-------------------------- MODULE ConvOutboxProofs --------------------------
(***************************************************************************)
(* The promises of the sending queue (ConvOutbox), proved for any number   *)
(* of tabs, messages, attempts and troubles.  They are one inductive       *)
(* invariant, OutboxInv.  Ten of the nineteen actions only send: they are  *)
(* shown to be calm steps, and calm steps to keep the invariant; each of   *)
(* the other nine has a lemma of its own.                                  *)
(***************************************************************************)
EXTENDS ConvOutbox, WellFoundedInduction, TLAPS

\* The rows, and what pump can be busy with.
RowSet == [key : Keys, status : {"sending", "failed"}, attempts : Nat, waits : BOOLEAN,
           net : BOOLEAN, uploaded : BOOLEAN, file : BOOLEAN]
Sends == [key : Keys, at : {"upload", "wire", "accepted"}]

\* The type invariant of the queue.
OutboxTypeOK ==
    /\ up \in [Tabs -> BOOLEAN]
    /\ box \in [Tabs -> Seq(RowSet)]
    /\ pump \in [Tabs -> {Idle} \cup Sends]
    /\ timer \in [Tabs -> BOOLEAN]
    /\ cancelled \in [Tabs -> SUBSET Keys]
    /\ loading \in [Tabs -> {Loaded} \cup [at : {"read"}, rows : Seq(RowSet)]]
    /\ leader \in Tabs \cup {Nobody} /\ behind \in SUBSET Tabs
    /\ disk \in Seq(RowSet)
    /\ server \in Seq(Keys)
    /\ gone \in SUBSET Keys /\ stray \in SUBSET Keys /\ deleting \in SUBSET Keys
    /\ written \in 0 .. MaxKeys
    /\ by \in [Keys -> Tabs \cup {Nobody}]
    /\ had \in [Tabs -> SUBSET Keys]
    /\ discarded \in SUBSET Keys /\ failedOnce \in SUBSET Keys /\ untold \in SUBSET Keys
    /\ tangled \in SUBSET Keys /\ unsaved \in SUBSET Keys

\* Rows stand in the order in which they were written.
Ascending(rows) == \A i, j \in DOMAIN rows : i < j => rows[i].key < rows[j].key

----------------------------------------------------------------------------
(* Lists of rows.                                                          *)

\* A set of numbers has a least one.
LEMMA Smallest ==
    ASSUME NEW T, T \subseteq Nat, T # {}
    PROVE  \E n \in T : \A k \in T : n <= k
<1> DEFINE Less == OpToRel(<, Nat)
<1>1. \A k, n \in Nat : k < n => <<k, n>> \in Less
  BY DEF OpToRel
<1>2. IsWellFoundedOn(Less, Nat)
  BY NatLessThanWellFounded
<1> HIDE DEF Less
<1>3. PICK n \in T : \A k \in T : ~ (<<k, n>> \in Less)
  BY <1>2, WFMin, Zenon
<1>4. ASSUME NEW k \in T PROVE n <= k
  <2>1. ~ (k < n) /\ k \in Nat /\ n \in Nat
    BY <1>1, <1>3
  <2> QED
    BY <2>1
<1> QED
  BY <1>4

\* nextToSend finds a row when there is one to be sent.
LEMMA HeadExists ==
    ASSUME NEW rows \in Seq(RowSet), Sending(rows) # {}
    PROVE  NextToSend(rows) # {}
<1>1. Sending(rows) \subseteq Nat
  BY DEF Sending
<1>2. PICK i \in Sending(rows) : \A j \in Sending(rows) : i <= j
  BY <1>1, Smallest
<1> QED
  BY <1>2 DEF NextToSend

\* What is changed in the rows leaves their keys and their order alone.
LEMMA SameKeys ==
    ASSUME NEW rows \in Seq(RowSet), NEW new, DOMAIN new = DOMAIN rows,
           new = [i \in DOMAIN new |-> new[i]],
           \A i \in DOMAIN rows : new[i] \in RowSet /\ new[i].key = rows[i].key
    PROVE  /\ new \in Seq(RowSet)
           /\ Ascending(rows) => Ascending(new)
           /\ RowKeys(new) = RowKeys(rows)
<1>1. new \in Seq(RowSet)
  BY Len(rows) \in Nat, DOMAIN rows = 1 .. Len(rows)
<1> QED
  BY <1>1 DEF Ascending, RowKeys

\* A row taken out: the others stay, in their order.
LEMMA WithoutDoes ==
    ASSUME NEW rows \in Seq(RowSet), Ascending(rows), NEW k \in Keys
    PROVE  /\ Without(rows, k) \in Seq(RowSet)
           /\ Ascending(Without(rows, k))
           /\ RowKeys(Without(rows, k)) = RowKeys(rows) \ {k}
           /\ \A i \in DOMAIN Without(rows, k) : \E j \in DOMAIN rows : Without(rows, k)[i] = rows[j]
<1>1. CASE k \notin RowKeys(rows)
  BY <1>1 DEF Without
<1>2. CASE k \in RowKeys(rows)
  <2> DEFINE p == Place(rows, k)
             new == Without(rows, k)
  <2>1. p \in DOMAIN rows /\ rows[p].key = k
    BY <1>2 DEF Place, RowKeys
  <2>2. DOMAIN rows = 1 .. Len(rows) /\ Len(rows) \in Nat /\ Len(rows) >= 1
    BY <2>1
  <2>3. new = [i \in 1 .. Len(rows) - 1 |-> IF i < p THEN rows[i] ELSE rows[i + 1]]
    BY <1>2 DEF Without
  <2> HIDE DEF new, p
  <2>4. Len(rows) - 1 \in Nat /\ \A i \in 1 .. Len(rows) - 1 : new[i] \in RowSet
    BY <2>2, <2>3, <2>1
  <2>5. new \in Seq(RowSet) /\ DOMAIN new = 1 .. Len(rows) - 1
    BY <2>3, <2>4
  <2>6. \A i \in DOMAIN rows : rows[i].key \in Nat
    <3>1. \A i \in DOMAIN rows : rows[i] \in RowSet
      BY <2>2
    <3> QED
      BY <3>1, OutboxAssumption DEF RowSet, Keys
  <2>7. Ascending(new)
    <3> SUFFICES ASSUME NEW i \in DOMAIN new, NEW j \in DOMAIN new, i < j
                 PROVE  new[i].key < new[j].key
      BY DEF Ascending
    <3> DEFINE from(n) == IF n < p THEN n ELSE n + 1
    <3>1. from(i) \in DOMAIN rows /\ from(j) \in DOMAIN rows /\ from(i) < from(j)
      BY <2>1, <2>2, <2>5
    <3>2. new[i] = rows[from(i)] /\ new[j] = rows[from(j)]
      BY <2>3, <2>5
    <3> QED
      BY <3>1, <3>2 DEF Ascending
  <2>8. \A i \in DOMAIN new : \E j \in DOMAIN rows : new[i] = rows[j]
    BY <2>2, <2>3, <2>5, <2>1
  <2>9. RowKeys(new) \subseteq RowKeys(rows) \ {k}
    <3> SUFFICES ASSUME NEW i \in DOMAIN new
                 PROVE  new[i].key \in RowKeys(rows) /\ new[i].key # k
      BY DEF RowKeys
    <3>1. i \in DOMAIN rows /\ i + 1 \in DOMAIN rows /\ i \in Nat /\ p \in Nat
      BY <2>1, <2>2, <2>5
    <3>2. CASE i < p
      <4>1. new[i] = rows[i]
        BY <2>3, <2>5, <3>2
      <4>2. rows[i].key < rows[p].key
        BY <2>1, <3>1, <3>2 DEF Ascending
      <4> QED
        BY <2>1, <2>6, <3>1, <4>1, <4>2 DEF RowKeys
    <3>3. CASE ~ (i < p)
      <4>1. new[i] = rows[i + 1]
        BY <2>3, <2>5, <3>3
      <4>2. rows[p].key < rows[i + 1].key
        BY <2>1, <3>1, <3>3 DEF Ascending
      <4> QED
        BY <2>1, <2>6, <3>1, <4>1, <4>2 DEF RowKeys
    <3> QED
      BY <3>2, <3>3
  <2>10. ASSUME NEW j \in DOMAIN rows, rows[j].key # k
         PROVE  rows[j].key \in RowKeys(new)
    <3>1. CASE j < p
      <4>1. j \in DOMAIN new /\ new[j] = rows[j]
        BY <2>1, <2>2, <2>3, <2>5, <3>1
      <4> QED
        BY <4>1 DEF RowKeys
    <3>2. CASE j > p
      <4>1. j - 1 \in DOMAIN new /\ new[j - 1] = rows[j]
        BY <2>1, <2>2, <2>3, <2>5, <3>2
      <4> QED
        BY <4>1 DEF RowKeys
    <3> QED
      BY <2>1, <2>2, <2>10, <3>1, <3>2
  <2> QED
    BY <2>5, <2>7, <2>8, <2>9, <2>10 DEF new, RowKeys
<1> QED
  BY <1>1, <1>2

\* A new row goes behind the others.
LEMMA AppendDoes ==
    ASSUME NEW rows \in Seq(RowSet), Ascending(rows), NEW x \in RowSet,
           \A k \in RowKeys(rows) : k < x.key
    PROVE  /\ Append(rows, x) \in Seq(RowSet)
           /\ Ascending(Append(rows, x))
           /\ RowKeys(Append(rows, x)) = RowKeys(rows) \cup {x.key}
<1> DEFINE new == Append(rows, x)
<1>1. /\ new \in Seq(RowSet) /\ Len(new) = Len(rows) + 1 /\ new[Len(rows) + 1] = x
      /\ \A i \in 1 .. Len(rows) : new[i] = rows[i]
      /\ DOMAIN new = 1 .. Len(rows) + 1 /\ DOMAIN rows = 1 .. Len(rows) /\ Len(rows) \in Nat
  OBVIOUS
<1> HIDE DEF new
<1>2. Ascending(new)
  BY <1>1 DEF Ascending, RowKeys
<1>3. RowKeys(new) = RowKeys(rows) \cup {x.key}
  <2>1. \A k \in RowKeys(new) : k \in RowKeys(rows) \cup {x.key}
    BY <1>1 DEF RowKeys
  <2>2. \A k \in RowKeys(rows) : k \in RowKeys(new)
    BY <1>1 DEF RowKeys
  <2>3. x.key \in RowKeys(new)
    <3>1. Len(rows) + 1 \in DOMAIN new
      BY <1>1
    <3> QED
      BY <1>1, <3>1 DEF RowKeys
  <2> QED
    BY <2>1, <2>2, <2>3
<1> QED
  BY <1>1, <1>2, <1>3 DEF new

\* What the server has taken it keeps (Accept, StrayArrives).
LEMMA AppendRange ==
    ASSUME NEW s \in Seq(Keys), NEW k \in Keys
    PROVE  Append(s, k) \in Seq(Keys) /\ Range(Append(s, k)) = Range(s) \cup {k}
<1> DEFINE new == Append(s, k)
<1>1. /\ new \in Seq(Keys) /\ Len(new) = Len(s) + 1 /\ new[Len(s) + 1] = k
      /\ \A i \in 1 .. Len(s) : new[i] = s[i]
      /\ DOMAIN new = 1 .. Len(s) + 1 /\ DOMAIN s = 1 .. Len(s) /\ Len(s) \in Nat
  OBVIOUS
<1> HIDE DEF new
<1>2. \A x \in Range(new) : x \in Range(s) \cup {k}
  BY <1>1 DEF Range
<1>3. \A x \in Range(s) : x \in Range(new)
  BY <1>1 DEF Range
<1>4. k \in Range(new)
  <2>1. Len(s) + 1 \in DOMAIN new
    BY <1>1
  <2> QED
    BY <1>1, <2>1 DEF Range
<1> QED
  BY <1>1, <1>2, <1>3, <1>4 DEF new

----------------------------------------------------------------------------
(* The inductive invariant.                                                *)

\* What the properties except: an author who cannot know, a lost row, tabs that wrote over each other.
Excused(k) == k \in untold \cup unsaved \cup tangled
\* A row with such a key may go.
Settled(k) == k \in Range(server) \cup discarded
\* Nobody has to wait for such a message any more.
Past(k) == k \in Range(server) \cup failedOnce \cup discarded \cup unsaved \cup tangled

Pumping(t, k) == pump[t] # Idle /\ pump[t].key = k
LoadKeys(t) == IF loading[t] # Loaded THEN RowKeys(loading[t].rows) ELSE {}

\* A closed page has nothing.
ClosedIsEmpty ==
    \A t \in Tabs : ~ up[t] =>
        box[t] = <<>> /\ pump[t] = Idle /\ ~ timer[t] /\ loading[t] = Loaded /\ had[t] = {} /\ leader # t

\* The lists are in the order of writing, and no key is used before it is written.
Lists ==
    /\ Ascending(disk) /\ RowKeys(disk) \subseteq 1 .. written
    /\ \A t \in Tabs : Ascending(box[t]) /\ RowKeys(box[t]) \subseteq had[t] /\ had[t] \subseteq 1 .. written
    /\ \A t \in Tabs : loading[t] # Loaded =>
           Ascending(loading[t].rows) /\ RowKeys(loading[t].rows) \subseteq 1 .. written
    /\ Range(server) \subseteq 1 .. written
    /\ \A t \in Tabs : pump[t] # Idle =>
           pump[t].key \in had[t] /\ (pump[t].at = "accepted" => pump[t].key \in Range(server))
    /\ stray \subseteq untold /\ stray \subseteq 1 .. written /\ discarded \subseteq 1 .. written

\* A tab loses no row that is not settled.
Kept == \A t \in Tabs : \A k \in had[t] : k \in RowKeys(box[t]) \/ Settled(k)

\* Two tabs have the same row only after they got tangled.
Shared ==
    /\ \A t, o \in Tabs : t # o => had[t] \cap had[o] \subseteq tangled
    /\ \A t, o \in Tabs : leader = t => LoadKeys(t) \cap had[o] \subseteq tangled
    /\ \A t \in Tabs : box[t] # <<>> => LoadKeys(t) \subseteq tangled

\* What the server has, or the author removed, is not sent again.
Once ==
    /\ \A t \in Tabs, k \in Keys : k \in RowKeys(box[t]) /\ k \in Range(server) =>
           Excused(k) \/ (Pumping(t, k) /\ pump[t].at = "accepted")
    /\ \A t \in Tabs, k \in Keys : k \in RowKeys(box[t]) /\ k \in discarded => Excused(k)
    /\ \A k \in RowKeys(disk) : Settled(k) => Excused(k) \/ \E t \in Tabs : k \in had[t]
    /\ \A t \in Tabs : leader = t => \A k \in LoadKeys(t) : Settled(k) => Excused(k)
    /\ \A t \in Tabs, k \in Keys : Pumping(t, k) /\ k \in discarded => k \in cancelled[t] \/ Excused(k)
    /\ \A t \in Tabs, k \in Keys : Pumping(t, k) /\ k \in Range(server) =>
           Excused(k) \/ pump[t].at = "accepted"

\* l has to wait for k.
Before(k, l) == k < l /\ by[k] = by[l] /\ ~ Past(k)

\* Wherever a message is, the one it has to wait for is there too.
InTurn ==
    \A k, l \in Keys : l <= written /\ Before(k, l) =>
        /\ l \notin Range(server) /\ l \notin stray
        /\ \A t \in Tabs : ~ Pumping(t, l)
        /\ \A t \in Tabs : l \in RowKeys(box[t]) => k \in RowKeys(box[t])
        /\ \A t \in Tabs : l \in LoadKeys(t) => k \in LoadKeys(t)
        /\ l \in RowKeys(disk) => k \in RowKeys(disk)

\* Where a row can be found that is not past.
Found ==
    /\ \A k \in 1 .. written, t \in Tabs : by[k] = t /\ up[t] => Past(k) \/ k \in RowKeys(box[t]) \cup LoadKeys(t)
    /\ \A k \in 1 .. written, t \in Tabs : by[k] # t /\ k \in RowKeys(box[t]) => Past(k) \/ k \in RowKeys(disk)
    /\ \A k \in 1 .. written, t \in Tabs : leader = t /\ k \in LoadKeys(t) => Past(k) \/ k \in RowKeys(disk)
    /\ \A t \in Tabs : FailedKeys(box[t]) \subseteq failedOnce

\* The inductive invariant, and in it the four promises.
OutboxInv ==
    /\ OutboxTypeOK /\ ClosedIsEmpty /\ Lists /\ Kept /\ Shared /\ Once /\ InTurn /\ Found
    /\ SomebodySends /\ OrderKept /\ CancelledStaysOut /\ QueueSurvives

----------------------------------------------------------------------------
(* Facts of the invariant.                                                 *)

\* What is remembered does not become less.
LEMMA Growth ==
    ASSUME Range(server) \subseteq Range(server'), discarded \subseteq discarded',
           failedOnce \subseteq failedOnce', untold \subseteq untold',
           tangled \subseteq tangled', unsaved \subseteq unsaved'
    PROVE  \A k : /\ Excused(k) => Excused(k)'
                  /\ Settled(k) => Settled(k)'
                  /\ Past(k) => Past(k)'
BY DEF Excused, Settled, Past

\* The server takes a message whose turn it is: the order is kept.
LEMMA TakenInOrder ==
    ASSUME OutboxInv, NEW m \in Keys, server' = Taken(m),
           m \notin Range(server) =>
             \A k \in Keys : k \in Range(server) /\ m < k /\ by[m] = by[k] => Past(m),
           failedOnce \subseteq failedOnce', discarded \subseteq discarded',
           by' = by, unsaved' = unsaved, tangled' = tangled
    PROVE  OrderKept'
<1>1. CASE server' = server
  BY <1>1 DEF OutboxInv, OrderKept
<1>2. CASE m \notin Range(server) /\ server' = Append(server, m)
  <2>1. server \in Seq(Keys) /\ Len(server) \in Nat
    BY DEF OutboxInv, OutboxTypeOK
  <2> SUFFICES ASSUME NEW i \in DOMAIN server', NEW j \in DOMAIN server', i < j,
                      server'[j] < server'[i], by[server'[i]] = by[server'[j]]
               PROVE  server'[j] \in failedOnce' \cup discarded' \cup unsaved \cup tangled
    BY DEF OrderKept
  <2>2. /\ DOMAIN server = 1 .. Len(server) /\ DOMAIN server' = 1 .. Len(server) + 1
        /\ server'[Len(server) + 1] = m /\ \A n \in 1 .. Len(server) : server'[n] = server[n]
    BY <1>2, <2>1
  <2>3. CASE j <= Len(server)
    <3>1. i \in DOMAIN server /\ j \in DOMAIN server /\ server'[i] = server[i] /\ server'[j] = server[j]
      BY <2>1, <2>2, <2>3
    <3> QED
      BY <3>1 DEF OutboxInv, OrderKept
  <2>4. CASE j = Len(server) + 1
    <3>1. i \in DOMAIN server /\ server'[i] = server[i] /\ server'[j] = m
      BY <2>1, <2>2, <2>4
    <3>2. server[i] \in Range(server) /\ server[i] \in Keys
      BY <2>1, <3>1 DEF Range
    <3>3. Past(m)
      BY <1>2, <3>1, <3>2
    <3> QED
      BY <1>2, <3>1, <3>3 DEF Past
  <2> QED
    BY <2>1, <2>2, <2>3, <2>4
<1> QED
  BY <1>1, <1>2 DEF Taken

\* nextToSend has taken this row: those before it are not to be sent.
Picked(s, rows) ==
    /\ s # Idle /\ s.at # "accepted"
    /\ \E i \in DOMAIN rows :
         /\ rows[i].key = s.key /\ rows[i].status = "sending"
         /\ \A j \in DOMAIN rows : j < i => rows[j].status = "failed"

\* What stands before the row that is picked is "not sent".
LEMMA PickedFirst ==
    ASSUME NEW rows \in Seq(RowSet), Ascending(rows), NEW s, Picked(s, rows)
    PROVE  /\ s.key \in RowKeys(rows)
           /\ \A k \in Keys : k \in RowKeys(rows) /\ k < s.key => k \in FailedKeys(rows)
<1>1. PICK i \in DOMAIN rows :
        rows[i].key = s.key /\ \A j \in DOMAIN rows : j < i => rows[j].status = "failed"
  BY DEF Picked
<1>2. s.key \in RowKeys(rows)
  BY <1>1 DEF RowKeys
<1>3. \A j \in DOMAIN rows : rows[j].key \in Nat /\ j \in Nat
  <2>1. \A j \in DOMAIN rows : rows[j] \in RowSet
    OBVIOUS
  <2> QED
    BY <2>1, OutboxAssumption DEF RowSet, Keys
<1>4. ASSUME NEW j \in DOMAIN rows, rows[j].key < s.key
      PROVE  rows[j].status = "failed"
  <2>1. ~ (i < j) /\ i # j
    BY <1>1, <1>3, <1>4 DEF Ascending
  <2> QED
    BY <1>1, <1>3, <2>1
<1> QED
  BY <1>2, <1>4 DEF RowKeys, FailedKeys

----------------------------------------------------------------------------
(* A step of a tab that only sends: ten of the actions are of this kind.   *)

\* The rows of the tab: none is new, one that goes is settled.
CalmRows(t) ==
    /\ Ascending(box'[t]) /\ RowKeys(box'[t]) \subseteq RowKeys(box[t])
    /\ \A k \in RowKeys(box[t]) \ RowKeys(box'[t]) : k \in Range(server') \cup discarded'
    /\ FailedKeys(box'[t]) \subseteq failedOnce'
    /\ Sending(box'[t]) # {} => pump'[t] # Idle \/ timer'[t]

\* The records of what happened grow, and only by the row that is being sent.
CalmNet(t) ==
    /\ \/ server' = server
       \/ \E k \in Keys \ Range(server) :
            /\ server' = Append(server, k)
            /\ pump[t] # Idle /\ pump[t].key = k
            /\ pump'[t] # Idle /\ pump'[t].key = k /\ pump'[t].at = "accepted"
    /\ failedOnce \subseteq failedOnce'
    /\ discarded \subseteq discarded'
    /\ \A k \in discarded' \ discarded :
         /\ k \in RowKeys(box[t]) \ RowKeys(box'[t])
         /\ Pumping(t, k) => pump'[t] = pump[t] /\ k \in cancelled'[t]
    /\ untold \subseteq untold'
    /\ stray \subseteq stray'
    /\ \A k \in stray' \ stray : Pumping(t, k) /\ k \in untold'
    /\ gone \cup deleting \subseteq gone' \cup deleting'

\* The sending goes on with its row, or ends and the next one is picked.
CalmPump(t) ==
    \/ /\ pump[t] # Idle /\ pump'[t] # Idle /\ pump'[t].key = pump[t].key
       /\ cancelled[t] \subseteq cancelled'[t]
       /\ pump[t].at = "accepted" => pump'[t].at = "accepted"
       /\ pump'[t].at = "accepted" => pump[t].key \in Range(server')
    \/ /\ pump'[t] = Idle \/ Picked(pump'[t], box'[t])
       /\ pump[t] # Idle /\ pump[t].at = "accepted" =>
            /\ pump[t].key \in RowKeys(box'[t]) => pump[t].key \in untold'
            /\ pump[t].key \in cancelled[t] => pump[t].key \in untold' \cup deleting'

\* What the ten actions have in common.
CalmStep(t) ==
    /\ OutboxTypeOK'
    /\ up[t]
    /\ UNCHANGED <<up, loading, leader, behind, disk, had, written, by, tangled, unsaved>>
    /\ \A o \in Tabs \ {t} :
         box'[o] = box[o] /\ pump'[o] = pump[o] /\ cancelled'[o] = cancelled[o] /\ timer'[o] = timer[o]
    /\ CalmRows(t) /\ CalmNet(t) /\ CalmPump(t)

\* The facts of a calm step that every part of the invariant needs.
LEMMA CalmFacts ==
    ASSUME OutboxInv, NEW t \in Tabs, CalmStep(t)
    PROVE  /\ Range(server) \subseteq Range(server') /\ Range(server) \subseteq Keys /\ Range(server') \subseteq Keys
           /\ \A k \in Range(server') \ Range(server) :
                Pumping(t, k) /\ Pumping(t, k)' /\ pump'[t].at = "accepted"
           /\ \A k : Excused(k) => Excused(k)'
           /\ \A k : Settled(k) => Settled(k)'
           /\ \A k : Past(k) => Past(k)'
           /\ \A o \in Tabs : had[o] \subseteq Keys /\ had'[o] = had[o] /\ LoadKeys(o)' = LoadKeys(o)
           /\ \A o \in Tabs : RowKeys(box'[o]) \subseteq RowKeys(box[o])
           /\ \A o \in Tabs : RowKeys(box[o]) \subseteq had[o]
           /\ \A k : Settled(k)' => Settled(k) \/ k \in had[t]
<1>1. /\ Range(server) \subseteq Range(server') /\ Range(server) \subseteq Keys /\ Range(server') \subseteq Keys
      /\ \A k \in Range(server') \ Range(server) :
           Pumping(t, k) /\ Pumping(t, k)' /\ pump'[t].at = "accepted"
  <2>1. server \in Seq(Keys) /\ server' \in Seq(Keys)
    BY DEF OutboxInv, OutboxTypeOK, CalmStep
  <2>2. Range(server) \subseteq Keys /\ Range(server') \subseteq Keys
    BY <2>1 DEF Range
  <2>3. CASE server' = server
    BY <2>2, <2>3
  <2>4. ASSUME NEW k \in Keys \ Range(server), server' = Append(server, k),
               pump[t] # Idle, pump[t].key = k, pump'[t] # Idle, pump'[t].key = k, pump'[t].at = "accepted"
        PROVE  /\ Range(server) \subseteq Range(server')
               /\ \A l \in Range(server') \ Range(server) :
                    Pumping(t, l) /\ Pumping(t, l)' /\ pump'[t].at = "accepted"
    BY <2>1, <2>4, AppendRange DEF Pumping
  <2> QED
    BY <2>2, <2>3, <2>4 DEF CalmStep, CalmNet
<1>2. /\ \A k : Excused(k) => Excused(k)'
      /\ \A k : Settled(k) => Settled(k)'
      /\ \A k : Past(k) => Past(k)'
  BY <1>1 DEF Excused, Settled, Past, CalmStep, CalmNet
<1>3. \A o \in Tabs : had[o] \subseteq Keys /\ had'[o] = had[o] /\ LoadKeys(o)' = LoadKeys(o)
  BY DEF OutboxInv, OutboxTypeOK, CalmStep, LoadKeys
<1>4. \A o \in Tabs : RowKeys(box'[o]) \subseteq RowKeys(box[o])
  BY DEF CalmStep, CalmRows
<1>5. \A o \in Tabs : RowKeys(box[o]) \subseteq had[o]
  BY DEF OutboxInv, Lists
<1>6. \A k : Pumping(t, k) => k \in had[t]
  BY DEF OutboxInv, Lists, Pumping
<1>7. \A k : Settled(k)' => Settled(k) \/ k \in had[t]
  BY <1>1, <1>5, <1>6 DEF Settled, CalmStep, CalmNet
<1> QED
  BY <1>1, <1>2, <1>3, <1>4, <1>5, <1>7

\* A calm step keeps the lists in order and leaves no row asleep.
LEMMA CalmLists ==
    ASSUME OutboxInv, NEW t \in Tabs, CalmStep(t)
    PROVE  ClosedIsEmpty' /\ Lists' /\ Kept' /\ Shared' /\ SomebodySends'
<1> USE CalmFacts
<1>1. ClosedIsEmpty'
  BY DEF OutboxInv, ClosedIsEmpty, CalmStep
<1>2. Lists'
  <2>1. Ascending(disk)' /\ (RowKeys(disk) \subseteq 1 .. written)'
    BY DEF OutboxInv, Lists, CalmStep
  <2>2. \A o \in Tabs : Ascending(box[o])' /\ (RowKeys(box[o]) \subseteq had[o])' /\ (had[o] \subseteq 1 .. written)'
    <3> TAKE o \in Tabs
    <3>1. Ascending(box[o])'
      BY DEF OutboxInv, Lists, CalmStep, CalmRows
    <3> QED
      BY <3>1 DEF OutboxInv, Lists, CalmStep
  <2>3. \A o \in Tabs : (loading[o] # Loaded =>
           Ascending(loading[o].rows) /\ RowKeys(loading[o].rows) \subseteq 1 .. written)'
    BY DEF OutboxInv, Lists, CalmStep
  <2>4. (Range(server) \subseteq 1 .. written)'
    BY DEF OutboxInv, Lists, CalmStep, Pumping
  <2>5. ASSUME NEW o \in Tabs, pump'[o] # Idle
        PROVE  pump'[o].key \in had'[o] /\ (pump'[o].at = "accepted" => pump'[o].key \in Range(server'))
    <3>1. CASE o # t
      BY <2>5, <3>1 DEF OutboxInv, Lists, CalmStep
    <3>2. CASE o = t /\ pump[t] # Idle /\ pump'[t].key = pump[t].key /\
               (pump'[t].at = "accepted" => pump[t].key \in Range(server'))
      BY <2>5, <3>2 DEF OutboxInv, Lists
    <3>3. CASE o = t /\ Picked(pump'[t], box'[t])
      <4>1. pump'[t].key \in RowKeys(box'[t]) /\ pump'[t].at # "accepted"
        BY <3>3 DEF Picked, RowKeys
      <4> QED
        BY <3>3, <4>1
    <3> QED
      BY <2>5, <3>1, <3>2, <3>3 DEF CalmStep, CalmPump
  <2>6. (stray \subseteq untold /\ stray \subseteq 1 .. written /\ discarded \subseteq 1 .. written)'
    <3>1. \A k \in stray' : k \in untold'
      BY DEF OutboxInv, Lists, CalmStep, CalmNet
    <3>2. \A k \in stray' : k \in 1 .. written'
      BY DEF OutboxInv, Lists, CalmStep, CalmNet, Pumping
    <3>3. \A k \in discarded' : k \in 1 .. written'
      BY DEF OutboxInv, Lists, CalmStep, CalmNet
    <3> QED
      BY <3>1, <3>2, <3>3
  <2> QED
    BY <2>1, <2>2, <2>3, <2>4, <2>5, <2>6 DEF Lists
<1>3. Kept'
  <2> SUFFICES ASSUME NEW o \in Tabs, NEW k \in had[o]
               PROVE  k \in RowKeys(box'[o]) \/ Settled(k)'
    BY DEF Kept
  <2>1. k \in RowKeys(box[o]) \/ Settled(k)
    BY DEF OutboxInv, Kept
  <2> QED
    BY <2>1 DEF CalmStep, CalmRows, Settled
<1>4. Shared'
  <2>1. \A o \in Tabs : box'[o] # <<>> => box[o] # <<>>
    <3> SUFFICES ASSUME NEW o \in Tabs, box'[o] # <<>>
                 PROVE  box[o] # <<>>
      OBVIOUS
    <3>1. box[o] \in Seq(RowSet) /\ box'[o] \in Seq(RowSet)
      BY DEF OutboxInv, OutboxTypeOK, CalmStep
    <3>2. 1 \in DOMAIN box'[o]
      BY <3>1
    <3>3. box'[o][1].key \in RowKeys(box'[o])
      BY <3>2 DEF RowKeys
    <3>4. PICK i \in DOMAIN box[o] : box[o][i].key = box'[o][1].key
      BY <3>3 DEF RowKeys
    <3> QED
      BY <3>1, <3>4
  <2> QED
    BY <2>1 DEF OutboxInv, Shared, CalmStep
<1>5. SomebodySends'
  BY DEF OutboxInv, SomebodySends, CalmStep, CalmRows
<1> QED
  BY <1>1, <1>2, <1>3, <1>4, <1>5

\* A calm step sends nothing twice and loses nothing.
LEMMA CalmOnce ==
    ASSUME OutboxInv, NEW t \in Tabs, CalmStep(t)
    PROVE  Once' /\ CancelledStaysOut' /\ QueueSurvives'
<1> USE CalmFacts
\* A key that t has had and o has is tangled.
<1>1. \A o \in Tabs : o # t => \A k : k \in had[t] /\ k \in had[o] => Excused(k)
  BY DEF OutboxInv, Shared, Excused
<1>2. \A o \in Tabs : \A k : Pumping(o, k) => k \in had[o]
  BY DEF OutboxInv, Lists, Pumping
<1>3. \A k \in discarded' \ discarded : k \in RowKeys(box[t]) /\ k \notin RowKeys(box'[t])
  BY DEF CalmStep, CalmNet
\* How the sending of t ended.
<1>4. ASSUME NEW k \in Keys, Pumping(t, k), pump[t].at = "accepted",
             ~ (Pumping(t, k)' /\ pump'[t].at = "accepted")
      PROVE  (k \in RowKeys(box'[t]) => Excused(k)') /\ (k \in cancelled[t] => Excused(k)' \/ k \in deleting')
  BY <1>4 DEF CalmStep, CalmPump, Pumping, Excused
\* A row that is picked.
<1>5. ASSUME NEW k \in Keys, Pumping(t, k)',
             ~ (Pumping(t, k) /\ cancelled[t] \subseteq cancelled'[t] /\ (pump[t].at = "accepted" => pump'[t].at = "accepted"))
      PROVE  k \in RowKeys(box'[t]) /\ pump'[t].at # "accepted"
  <2>1. Picked(pump'[t], box'[t])
    BY <1>5 DEF CalmStep, CalmPump, Pumping
  <2> QED
    BY <1>5, <2>1 DEF Picked, Pumping, RowKeys
<1>6. ASSUME NEW o \in Tabs, NEW k \in Keys, k \in RowKeys(box'[o]), k \in Range(server')
      PROVE  Excused(k)' \/ (Pumping(o, k)' /\ pump'[o].at = "accepted")
  <2>1. CASE k \notin Range(server)
    <3>1. Pumping(t, k) /\ Pumping(t, k)' /\ pump'[t].at = "accepted"
      BY <1>6, <2>1
    <3>2. k \in had[t] /\ k \in had[o]
      BY <1>2, <1>6, <3>1
    <3> QED
      BY <1>1, <3>1, <3>2
  <2>2. CASE k \in Range(server)
    <3>1. Excused(k) \/ (Pumping(o, k) /\ pump[o].at = "accepted")
      BY <1>6, <2>2 DEF OutboxInv, Once
    <3>2. CASE o # t
      BY <3>1, <3>2 DEF CalmStep, Pumping
    <3>3. CASE o = t
      BY <1>4, <1>6, <3>1, <3>3
    <3> QED
      BY <3>2, <3>3
  <2> QED
    BY <2>1, <2>2
<1>7. ASSUME NEW o \in Tabs, NEW k \in Keys, k \in RowKeys(box'[o]), k \in discarded'
      PROVE  Excused(k)'
  BY <1>1, <1>3, <1>7 DEF OutboxInv, Once
<1>8. ASSUME NEW k \in RowKeys(disk'), Settled(k)'
      PROVE  Excused(k)' \/ \E o \in Tabs : k \in had'[o]
  BY <1>8 DEF OutboxInv, Once, CalmStep
<1>9. ASSUME NEW o \in Tabs, leader' = o, NEW k \in LoadKeys(o)', Settled(k)'
      PROVE  Excused(k)'
  <2>1. leader = o /\ k \in LoadKeys(o)
    BY <1>9 DEF CalmStep
  <2> QED
    BY <1>9, <2>1 DEF OutboxInv, Once, Shared, Excused
<1>10. ASSUME NEW o \in Tabs, NEW k \in Keys, Pumping(o, k)', k \in discarded'
       PROVE  k \in cancelled'[o] \/ Excused(k)'
  <2>1. CASE o # t
    <3>1. Pumping(o, k) /\ cancelled'[o] = cancelled[o]
      BY <1>10, <2>1 DEF CalmStep, Pumping
    <3> QED
      BY <1>1, <1>2, <1>3, <1>10, <2>1, <3>1 DEF OutboxInv, Once
  <2>2. CASE o = t /\ k \in discarded
    BY <1>5, <1>10, <2>2 DEF OutboxInv, Once
  <2>3. CASE o = t /\ k \notin discarded
    BY <1>3, <1>5, <1>10, <2>3 DEF CalmStep, CalmNet
  <2> QED
    BY <2>1, <2>2, <2>3
<1>11. ASSUME NEW o \in Tabs, NEW k \in Keys, Pumping(o, k)', k \in Range(server')
       PROVE  Excused(k)' \/ pump'[o].at = "accepted"
  <2>1. CASE o # t
    <3>1. Pumping(o, k) /\ pump'[o] = pump[o]
      BY <1>11, <2>1 DEF CalmStep, Pumping
    <3> QED
      BY <1>1, <1>2, <1>11, <2>1, <3>1 DEF OutboxInv, Once
  <2>2. CASE o = t /\ Pumping(t, k) /\ pump'[t].key = k /\ (pump[t].at = "accepted" => pump'[t].at = "accepted")
    BY <1>11, <2>2 DEF OutboxInv, Once
  <2>3. CASE o = t /\ k \in RowKeys(box'[t])
    BY <1>6, <1>11, <2>3
  <2> QED
    BY <1>5, <1>11, <2>1, <2>2, <2>3 DEF Pumping
<1>12. Once'
  BY <1>6, <1>7, <1>8, <1>9, <1>10, <1>11 DEF Once
<1>13. CancelledStaysOut'
  <2> SUFFICES ASSUME NEW k \in discarded', k \in Range(server'), k \notin gone' \cup deleting' \cup stray',
                      \A o \in Tabs : ~ Pumping(o, k)'
               PROVE  Excused(k)'
    BY DEF CancelledStaysOut, Excused, Pumping
  <2>1. k \in Range(server) /\ k \in Keys
    OBVIOUS
  <2>2. CASE k \notin discarded
    <3>1. k \in RowKeys(box[t])
      BY <1>3, <2>2
    <3>2. Excused(k) \/ Pumping(t, k)
      BY <2>1, <3>1 DEF OutboxInv, Once
    <3> QED
      BY <2>2, <3>2 DEF CalmStep, CalmNet, Pumping
  <2>3. CASE k \in discarded /\ \E o \in Tabs : Pumping(o, k)
    <3>1. Pumping(t, k)
      BY <2>3 DEF CalmStep, Pumping
    <3>2. Excused(k) \/ (k \in cancelled[t] /\ pump[t].at = "accepted")
      BY <2>1, <2>3, <3>1 DEF OutboxInv, Once
    <3> QED
      BY <1>4, <2>1, <3>1, <3>2
  <2>4. CASE k \in discarded /\ \A o \in Tabs : ~ Pumping(o, k)
    <3>1. k \notin gone \cup deleting \cup stray
      BY DEF CalmStep, CalmNet
    <3>2. Excused(k)
      BY <2>1, <2>4, <3>1 DEF OutboxInv, CancelledStaysOut, Excused, Pumping
    <3> QED
      BY <3>2
  <2> QED
    BY <2>2, <2>3, <2>4
<1>14. QueueSurvives'
  <2> SUFFICES ASSUME NEW k \in 1 .. written, ~ Settled(k)'
               PROVE  (\E o \in Tabs : k \in RowKeys(box'[o])) \/ k \in RowKeys(disk) \/ k \in unsaved \cup tangled
    BY DEF QueueSurvives, Settled, CalmStep
  <2>1. ~ Settled(k)
    OBVIOUS
  <2>2. (\E o \in Tabs : k \in RowKeys(box[o])) \/ k \in RowKeys(disk) \/ k \in unsaved \cup tangled
    BY <2>1 DEF OutboxInv, QueueSurvives, Settled
  <2>3. \A o \in Tabs : k \in RowKeys(box[o]) => k \in RowKeys(box'[o])
    BY DEF CalmStep, CalmRows, Settled
  <2> QED
    BY <2>2, <2>3
<1> QED
  BY <1>12, <1>13, <1>14

\* A calm step lets nothing pass what it has to wait for.
LEMMA CalmInTurn ==
    ASSUME OutboxInv, NEW t \in Tabs, CalmStep(t)
    PROVE  InTurn' /\ Found' /\ OrderKept'
<1> USE CalmFacts
<1>1. \A o \in Tabs : \A k : k \in RowKeys(box[o]) /\ ~ Past(k)' => k \in RowKeys(box'[o])
  BY DEF CalmStep, CalmRows, Past
<1>2. \A k, l \in Keys : Before(k, l)' => Before(k, l)
  BY DEF Before, CalmStep
<1>3. InTurn'
  <2> SUFFICES ASSUME NEW k \in Keys, NEW l \in Keys, l <= written, Before(k, l)'
               PROVE  /\ l \notin Range(server') /\ l \notin stray'
                      /\ \A o \in Tabs : ~ Pumping(o, l)'
                      /\ \A o \in Tabs : l \in RowKeys(box'[o]) => k \in RowKeys(box'[o])
                      /\ \A o \in Tabs : l \in LoadKeys(o)' => k \in LoadKeys(o)'
                      /\ l \in RowKeys(disk') => k \in RowKeys(disk')
    BY DEF InTurn, CalmStep
  <2>1. /\ l \notin Range(server) /\ l \notin stray
        /\ \A o \in Tabs : ~ Pumping(o, l)
        /\ \A o \in Tabs : l \in RowKeys(box[o]) => k \in RowKeys(box[o])
        /\ \A o \in Tabs : l \in LoadKeys(o) => k \in LoadKeys(o)
        /\ l \in RowKeys(disk) => k \in RowKeys(disk)
    BY <1>2 DEF OutboxInv, InTurn
  <2>2. ~ Past(k)'
    BY DEF Before
  <2>3. l \notin Range(server') /\ l \notin stray'
    BY <2>1 DEF CalmStep, CalmNet
  <2>4. \A o \in Tabs : l \in RowKeys(box'[o]) => k \in RowKeys(box'[o])
    BY <1>1, <2>1, <2>2
  <2>5. \A o \in Tabs : l \in LoadKeys(o)' => k \in LoadKeys(o)'
    BY <2>1
  <2>6. l \in RowKeys(disk') => k \in RowKeys(disk')
    BY <2>1 DEF CalmStep
  <2>7. ASSUME NEW o \in Tabs, Pumping(o, l)'
        PROVE  FALSE
    <3>1. CASE o # t
      BY <2>1, <2>7, <3>1 DEF CalmStep, Pumping
    <3>2. CASE o = t /\ Picked(pump'[t], box'[t])
      <4>1. box'[t] \in Seq(RowSet) /\ Ascending(box'[t])
        BY DEF CalmStep, CalmRows, OutboxTypeOK
      <4>2. l \in RowKeys(box'[t]) /\ (k \in RowKeys(box'[t]) => k \in FailedKeys(box'[t]))
        BY <2>7, <3>2, <4>1, PickedFirst DEF Before, Pumping
      <4> QED
        BY <2>2, <2>4, <4>2 DEF CalmStep, CalmRows, Past
    <3>3. CASE o = t /\ ~ Picked(pump'[t], box'[t])
      BY <2>1, <2>7, <3>3 DEF CalmStep, CalmPump, Pumping
    <3> QED
      BY <3>1, <3>2, <3>3
  <2> QED
    BY <2>3, <2>4, <2>5, <2>6, <2>7
<1>4. Found'
  <2>1. ASSUME NEW k \in 1 .. written', NEW o \in Tabs, by'[k] = o, up'[o]
        PROVE  Past(k)' \/ k \in RowKeys(box'[o]) \cup LoadKeys(o)'
    <3>1. Past(k) \/ k \in RowKeys(box[o]) \cup LoadKeys(o)
      BY <2>1 DEF OutboxInv, Found, CalmStep
    <3> QED
      BY <1>1, <3>1
  <2>2. ASSUME NEW k \in 1 .. written', NEW o \in Tabs, by'[k] # o, k \in RowKeys(box'[o])
        PROVE  Past(k)' \/ k \in RowKeys(disk')
    <3>1. Past(k) \/ k \in RowKeys(disk)
      BY <2>2 DEF OutboxInv, Found, CalmStep
    <3> QED
      BY <3>1 DEF CalmStep
  <2>3. ASSUME NEW k \in 1 .. written', NEW o \in Tabs, leader' = o, k \in LoadKeys(o)'
        PROVE  Past(k)' \/ k \in RowKeys(disk')
    <3>1. Past(k) \/ k \in RowKeys(disk)
      BY <2>3 DEF OutboxInv, Found, CalmStep
    <3> QED
      BY <3>1 DEF CalmStep
  <2>4. \A o \in Tabs : FailedKeys(box'[o]) \subseteq failedOnce'
    BY DEF OutboxInv, Found, CalmStep, CalmRows, CalmNet
  <2> QED
    BY <2>1, <2>2, <2>3, <2>4 DEF Found
<1>5. OrderKept'
  <2>1. CASE server' = server
    BY <2>1 DEF OutboxInv, OrderKept, CalmStep, CalmNet
  <2>2. CASE server' # server
    <3>1. PICK m \in Keys \ Range(server) : server' = Append(server, m) /\ Pumping(t, m)
      BY <2>2 DEF CalmStep, CalmNet, Pumping
    <3>2. server' = Taken(m)
      BY <3>1 DEF Taken
    <3>3. \A k \in Keys : k \in Range(server) /\ m < k /\ by[m] = by[k] => Past(m)
      <4>1. \A k \in Range(server) : k <= written
        BY DEF OutboxInv, Lists, OutboxTypeOK
      <4> QED
        BY <3>1, <4>1 DEF OutboxInv, InTurn, Before
    <3> QED
      BY <3>2, <3>3, TakenInOrder DEF CalmStep, CalmNet
  <2> QED
    BY <2>1, <2>2
<1> QED
  BY <1>3, <1>4, <1>5

\* A calm step keeps the invariant.
LEMMA CalmKeeps ==
    ASSUME OutboxInv, NEW t \in Tabs, CalmStep(t)
    PROVE  OutboxInv'
<1>1. OutboxTypeOK'
  BY DEF CalmStep
<1> QED
  BY <1>1, CalmLists, CalmOnce, CalmInTurn DEF OutboxInv

----------------------------------------------------------------------------
(* The ten actions are calm steps.                                         *)

\* pump of a tab that sends nothing picks the head, sets a timer, or has nothing to do.
LEMMA PumpDoes ==
    ASSUME OutboxTypeOK, NEW t \in Tabs, NEW rows \in Seq(RowSet), NEW timers \in [Tabs -> BOOLEAN],
           Pump(t, rows, timers)
    PROVE  /\ pump' \in [Tabs -> {Idle} \cup Sends] /\ timer' \in [Tabs -> BOOLEAN]
           /\ \A o \in Tabs \ {t} : pump'[o] = pump[o] /\ timer'[o] = timers[o]
           /\ pump'[t] = Idle \/ Picked(pump'[t], rows)
           /\ Sending(rows) # {} => pump'[t] # Idle \/ timer'[t]
<1>1. CASE NextToSend(rows) = {} /\ pump' = [pump EXCEPT ![t] = Idle] /\ timer' = timers
  BY <1>1, HeadExists DEF OutboxTypeOK
<1>2. ASSUME NEW i \in NextToSend(rows), rows[i].waits,
             pump' = [pump EXCEPT ![t] = Idle], timer' = [timers EXCEPT ![t] = TRUE]
      PROVE  /\ pump' \in [Tabs -> {Idle} \cup Sends] /\ timer' \in [Tabs -> BOOLEAN]
             /\ \A o \in Tabs \ {t} : pump'[o] = pump[o] /\ timer'[o] = timers[o]
             /\ pump'[t] = Idle /\ timer'[t]
  BY <1>2 DEF OutboxTypeOK
<1>3. ASSUME NEW i \in NextToSend(rows), timer' = timers,
             pump' = [pump EXCEPT ![t] = [key |-> rows[i].key,
                                          at |-> IF rows[i].uploaded THEN "wire" ELSE "upload"]]
      PROVE  /\ pump' \in [Tabs -> {Idle} \cup Sends]
             /\ \A o \in Tabs \ {t} : pump'[o] = pump[o]
             /\ pump'[t] # Idle /\ Picked(pump'[t], rows)
  <2> DEFINE s == [key |-> rows[i].key, at |-> IF rows[i].uploaded THEN "wire" ELSE "upload"]
  <2>1. i \in DOMAIN rows /\ rows[i].status = "sending" /\ rows[i] \in RowSet
    BY <1>3 DEF NextToSend, Sending
  <2>2. s \in Sends /\ s.key = rows[i].key /\ s.at \in {"upload", "wire"}
    BY <2>1 DEF Sends, RowSet
  <2>3. s # Idle
    BY <2>2 DEF Idle
  <2>4. \A j \in DOMAIN rows : j < i => rows[j].status = "failed"
    <3> SUFFICES ASSUME NEW j \in DOMAIN rows, j < i, rows[j].status # "failed"
                 PROVE  FALSE
      OBVIOUS
    <3>1. rows[j] \in RowSet
      OBVIOUS
    <3>2. rows[j].status = "sending"
      BY <3>1 DEF RowSet
    <3>3. i <= j /\ i \in Nat /\ j \in Nat
      BY <1>3, <2>1, <3>2 DEF NextToSend, Sending
    <3> QED
      BY <3>3
  <2>5. pump' = [pump EXCEPT ![t] = s]
    BY <1>3
  <2> HIDE DEF s
  <2>6. pump' \in [Tabs -> {Idle} \cup Sends] /\ pump'[t] = s /\ \A o \in Tabs \ {t} : pump'[o] = pump[o]
    BY <2>2, <2>5 DEF OutboxTypeOK
  <2> QED
    BY <2>1, <2>2, <2>3, <2>4, <2>6 DEF Picked
<1> QED
  BY <1>1, <1>2, <1>3 DEF Pump

\* pump after a change: a tab that is sending goes on.
LEMMA PokeDoes ==
    ASSUME OutboxTypeOK, SomebodySends, NEW t \in Tabs, NEW rows \in Seq(RowSet),
           NEW timers \in [Tabs -> BOOLEAN], Poke(t, rows, timers)
    PROVE  /\ box' \in [Tabs -> Seq(RowSet)] /\ box'[t] = rows /\ \A o \in Tabs \ {t} : box'[o] = box[o]
           /\ pump' \in [Tabs -> {Idle} \cup Sends] /\ timer' \in [Tabs -> BOOLEAN]
           /\ \A o \in Tabs \ {t} : pump'[o] = pump[o] /\ timer'[o] = timers[o]
           /\ IF pump[t] # Idle THEN pump'[t] = pump[t] ELSE pump'[t] = Idle \/ Picked(pump'[t], rows)
           /\ Sending(rows) # {} => pump'[t] # Idle \/ timer'[t]
<1>1. box' \in [Tabs -> Seq(RowSet)] /\ box'[t] = rows /\ \A o \in Tabs \ {t} : box'[o] = box[o]
  BY DEF Poke, OutboxTypeOK
<1>2. CASE pump[t] # Idle
  BY <1>1, <1>2 DEF Poke, OutboxTypeOK
<1>3. CASE pump[t] = Idle
  <2>1. Pump(t, rows, timers)
    BY <1>3 DEF Poke
  <2> QED
    BY <1>1, <1>3, <2>1, PumpDoes
<1> QED
  BY <1>2, <1>3

\* The facts of a tab that an action begins with.
LEMMA TabFacts ==
    ASSUME OutboxInv, NEW t \in Tabs
    PROVE  /\ OutboxTypeOK /\ SomebodySends
           /\ box[t] \in Seq(RowSet) /\ Ascending(box[t])
           /\ FailedKeys(box[t]) \subseteq failedOnce
           /\ RowKeys(box[t]) \subseteq had[t] /\ had[t] \subseteq Keys
           /\ pump[t] # Idle => /\ pump[t] \in Sends /\ pump[t].key \in Keys
                                /\ pump[t].key \in had[t] /\ pump[t].key \in 1 .. written
                                /\ pump[t].at = "accepted" => pump[t].key \in Range(server)
           /\ pump[t] # Idle \/ timer[t] => up[t]
BY DEF OutboxInv, OutboxTypeOK, Found, Lists, ClosedIsEmpty, Sends

\* Rows that are only changed: what is not sent yet is not "not sent" more often.
LEMMA SameFailed ==
    ASSUME NEW rows \in Seq(RowSet), NEW new \in Seq(RowSet), DOMAIN new = DOMAIN rows,
           \A i \in DOMAIN rows : new[i].key = rows[i].key /\ (new[i].status = "failed" => rows[i].status = "failed")
    PROVE  FailedKeys(new) \subseteq FailedKeys(rows)
BY DEF FailedKeys

\* A change by which the rows of t stay and no row becomes "not sent".
LEMMA ChangeIsCalm ==
    ASSUME OutboxInv, NEW t \in Tabs, up[t], NEW new, NEW timers \in [Tabs -> BOOLEAN],
           DOMAIN new = DOMAIN box[t], new = [i \in DOMAIN new |-> new[i]],
           \A i \in DOMAIN box[t] :
               /\ new[i] \in RowSet /\ new[i].key = box[t][i].key
               /\ new[i].status = "failed" => box[t][i].status = "failed",
           \A o \in Tabs \ {t} : timers[o] = timer[o],
           Poke(t, new, timers),
           UNCHANGED <<up, cancelled, loading, leader, behind, disk, net, history>>
    PROVE  CalmStep(t)
<1> USE TabFacts
<1>1. new \in Seq(RowSet) /\ Ascending(new) /\ RowKeys(new) = RowKeys(box[t])
  BY SameKeys
<1>2. FailedKeys(new) \subseteq FailedKeys(box[t])
  BY <1>1, SameFailed
<1>3. /\ box' \in [Tabs -> Seq(RowSet)] /\ box'[t] = new /\ \A o \in Tabs \ {t} : box'[o] = box[o]
      /\ pump' \in [Tabs -> {Idle} \cup Sends] /\ timer' \in [Tabs -> BOOLEAN]
      /\ \A o \in Tabs \ {t} : pump'[o] = pump[o] /\ timer'[o] = timers[o]
      /\ IF pump[t] # Idle THEN pump'[t] = pump[t] ELSE pump'[t] = Idle \/ Picked(pump'[t], new)
      /\ Sending(new) # {} => pump'[t] # Idle \/ timer'[t]
  BY <1>1, PokeDoes
<1>4. OutboxTypeOK'
  BY <1>3 DEF OutboxTypeOK, net, history
<1>5. CalmRows(t)
  BY <1>1, <1>2, <1>3 DEF CalmRows, history
<1>6. CalmNet(t)
  BY DEF CalmNet, net, history
<1>7. CalmPump(t)
  BY <1>3 DEF CalmPump, net
<1> QED
  BY <1>3, <1>4, <1>5, <1>6, <1>7 DEF CalmStep, history, net

\* outboxRetry.
LEMMA RetryIsCalm ==
    ASSUME OutboxInv, NEW t \in Tabs, NEW k \in Keys, Retry(t, k)
    PROVE  CalmStep(t)
<1> DEFINE new == Change(box[t], k, Retried)
           timers == [timer EXCEPT ![t] = FALSE]
<1>1. timers \in [Tabs -> BOOLEAN] /\ \A o \in Tabs \ {t} : timers[o] = timer[o]
  BY DEF OutboxInv, OutboxTypeOK
<1>2. \A i \in DOMAIN box[t] : box[t][i] \in RowSet
  BY TabFacts
<1>3. /\ DOMAIN new = DOMAIN box[t] /\ new = [i \in DOMAIN new |-> new[i]]
      /\ \A i \in DOMAIN box[t] :
            /\ new[i] \in RowSet /\ new[i].key = box[t][i].key
            /\ new[i].status = "failed" => box[t][i].status = "failed"
  BY <1>2 DEF Change, Retried, RowSet
<1>4. /\ up[t] /\ Poke(t, new, timers)
      /\ UNCHANGED <<up, cancelled, loading, leader, behind, disk, net, history>>
  BY DEF Retry
<1> HIDE DEF new, timers
<1> QED
  BY <1>1, <1>3, <1>4, ChangeIsCalm

\* The end of a pause.
LEMMA TimerFiresIsCalm ==
    ASSUME OutboxInv, NEW t \in Tabs, TimerFires(t)
    PROVE  CalmStep(t)
<1>1. PICK ready \in SUBSET RowKeys(box[t]) :
        Poke(t, [i \in DOMAIN box[t] |->
                   IF box[t][i].key \in ready THEN [box[t][i] EXCEPT !.waits = FALSE] ELSE box[t][i]],
             [timer EXCEPT ![t] = FALSE])
  BY DEF TimerFires
<1> DEFINE new == [i \in DOMAIN box[t] |->
                     IF box[t][i].key \in ready THEN [box[t][i] EXCEPT !.waits = FALSE] ELSE box[t][i]]
           timers == [timer EXCEPT ![t] = FALSE]
<1>2. timers \in [Tabs -> BOOLEAN] /\ \A o \in Tabs \ {t} : timers[o] = timer[o]
  BY DEF OutboxInv, OutboxTypeOK
<1>3. \A i \in DOMAIN box[t] : box[t][i] \in RowSet
  BY TabFacts
<1>4. /\ DOMAIN new = DOMAIN box[t] /\ new = [i \in DOMAIN new |-> new[i]]
      /\ \A i \in DOMAIN box[t] :
            /\ new[i] \in RowSet /\ new[i].key = box[t][i].key
            /\ new[i].status = "failed" => box[t][i].status = "failed"
  BY <1>3 DEF RowSet
<1>5. /\ up[t] /\ Poke(t, new, timers)
      /\ UNCHANGED <<up, cancelled, loading, leader, behind, disk, net, history>>
  BY <1>1, TabFacts DEF TimerFires
<1> HIDE DEF new, timers
<1> QED
  BY <1>2, <1>4, <1>5, ChangeIsCalm

\* The connection is back.
LEMMA ReconnectIsCalm ==
    ASSUME OutboxInv, NEW t \in Tabs, Reconnect(t)
    PROVE  CalmStep(t)
<1> DEFINE new == [i \in DOMAIN box[t] |-> Revived(box[t][i])]
<1>1. timer \in [Tabs -> BOOLEAN]
  BY DEF OutboxInv, OutboxTypeOK
<1>2. \A i \in DOMAIN box[t] : box[t][i] \in RowSet
  BY TabFacts
<1>3. /\ DOMAIN new = DOMAIN box[t] /\ new = [i \in DOMAIN new |-> new[i]]
      /\ \A i \in DOMAIN box[t] :
            /\ new[i] \in RowSet /\ new[i].key = box[t][i].key
            /\ new[i].status = "failed" => box[t][i].status = "failed"
  BY <1>2 DEF Revived, Retried, RowSet
<1>4. /\ up[t] /\ Poke(t, new, timer)
      /\ UNCHANGED <<up, cancelled, loading, leader, behind, disk, net, history>>
  BY DEF Reconnect
<1> HIDE DEF new
<1> QED
  BY <1>1, <1>3, <1>4, ChangeIsCalm

\* outboxDiscard.
LEMMA DiscardIsCalm ==
    ASSUME OutboxInv, NEW t \in Tabs, NEW k \in Keys, Discard(t, k)
    PROVE  CalmStep(t)
<1> USE TabFacts
<1> DEFINE new == Without(box[t], k)
<1>1. /\ new \in Seq(RowSet) /\ Ascending(new) /\ RowKeys(new) = RowKeys(box[t]) \ {k}
      /\ \A i \in DOMAIN new : \E j \in DOMAIN box[t] : new[i] = box[t][j]
  BY WithoutDoes
<1>2. /\ up[t] /\ k \in RowKeys(box[t]) /\ Poke(t, new, timer)
      /\ cancelled' = IF Pumping(t, k) THEN [cancelled EXCEPT ![t] = @ \cup {k}] ELSE cancelled
      /\ discarded' = discarded \cup {k}
      /\ UNCHANGED <<up, loading, leader, behind, disk, net,
                     written, by, had, failedOnce, untold, tangled, unsaved, troubles>>
  BY DEF Discard, Pumping
<1> HIDE DEF new
<1>3. FailedKeys(new) \subseteq FailedKeys(box[t])
  BY <1>1 DEF FailedKeys
<1>4. timer \in [Tabs -> BOOLEAN]
  BY DEF OutboxTypeOK
<1>5. /\ box' \in [Tabs -> Seq(RowSet)] /\ box'[t] = new /\ \A o \in Tabs \ {t} : box'[o] = box[o]
      /\ pump' \in [Tabs -> {Idle} \cup Sends] /\ timer' \in [Tabs -> BOOLEAN]
      /\ \A o \in Tabs \ {t} : pump'[o] = pump[o] /\ timer'[o] = timer[o]
      /\ IF pump[t] # Idle THEN pump'[t] = pump[t] ELSE pump'[t] = Idle \/ Picked(pump'[t], new)
      /\ Sending(new) # {} => pump'[t] # Idle \/ timer'[t]
  BY <1>1, <1>2, <1>4, PokeDoes
<1>6. /\ cancelled' \in [Tabs -> SUBSET Keys] /\ cancelled[t] \subseteq cancelled'[t]
      /\ Pumping(t, k) => k \in cancelled'[t]
      /\ \A o \in Tabs \ {t} : cancelled'[o] = cancelled[o]
  BY <1>2 DEF OutboxTypeOK
<1>7. OutboxTypeOK'
  BY <1>2, <1>5, <1>6 DEF OutboxTypeOK, net
<1>8. CalmRows(t)
  BY <1>1, <1>2, <1>3, <1>5 DEF CalmRows
<1>9. CalmNet(t)
  BY <1>1, <1>2, <1>5, <1>6 DEF CalmNet, net, Pumping
<1>10. CalmPump(t)
  BY <1>2, <1>5, <1>6 DEF CalmPump, net
<1> QED
  BY <1>2, <1>5, <1>6, <1>7, <1>8, <1>9, <1>10 DEF CalmStep, net

\* The upload is done.
LEMMA UploadDoneIsCalm ==
    ASSUME OutboxInv, NEW t \in Tabs, UploadDone(t)
    PROVE  CalmStep(t)
<1> USE TabFacts
<1> DEFINE k == pump[t].key
           new == [i \in DOMAIN box[t] |->
                     IF box[t][i].key = k THEN [box[t][i] EXCEPT !.uploaded = TRUE] ELSE box[t][i]]
<1>1. /\ pump[t] # Idle /\ pump[t].at = "upload" /\ k \in Keys /\ up[t]
      /\ UNCHANGED <<up, loading, leader, behind, disk, net, history>>
  BY DEF UploadDone
<1>2. CASE k \in RowKeys(box[t])
  <2>1. /\ box' = [box EXCEPT ![t] = new]
        /\ pump' = [pump EXCEPT ![t].at = "wire"] /\ UNCHANGED <<timer, cancelled>>
    BY <1>2 DEF UploadDone, Change
  <2>2. \A i \in DOMAIN box[t] : box[t][i] \in RowSet
    OBVIOUS
  <2>3. /\ DOMAIN new = DOMAIN box[t] /\ new = [i \in DOMAIN new |-> new[i]]
        /\ \A i \in DOMAIN box[t] :
              /\ new[i] \in RowSet /\ new[i].key = box[t][i].key
              /\ new[i].status = "failed" => box[t][i].status = "failed"
    BY <2>2 DEF RowSet
  <2> HIDE DEF new
  <2>4. new \in Seq(RowSet) /\ Ascending(new) /\ RowKeys(new) = RowKeys(box[t])
    BY <2>3, SameKeys
  <2>5. FailedKeys(new) \subseteq FailedKeys(box[t])
    BY <2>3, <2>4, SameFailed
  <2>6. box' \in [Tabs -> Seq(RowSet)] /\ box'[t] = new /\ \A o \in Tabs \ {t} : box'[o] = box[o]
    BY <2>1, <2>4 DEF OutboxTypeOK
  <2>7. /\ pump'[t] \in Sends /\ pump'[t].key = k /\ pump'[t].at = "wire"
        /\ \A o \in Tabs \ {t} : pump'[o] = pump[o]
        /\ pump' \in [Tabs -> {Idle} \cup Sends]
    BY <1>1, <2>1 DEF OutboxTypeOK, Sends
  <2>8. pump'[t] # Idle
    BY <2>7 DEF Idle
  <2>9. OutboxTypeOK'
    BY <1>1, <2>1, <2>6, <2>7 DEF OutboxTypeOK, net, history
  <2>10. CalmRows(t)
    BY <1>1, <2>4, <2>5, <2>6, <2>8 DEF CalmRows, history
  <2>11. CalmNet(t)
    BY <1>1 DEF CalmNet, net, history
  <2>12. CalmPump(t)
    BY <1>1, <2>1, <2>7, <2>8 DEF CalmPump
  <2> QED
    BY <1>1, <2>1, <2>6, <2>7, <2>9, <2>10, <2>11, <2>12 DEF CalmStep, net, history
<1>3. CASE k \notin RowKeys(box[t])
  <2>1. /\ cancelled' = [cancelled EXCEPT ![t] = @ \ {k}]
        /\ Pump(t, box[t], timer) /\ box' = box
    BY <1>3 DEF UploadDone
  <2>2. timer \in [Tabs -> BOOLEAN]
    BY DEF OutboxTypeOK
  <2>3. /\ pump' \in [Tabs -> {Idle} \cup Sends] /\ timer' \in [Tabs -> BOOLEAN]
        /\ \A o \in Tabs \ {t} : pump'[o] = pump[o] /\ timer'[o] = timer[o]
        /\ pump'[t] = Idle \/ Picked(pump'[t], box[t])
        /\ Sending(box[t]) # {} => pump'[t] # Idle \/ timer'[t]
    BY <2>1, <2>2, PumpDoes
  <2>4. cancelled' \in [Tabs -> SUBSET Keys] /\ \A o \in Tabs \ {t} : cancelled'[o] = cancelled[o]
    BY <2>1 DEF OutboxTypeOK
  <2>5. OutboxTypeOK'
    BY <1>1, <2>1, <2>3, <2>4 DEF OutboxTypeOK, net, history
  <2>6. CalmRows(t)
    BY <1>1, <2>1, <2>3 DEF CalmRows, history
  <2>7. CalmNet(t)
    BY <1>1 DEF CalmNet, net, history
  <2>8. CalmPump(t)
    BY <1>1, <2>1, <2>3 DEF CalmPump
  <2> QED
    BY <1>1, <2>1, <2>3, <2>4, <2>5, <2>6, <2>7, <2>8 DEF CalmStep, net, history
<1> QED
  BY <1>2, <1>3

\* The server takes a message.
LEMMA AcceptIsCalm ==
    ASSUME OutboxInv, NEW t \in Tabs, Accept(t)
    PROVE  CalmStep(t)
<1> USE TabFacts
<1> DEFINE k == pump[t].key
<1>1. /\ pump[t] # Idle /\ pump[t].at = "wire" /\ k \in Keys /\ up[t]
      /\ server' = Taken(k) /\ pump' = [pump EXCEPT ![t].at = "accepted"]
      /\ UNCHANGED <<up, box, timer, cancelled, loading, leader, behind, disk, gone, stray, deleting, history>>
  BY DEF Accept
<1>2. server \in Seq(Keys)
  BY DEF OutboxTypeOK
<1>3. server' \in Seq(Keys) /\ k \in Range(server')
  BY <1>1, <1>2, AppendRange DEF Taken
<1>4. /\ pump'[t] \in Sends /\ pump'[t].key = k /\ pump'[t].at = "accepted"
      /\ \A o \in Tabs \ {t} : pump'[o] = pump[o]
      /\ pump' \in [Tabs -> {Idle} \cup Sends]
  BY <1>1 DEF OutboxTypeOK, Sends
<1>5. pump'[t] # Idle
  BY <1>4 DEF Idle
<1>6. OutboxTypeOK'
  BY <1>1, <1>3, <1>4 DEF OutboxTypeOK, history
<1>7. CalmRows(t)
  BY <1>1, <1>5 DEF CalmRows, history
<1>8. CalmNet(t)
  BY <1>1, <1>4, <1>5 DEF CalmNet, Taken, history
<1>9. CalmPump(t)
  BY <1>1, <1>3, <1>4, <1>5 DEF CalmPump
<1> QED
  BY <1>1, <1>4, <1>6, <1>7, <1>8, <1>9 DEF CalmStep, history

\* The answer.
LEMMA AnsweredIsCalm ==
    ASSUME OutboxInv, NEW t \in Tabs, Answered(t)
    PROVE  CalmStep(t)
<1> USE TabFacts
<1> DEFINE k == pump[t].key
           new == Without(box[t], k)
<1>1. /\ pump[t] # Idle /\ pump[t].at = "accepted" /\ k \in Keys /\ up[t] /\ k \in Range(server)
      /\ box' = [box EXCEPT ![t] = new]
      /\ deleting' = IF k \in cancelled[t] THEN deleting \cup {k} ELSE deleting
      /\ cancelled' = [cancelled EXCEPT ![t] = @ \ {k}]
      /\ Pump(t, new, timer)
      /\ UNCHANGED <<up, loading, leader, behind, disk, server, gone, stray, history>>
  BY DEF Answered
<1>2. /\ new \in Seq(RowSet) /\ Ascending(new) /\ RowKeys(new) = RowKeys(box[t]) \ {k}
      /\ \A i \in DOMAIN new : \E j \in DOMAIN box[t] : new[i] = box[t][j]
  BY <1>1, WithoutDoes
<1> HIDE DEF new
<1>3. FailedKeys(new) \subseteq FailedKeys(box[t])
  BY <1>2 DEF FailedKeys
<1>4. timer \in [Tabs -> BOOLEAN]
  BY DEF OutboxTypeOK
<1>5. /\ pump' \in [Tabs -> {Idle} \cup Sends] /\ timer' \in [Tabs -> BOOLEAN]
      /\ \A o \in Tabs \ {t} : pump'[o] = pump[o] /\ timer'[o] = timer[o]
      /\ pump'[t] = Idle \/ Picked(pump'[t], new)
      /\ Sending(new) # {} => pump'[t] # Idle \/ timer'[t]
  BY <1>1, <1>2, <1>4, PumpDoes
<1>6. box' \in [Tabs -> Seq(RowSet)] /\ box'[t] = new /\ \A o \in Tabs \ {t} : box'[o] = box[o]
  BY <1>1, <1>2 DEF OutboxTypeOK
<1>7. cancelled' \in [Tabs -> SUBSET Keys] /\ \A o \in Tabs \ {t} : cancelled'[o] = cancelled[o]
  BY <1>1 DEF OutboxTypeOK
<1>8. deleting' \in SUBSET Keys /\ deleting \subseteq deleting' /\ (k \in cancelled[t] => k \in deleting')
  BY <1>1 DEF OutboxTypeOK
<1>9. OutboxTypeOK'
  BY <1>1, <1>5, <1>6, <1>7, <1>8 DEF OutboxTypeOK, history
<1>10. CalmRows(t)
  BY <1>1, <1>2, <1>3, <1>5, <1>6 DEF CalmRows, history
<1>11. CalmNet(t)
  BY <1>1, <1>8 DEF CalmNet, history
<1>12. CalmPump(t)
  BY <1>1, <1>2, <1>5, <1>6, <1>8 DEF CalmPump
<1> QED
  BY <1>1, <1>5, <1>6, <1>7, <1>9, <1>10, <1>11, <1>12 DEF CalmStep, history

\* A sending that failed, for whatever reason.
LEMMA FailedIsCalm ==
    ASSUME OutboxInv, NEW t \in Tabs, NEW why, NEW offline \in BOOLEAN,
           pump[t] # Idle, Failed(t, why, offline),
           pump[t].at = "accepted" => pump[t].key \in untold',
           untold' \subseteq untold \cup {pump[t].key}, untold \subseteq untold',
           stray' \subseteq stray \cup (untold' \cap {pump[t].key}), stray \subseteq stray',
           UNCHANGED <<up, loading, leader, behind, disk, server, gone, deleting,
                       written, by, had, discarded, tangled, unsaved>>
    PROVE  CalmStep(t)
<1> USE TabFacts
<1> DEFINE k == pump[t].key
           new == [i \in DOMAIN box[t] |->
                     IF box[t][i].key = k THEN AfterFailure(box[t][i], why, offline) ELSE box[t][i]]
<1>1. /\ box' = [box EXCEPT ![t] = new]
      /\ cancelled' = [cancelled EXCEPT ![t] = @ \ {k}]
      /\ failedOnce' = failedOnce \cup FailedKeys(new)
      /\ Pump(t, new, timer)
  BY DEF Failed, Change
<1>2. up[t] /\ k \in Keys
  OBVIOUS
<1>3. \A x \in RowSet : AfterFailure(x, why, offline) \in RowSet /\ AfterFailure(x, why, offline).key = x.key
  <2> TAKE x \in RowSet
  <2>1. x.attempts + 1 \in Nat
    BY DEF RowSet
  <2>2. ASSUME NEW n \in Nat
        PROVE  /\ [x EXCEPT !.attempts = n, !.status = "failed", !.waits = FALSE, !.net = TRUE] \in RowSet
               /\ [x EXCEPT !.attempts = n, !.status = "failed", !.waits = FALSE, !.net = TRUE].key = x.key
               /\ [x EXCEPT !.attempts = n, !.waits = TRUE] \in RowSet
               /\ [x EXCEPT !.attempts = n, !.waits = TRUE].key = x.key
               /\ [x EXCEPT !.attempts = n, !.status = "failed", !.waits = FALSE] \in RowSet
               /\ [x EXCEPT !.attempts = n, !.status = "failed", !.waits = FALSE].key = x.key
    BY DEF RowSet
  <2> QED
    BY <2>1, <2>2 DEF AfterFailure
<1>4. \A i \in DOMAIN box[t] : box[t][i] \in RowSet
  OBVIOUS
<1>5. /\ DOMAIN new = DOMAIN box[t] /\ new = [i \in DOMAIN new |-> new[i]]
      /\ \A i \in DOMAIN box[t] : new[i] \in RowSet /\ new[i].key = box[t][i].key
  BY <1>3, <1>4
<1> HIDE DEF new
<1>6. new \in Seq(RowSet) /\ Ascending(new) /\ RowKeys(new) = RowKeys(box[t])
  BY <1>5, SameKeys
<1>7. FailedKeys(new) \subseteq RowKeys(new)
  BY DEF FailedKeys, RowKeys
<1>8. timer \in [Tabs -> BOOLEAN]
  BY DEF OutboxTypeOK
<1>9. /\ pump' \in [Tabs -> {Idle} \cup Sends] /\ timer' \in [Tabs -> BOOLEAN]
      /\ \A o \in Tabs \ {t} : pump'[o] = pump[o] /\ timer'[o] = timer[o]
      /\ pump'[t] = Idle \/ Picked(pump'[t], new)
      /\ Sending(new) # {} => pump'[t] # Idle \/ timer'[t]
  BY <1>1, <1>6, <1>8, PumpDoes
<1>10. box' \in [Tabs -> Seq(RowSet)] /\ box'[t] = new /\ \A o \in Tabs \ {t} : box'[o] = box[o]
  BY <1>1, <1>6 DEF OutboxTypeOK
<1>11. cancelled' \in [Tabs -> SUBSET Keys] /\ \A o \in Tabs \ {t} : cancelled'[o] = cancelled[o]
  BY <1>1 DEF OutboxTypeOK
<1>12. failedOnce' \in SUBSET Keys /\ untold' \in SUBSET Keys /\ stray' \in SUBSET Keys
  BY <1>1, <1>2, <1>6, <1>7 DEF OutboxTypeOK
<1>13. OutboxTypeOK'
  BY <1>9, <1>10, <1>11, <1>12 DEF OutboxTypeOK
<1>14. CalmRows(t)
  BY <1>1, <1>6, <1>9, <1>10 DEF CalmRows
<1>15. CalmNet(t)
  BY <1>1 DEF CalmNet, Pumping
<1>16. CalmPump(t)
  BY <1>9, <1>10 DEF CalmPump
<1> QED
  BY <1>2, <1>9, <1>10, <1>11, <1>13, <1>14, <1>15, <1>16 DEF CalmStep

\* The three ways in which a sending fails.
LEMMA FailuresAreCalm ==
    ASSUME OutboxInv, NEW t \in Tabs, NEW why, NEW offline \in BOOLEAN,
           FileMissing(t) \/ Rejected(t, why, offline) \/ GivenUp(t, offline)
    PROVE  CalmStep(t)
<1>1. CASE FileMissing(t)
  BY <1>1, FailedIsCalm DEF FileMissing, net
<1>2. CASE Rejected(t, why, offline)
  BY <1>2, FailedIsCalm DEF Rejected, net
<1>3. CASE GivenUp(t, offline)
  BY <1>3, FailedIsCalm DEF GivenUp
<1> QED
  BY <1>1, <1>2, <1>3

----------------------------------------------------------------------------
(* The requests on their way.                                              *)

\* A request nobody waits for arrives.
LEMMA StrayArrivesKeeps ==
    ASSUME OutboxInv, NEW m \in Keys, StrayArrives(m)
    PROVE  OutboxInv'
<1>1. /\ m \in stray /\ server' = Taken(m) /\ stray' = stray \ {m}
      /\ up' = up /\ box' = box /\ pump' = pump /\ timer' = timer /\ cancelled' = cancelled
      /\ loading' = loading /\ leader' = leader /\ behind' = behind /\ disk' = disk /\ gone' = gone /\ deleting' = deleting
      /\ written' = written /\ by' = by /\ had' = had /\ discarded' = discarded
      /\ failedOnce' = failedOnce /\ untold' = untold /\ tangled' = tangled /\ unsaved' = unsaved
  BY DEF StrayArrives, tabs, history
<1>2. server \in Seq(Keys)
  BY DEF OutboxInv, OutboxTypeOK
<1>3. server' \in Seq(Keys) /\ Range(server') = Range(server) \cup {m}
  BY <1>1, <1>2, AppendRange DEF Taken
<1>4. m \in untold /\ m <= written /\ m \in 1 .. written
  BY <1>1 DEF OutboxInv, Lists
<1>5. \A k : /\ Excused(k) => Excused(k)'
             /\ Settled(k) => Settled(k)'
             /\ Past(k) => Past(k)'
  BY <1>1, <1>3, Growth
<1>6. \A k : Range(server') \subseteq Range(server) \cup {m} /\ (Settled(k)' => Settled(k) \/ Excused(k)') /\ Excused(m)'
  BY <1>1, <1>3, <1>4 DEF Settled, Excused
<1>7. \A t \in Tabs : \A k : (Pumping(t, k)' <=> Pumping(t, k)) /\ LoadKeys(t)' = LoadKeys(t)
  BY <1>1 DEF Pumping, LoadKeys
<1>8. OutboxTypeOK' /\ ClosedIsEmpty' /\ SomebodySends'
  BY <1>1, <1>3 DEF OutboxInv, OutboxTypeOK, ClosedIsEmpty, SomebodySends
<1>9. Lists'
  BY <1>1, <1>3, <1>4 DEF OutboxInv, Lists
<1>10. Kept' /\ Shared'
  BY <1>1, <1>5, <1>7 DEF OutboxInv, Kept, Shared
<1>11. Once'
  BY <1>1, <1>5, <1>6, <1>7 DEF OutboxInv, Once
<1>12. \A k, l \in Keys : Before(k, l)' => Before(k, l) /\ l # m
  BY <1>1, <1>4, <1>5 DEF OutboxInv, InTurn, Before
<1>13. InTurn'
  BY <1>1, <1>3, <1>7, <1>12 DEF OutboxInv, InTurn
<1>14. Found'
  BY <1>1, <1>5, <1>7 DEF OutboxInv, Found
<1>15. OrderKept'
  <2>1. \A k \in Keys : k \in Range(server) /\ m < k /\ by[m] = by[k] => Past(m)
    <3>1. \A k \in Range(server) : k <= written
      BY DEF OutboxInv, Lists, OutboxTypeOK
    <3> QED
      BY <3>1 DEF OutboxInv, InTurn, Before
  <2> QED
    BY <1>1, <2>1, TakenInOrder
<1>16. CancelledStaysOut'
  BY <1>1, <1>3, <1>4 DEF OutboxInv, CancelledStaysOut
<1>17. QueueSurvives'
  BY <1>1, <1>3 DEF OutboxInv, QueueSurvives
<1> QED
  BY <1>8, <1>9, <1>10, <1>11, <1>13, <1>14, <1>15, <1>16, <1>17 DEF OutboxInv

\* A deletion is done, or refused.
LEMMA DeletedKeeps ==
    ASSUME OutboxInv, NEW m \in Keys, Deleted(m)
    PROVE  OutboxInv'
<1>1. /\ m \in deleting /\ deleting' = deleting \ {m} /\ server' = server /\ stray' = stray
      /\ up' = up /\ box' = box /\ pump' = pump /\ timer' = timer /\ cancelled' = cancelled
      /\ loading' = loading /\ leader' = leader /\ behind' = behind /\ disk' = disk
      /\ written' = written /\ by' = by /\ had' = had /\ discarded' = discarded
      /\ failedOnce' = failedOnce /\ tangled' = tangled /\ unsaved' = unsaved
      /\ \/ gone' = gone \cup {m} /\ untold' = untold
         \/ untold' = untold \cup {m} /\ gone' = gone
  BY DEF Deleted, tabs
<1>2. \A k : /\ Excused(k) => Excused(k)'
             /\ Settled(k)' <=> Settled(k)
             /\ Past(k)' <=> Past(k)
  BY <1>1 DEF Excused, Settled, Past
<1>3. \A t \in Tabs : \A k : (Pumping(t, k)' <=> Pumping(t, k)) /\ LoadKeys(t)' = LoadKeys(t)
  BY <1>1 DEF Pumping, LoadKeys
<1>4. OutboxTypeOK' /\ ClosedIsEmpty' /\ SomebodySends' /\ Lists'
  BY <1>1 DEF OutboxInv, OutboxTypeOK, ClosedIsEmpty, SomebodySends, Lists
<1>5. Kept' /\ Shared'
  BY <1>1, <1>2, <1>3 DEF OutboxInv, Kept, Shared
<1>6. Once'
  BY <1>1, <1>2, <1>3 DEF OutboxInv, Once
<1>7. InTurn' /\ Found'
  BY <1>1, <1>2, <1>3 DEF OutboxInv, InTurn, Found, Before
<1>8. OrderKept' /\ CancelledStaysOut' /\ QueueSurvives'
  BY <1>1 DEF OutboxInv, OrderKept, CancelledStaysOut, QueueSurvives
<1> QED
  BY <1>4, <1>5, <1>6, <1>7, <1>8 DEF OutboxInv

----------------------------------------------------------------------------
(* A message is written; a page is opened and reads the record.            *)

\* outboxEnqueue.
LEMMA EnqueueKeeps ==
    ASSUME OutboxInv, NEW t \in Tabs, Enqueue(t)
    PROVE  OutboxInv'
<1> USE TabFacts
<1> DEFINE n == written + 1
           new == Append(box[t], NewRow(n))
<1>1. /\ up[t] /\ written < MaxKeys /\ written' = n /\ by' = [by EXCEPT ![n] = t]
      /\ had' = [had EXCEPT ![t] = @ \cup {n}] /\ Poke(t, new, timer)
      /\ tangled' = IF loading[t] = Loaded THEN tangled ELSE tangled \cup RowKeys(loading[t].rows)
      /\ up' = up /\ cancelled' = cancelled /\ loading' = loading /\ leader' = leader /\ behind' = behind /\ disk' = disk
      /\ server' = server /\ gone' = gone /\ stray' = stray /\ deleting' = deleting
      /\ discarded' = discarded /\ failedOnce' = failedOnce /\ untold' = untold /\ unsaved' = unsaved
  BY DEF Enqueue, net
<1>2. /\ n \in Keys /\ written \in Nat /\ n \in Nat /\ Keys \subseteq Nat /\ 1 .. written \subseteq Keys /\ n \notin 1 .. written
      /\ \A k \in Keys : k <= n /\ k # n => k \in 1 .. written
  BY <1>1, OutboxAssumption DEF OutboxTypeOK, Keys
<1>3. NewRow(n) \in RowSet /\ NewRow(n).key = n /\ NewRow(n).status = "sending"
  BY <1>2 DEF NewRow, RowSet
<1>4. \A k \in RowKeys(box[t]) : k \in 1 .. written /\ k < NewRow(n).key
  <2>1. RowKeys(box[t]) \subseteq 1 .. written
    BY DEF OutboxInv, Lists
  <2>2. \A k \in 1 .. written : k < n
    BY <1>2
  <2> QED
    BY <1>3, <2>1, <2>2
<1>5. new \in Seq(RowSet) /\ Ascending(new) /\ RowKeys(new) = RowKeys(box[t]) \cup {n}
  BY <1>3, <1>4, AppendDoes
<1>6. FailedKeys(new) \subseteq FailedKeys(box[t])
  <2>1. /\ Len(new) = Len(box[t]) + 1 /\ new[Len(box[t]) + 1] = NewRow(n)
        /\ \A i \in 1 .. Len(box[t]) : new[i] = box[t][i]
        /\ DOMAIN new = 1 .. Len(box[t]) + 1 /\ DOMAIN box[t] = 1 .. Len(box[t]) /\ Len(box[t]) \in Nat
    BY <1>3
  <2> HIDE DEF new
  <2>2. ASSUME NEW i \in DOMAIN new, new[i].status = "failed"
        PROVE  i \in DOMAIN box[t] /\ box[t][i] = new[i]
    <3>1. i # Len(box[t]) + 1
      BY <1>3, <2>1, <2>2
    <3> QED
      BY <2>1, <3>1
  <2> QED
    BY <2>2 DEF FailedKeys
<1> HIDE DEF new, n
<1>7. timer \in [Tabs -> BOOLEAN]
  BY DEF OutboxTypeOK
<1>8. /\ box' \in [Tabs -> Seq(RowSet)] /\ box'[t] = new /\ \A o \in Tabs \ {t} : box'[o] = box[o]
      /\ pump' \in [Tabs -> {Idle} \cup Sends] /\ timer' \in [Tabs -> BOOLEAN]
      /\ \A o \in Tabs \ {t} : pump'[o] = pump[o] /\ timer'[o] = timer[o]
      /\ IF pump[t] # Idle THEN pump'[t] = pump[t] ELSE pump'[t] = Idle \/ Picked(pump'[t], new)
      /\ Sending(new) # {} => pump'[t] # Idle \/ timer'[t]
  BY <1>1, <1>5, <1>7, PokeDoes
<1>9. /\ had'[t] = had[t] \cup {n} /\ (\A o \in Tabs \ {t} : had'[o] = had[o]) /\ had' \in [Tabs -> SUBSET Keys]
      /\ by'[n] = t /\ (\A k \in Keys \ {n} : by'[k] = by[k]) /\ by' \in [Keys -> Tabs \cup {Nobody}]
      /\ tangled \subseteq tangled' /\ LoadKeys(t) \subseteq tangled' /\ tangled' \in SUBSET Keys
      /\ \A o \in Tabs : LoadKeys(o)' = LoadKeys(o) /\ LoadKeys(o) \subseteq 1 .. written
      /\ \A o \in Tabs : had[o] \subseteq 1 .. written
  <2>1. \A o \in Tabs : LoadKeys(o)' = LoadKeys(o) /\ LoadKeys(o) \subseteq 1 .. written
    BY <1>1 DEF LoadKeys, OutboxInv, Lists
  <2>2. LoadKeys(t) \subseteq tangled' /\ tangled' \subseteq tangled \cup LoadKeys(t) /\ tangled \subseteq tangled'
    BY <1>1 DEF LoadKeys
  <2>3. tangled' \in SUBSET Keys
    BY <1>2, <2>1, <2>2 DEF OutboxTypeOK
  <2>4. \A o \in Tabs : had[o] \subseteq 1 .. written
    BY DEF OutboxInv, Lists
  <2> QED
    BY <1>1, <1>2, <2>1, <2>2, <2>3, <2>4 DEF OutboxTypeOK
<1>10. \A k : /\ Excused(k) => Excused(k)'
              /\ Settled(k)' <=> Settled(k)
              /\ Past(k) => Past(k)'
              /\ Settled(k) => k \in 1 .. written
  BY <1>1, <1>9 DEF Excused, Settled, Past, OutboxInv, Lists
\* A row that t sends now: it was sending it before, or picked it.
<1>11. \A o \in Tabs : \A k : Pumping(o, k)' =>
         \/ Pumping(o, k) /\ pump'[o] = pump[o]
         \/ o = t /\ ~ Pumping(t, k) /\ Picked(pump'[t], new) /\ pump'[t].key = k /\ k \in RowKeys(new)
  BY <1>2, <1>5, <1>8, PickedFirst DEF Pumping
<1>12. \A o \in Tabs : \A k : Pumping(o, k) => Pumping(o, k)' /\ pump'[o] = pump[o]
  BY <1>8 DEF Pumping
<1>13. OutboxTypeOK' /\ ClosedIsEmpty' /\ SomebodySends'
  <2>1. OutboxTypeOK'
    BY <1>1, <1>2, <1>8, <1>9, OutboxAssumption DEF OutboxTypeOK, Keys
  <2>2. ClosedIsEmpty'
    <3> SUFFICES ASSUME NEW o \in Tabs, ~ up[o]
                 PROVE  /\ box'[o] = <<>> /\ pump'[o] = Idle /\ ~ timer'[o]
                        /\ loading'[o] = Loaded /\ had'[o] = {} /\ leader' # o
      BY <1>1 DEF ClosedIsEmpty
    <3>1. o # t
      BY <1>1
    <3>2. box[o] = <<>> /\ pump[o] = Idle /\ ~ timer[o] /\ loading[o] = Loaded /\ had[o] = {} /\ leader # o
      BY DEF OutboxInv, ClosedIsEmpty
    <3>3. had'[o] = had[o] /\ box'[o] = box[o] /\ pump'[o] = pump[o] /\ timer'[o] = timer[o]
      BY <1>8, <1>9, <3>1
    <3>4. loading'[o] = loading[o] /\ leader' = leader
      BY <1>1
    <3> QED
      BY <3>2, <3>3, <3>4
  <2>3. SomebodySends'
    BY <1>8 DEF SomebodySends
  <2> QED
    BY <2>1, <2>2, <2>3
<1>14. Lists'
  <2>1. 1 .. written \subseteq 1 .. written' /\ n \in 1 .. written'
    BY <1>1, <1>2 DEF n
  <2>2. \A o \in Tabs : Ascending(box'[o]) /\ RowKeys(box'[o]) \subseteq had'[o] /\ had'[o] \subseteq 1 .. written'
    <3> TAKE o \in Tabs
    <3>1. CASE o = t
      <4>1. RowKeys(box[t]) \subseteq had[t] /\ had[t] \subseteq 1 .. written
        BY <1>9
      <4> QED
        BY <1>5, <1>8, <1>9, <2>1, <3>1, <4>1
    <3>2. CASE o # t
      <4>1. Ascending(box[o]) /\ RowKeys(box[o]) \subseteq had[o] /\ had[o] \subseteq 1 .. written
        BY DEF OutboxInv, Lists
      <4> QED
        BY <1>8, <1>9, <2>1, <3>2, <4>1
    <3> QED
      BY <3>1, <3>2
  <2>3. \A o \in Tabs : pump'[o] # Idle =>
           pump'[o].key \in had'[o] /\ (pump'[o].at = "accepted" => pump'[o].key \in Range(server'))
    <3> SUFFICES ASSUME NEW o \in Tabs, pump'[o] # Idle
                 PROVE  pump'[o].key \in had'[o] /\ (pump'[o].at = "accepted" => pump'[o].key \in Range(server'))
      OBVIOUS
    <3>1. CASE pump[o] # Idle /\ pump'[o] = pump[o]
      BY <1>1, <1>9, <3>1 DEF OutboxInv, Lists
    <3>2. CASE o = t /\ Picked(pump'[t], new) /\ pump'[t].key \in RowKeys(new)
      BY <1>5, <1>9, <3>2 DEF Picked
    <3> QED
      BY <1>11, <3>1, <3>2 DEF Pumping
  <2>4. Ascending(disk)' /\ RowKeys(disk') \subseteq 1 .. written'
    BY <1>1, <2>1 DEF OutboxInv, Lists
  <2>5. \A o \in Tabs : loading'[o] # Loaded =>
           Ascending(loading'[o].rows) /\ RowKeys(loading'[o].rows) \subseteq 1 .. written'
    BY <1>1, <2>1 DEF OutboxInv, Lists
  <2>6. /\ Range(server') \subseteq 1 .. written'
        /\ stray' \subseteq untold' /\ stray' \subseteq 1 .. written' /\ discarded' \subseteq 1 .. written'
    BY <1>1, <2>1 DEF OutboxInv, Lists
  <2> QED
    BY <2>2, <2>3, <2>4, <2>5, <2>6 DEF Lists
<1>15. Kept' /\ Shared'
  <2>1. Kept'
    <3> SUFFICES ASSUME NEW o \in Tabs, NEW k \in had'[o]
                 PROVE  k \in RowKeys(box'[o]) \/ Settled(k)'
      BY DEF Kept
    <3>1. CASE k \in had[o]
      BY <1>5, <1>8, <1>10, <3>1 DEF OutboxInv, Kept
    <3>2. CASE o = t /\ k = n
      BY <1>5, <1>8, <3>2
    <3> QED
      BY <1>9, <3>1, <3>2
  <2>2. \A o, p \in Tabs : o # p => had'[o] \cap had'[p] \subseteq tangled'
    BY <1>2, <1>9 DEF OutboxInv, Shared
  <2>3. \A o, p \in Tabs : leader' = o => LoadKeys(o)' \cap had'[p] \subseteq tangled'
    BY <1>1, <1>2, <1>9 DEF OutboxInv, Shared
  <2>4. \A o \in Tabs : box'[o] # <<>> => LoadKeys(o)' \subseteq tangled'
    <3> SUFFICES ASSUME NEW o \in Tabs, box'[o] # <<>>
                 PROVE  LoadKeys(o) \subseteq tangled'
      BY <1>9
    <3>1. CASE o # t
      <4>1. LoadKeys(o) \subseteq tangled
        BY <1>8, <3>1 DEF OutboxInv, Shared
      <4> QED
        BY <1>9, <4>1
    <3> QED
      BY <1>9, <3>1
  <2> QED
    BY <2>1, <2>2, <2>3, <2>4 DEF Shared
<1>16. Once'
  <2>0. \A o \in Tabs : \A k : k \in RowKeys(box'[o]) /\ Settled(k) => k \in RowKeys(box[o])
    BY <1>2, <1>5, <1>8, <1>10
  <2>1. \A o \in Tabs, k \in Keys : k \in RowKeys(box'[o]) /\ k \in Range(server') =>
           Excused(k)' \/ (Pumping(o, k)' /\ pump'[o].at = "accepted")
    BY <1>1, <1>10, <1>12, <2>0 DEF OutboxInv, Once, Settled
  <2>2. \A o \in Tabs, k \in Keys : k \in RowKeys(box'[o]) /\ k \in discarded' => Excused(k)'
    BY <1>1, <1>10, <2>0 DEF OutboxInv, Once, Settled
  <2>3. \A k \in RowKeys(disk') : Settled(k)' => Excused(k)' \/ \E o \in Tabs : k \in had'[o]
    <3>1. \A o \in Tabs : had[o] \subseteq had'[o]
      BY <1>9
    <3> QED
      BY <1>1, <1>10, <3>1 DEF OutboxInv, Once
  <2>4. \A o \in Tabs : leader' = o => \A k \in LoadKeys(o)' : Settled(k)' => Excused(k)'
    BY <1>1, <1>9, <1>10 DEF OutboxInv, Once
  <2>5. ASSUME NEW o \in Tabs, NEW k \in Keys, Pumping(o, k)', k \in discarded'
        PROVE  k \in cancelled'[o] \/ Excused(k)'
    BY <1>1, <1>8, <1>10, <1>11, <2>2, <2>5 DEF OutboxInv, Once
  <2>6. ASSUME NEW o \in Tabs, NEW k \in Keys, Pumping(o, k)', k \in Range(server')
        PROVE  Excused(k)' \/ pump'[o].at = "accepted"
    BY <1>1, <1>8, <1>10, <1>11, <2>1, <2>6 DEF OutboxInv, Once
  <2> QED
    BY <2>1, <2>2, <2>3, <2>4, <2>5, <2>6 DEF Once
<1>17. Found'
  <2>1. ASSUME NEW k \in 1 .. written', NEW o \in Tabs, by'[k] = o, up'[o]
        PROVE  Past(k)' \/ k \in RowKeys(box'[o]) \cup LoadKeys(o)'
    <3>1. CASE k = n
      BY <1>5, <1>8, <1>9, <2>1, <3>1
    <3>2. CASE k # n
      <4>1. k \in 1 .. written /\ k \in Keys
        BY <1>1, <1>2, <3>2 DEF n
      <4>2. Past(k) \/ k \in RowKeys(box[o]) \cup LoadKeys(o)
        BY <1>1, <1>9, <2>1, <3>2, <4>1 DEF OutboxInv, Found
      <4> QED
        BY <1>5, <1>8, <1>9, <1>10, <4>2
    <3> QED
      BY <3>1, <3>2
  <2>2. ASSUME NEW k \in 1 .. written', NEW o \in Tabs, by'[k] # o, k \in RowKeys(box'[o])
        PROVE  Past(k)' \/ k \in RowKeys(disk')
    <3>1. k \in RowKeys(box[o])
      BY <1>5, <1>8, <1>9, <2>2
    <3>2. k \in 1 .. written /\ k \in Keys /\ k # n
      BY <1>2, <1>9, <3>1 DEF OutboxInv, Lists
    <3> QED
      BY <1>1, <1>9, <1>10, <2>2, <3>1, <3>2 DEF OutboxInv, Found
  <2>3. ASSUME NEW k \in 1 .. written', NEW o \in Tabs, leader' = o, k \in LoadKeys(o)'
        PROVE  Past(k)' \/ k \in RowKeys(disk')
    BY <1>1, <1>9, <1>10, <2>3 DEF OutboxInv, Found
  <2>4. \A o \in Tabs : FailedKeys(box'[o]) \subseteq failedOnce'
    BY <1>1, <1>6, <1>8 DEF OutboxInv, Found
  <2> QED
    BY <2>1, <2>2, <2>3, <2>4 DEF Found
<1>18. InTurn'
  <2> SUFFICES ASSUME NEW k \in Keys, NEW l \in Keys, l <= written', Before(k, l)'
               PROVE  /\ l \notin Range(server') /\ l \notin stray'
                      /\ \A o \in Tabs : ~ Pumping(o, l)'
                      /\ \A o \in Tabs : l \in RowKeys(box'[o]) => k \in RowKeys(box'[o])
                      /\ \A o \in Tabs : l \in LoadKeys(o)' => k \in LoadKeys(o)'
                      /\ l \in RowKeys(disk') => k \in RowKeys(disk')
    BY DEF InTurn
  <2>1. k < l /\ by'[k] = by'[l] /\ ~ Past(k)' /\ k # n /\ k \in 1 .. written
    BY <1>1, <1>2 DEF Before
  <2>2. /\ l \notin Range(server) /\ l \notin stray
        /\ \A o \in Tabs : ~ Pumping(o, l)
        /\ \A o \in Tabs : l \in RowKeys(box'[o]) => k \in RowKeys(box'[o])
        /\ \A o \in Tabs : l \in LoadKeys(o) => k \in LoadKeys(o)
        /\ l \in RowKeys(disk) => k \in RowKeys(disk)
    <3>1. CASE l = n
      <4>1. /\ l \notin Range(server) /\ l \notin stray /\ l \notin RowKeys(disk)
            /\ \A o \in Tabs : ~ Pumping(o, l) /\ l \notin LoadKeys(o) /\ l \notin RowKeys(box[o])
        BY <1>2, <1>9, <3>1 DEF OutboxInv, Lists, Pumping
      <4>2. k \in RowKeys(box[t])
        BY <1>1, <1>9, <1>10, <2>1, <3>1 DEF OutboxInv, Found, Past
      <4> QED
        BY <1>5, <1>8, <4>1, <4>2
    <3>2. CASE l # n
      <4>1. l <= written /\ Before(k, l)
        BY <1>1, <1>2, <1>9, <1>10, <2>1, <3>2 DEF Before
      <4> QED
        BY <1>5, <1>8, <3>2, <4>1 DEF OutboxInv, InTurn
    <3> QED
      BY <3>1, <3>2
  <2>3. ASSUME NEW o \in Tabs, Pumping(o, l)'
        PROVE  FALSE
    <3>1. o = t /\ Picked(pump'[t], new) /\ pump'[t].key = l /\ l \in RowKeys(new)
      BY <1>11, <2>2, <2>3
    <3>2. k \in RowKeys(new)
      BY <1>8, <2>2, <3>1
    <3>3. k \in FailedKeys(new)
      BY <1>5, <2>1, <3>1, <3>2, PickedFirst
    <3> QED
      BY <1>1, <1>6, <2>1, <3>3 DEF Past
  <2> QED
    BY <1>1, <1>9, <2>2, <2>3
<1>19. OrderKept'
  <2>1. \A i \in DOMAIN server : server[i] \in 1 .. written
    BY DEF OutboxInv, Lists, Range
  <2>2. \A i \in DOMAIN server : by'[server[i]] = by[server[i]]
    BY <1>2, <1>9, <2>1
  <2> QED
    BY <1>1, <1>9, <2>2 DEF OutboxInv, OrderKept
<1>20. CancelledStaysOut'
  BY <1>1, <1>9, <1>12 DEF OutboxInv, CancelledStaysOut, Pumping
<1>21. QueueSurvives'
  <2> SUFFICES ASSUME NEW k \in 1 .. written'
               PROVE  \/ k \in Range(server') \/ k \in discarded'
                      \/ \E o \in Tabs : k \in RowKeys(box'[o])
                      \/ k \in RowKeys(disk')
                      \/ k \in unsaved' \cup tangled'
    BY DEF QueueSurvives
  <2>1. CASE k = n
    BY <1>5, <1>8, <2>1
  <2>2. CASE k # n
    <3>1. k \in 1 .. written
      BY <1>1, <1>2, <2>2 DEF n
    <3>2. \A o \in Tabs : k \in RowKeys(box[o]) => k \in RowKeys(box'[o])
      BY <1>5, <1>8
    <3> QED
      BY <1>1, <1>9, <3>1, <3>2 DEF OutboxInv, QueueSurvives
  <2> QED
    BY <2>1, <2>2
<1> QED
  BY <1>13, <1>14, <1>15, <1>16, <1>17, <1>18, <1>19, <1>20, <1>21 DEF OutboxInv

\* The rest of convHydrate.
LEMMA PassOverKeeps ==
    ASSUME OutboxInv, NEW t \in Tabs, PassOver(t)
    PROVE  OutboxInv'
<1>1. /\ loading[t] # Loaded /\ loading' = [loading EXCEPT ![t] = Loaded]
      /\ tangled' = tangled \cup RowKeys(loading[t].rows)
      /\ up' = up /\ box' = box /\ pump' = pump /\ timer' = timer /\ cancelled' = cancelled
      /\ leader' = leader /\ behind' = behind /\ disk' = disk
      /\ server' = server /\ gone' = gone /\ stray' = stray /\ deleting' = deleting
      /\ written' = written /\ by' = by /\ had' = had /\ discarded' = discarded
      /\ failedOnce' = failedOnce /\ untold' = untold /\ unsaved' = unsaved
  BY DEF PassOver, net
<1>2. /\ loading'[t] = Loaded /\ \A o \in Tabs \ {t} : loading'[o] = loading[o]
      /\ loading' \in [Tabs -> {Loaded} \cup [at : {"read"}, rows : Seq(RowSet)]]
  BY <1>1 DEF OutboxInv, OutboxTypeOK
<1>3. /\ tangled' = tangled \cup LoadKeys(t) /\ LoadKeys(t)' = {}
      /\ \A o \in Tabs \ {t} : LoadKeys(o)' = LoadKeys(o)
      /\ \A o \in Tabs : LoadKeys(o)' \subseteq LoadKeys(o)
  BY <1>1, <1>2 DEF LoadKeys
<1>4. LoadKeys(t) \subseteq Keys
  <2>1. LoadKeys(t) \subseteq 1 .. written
    BY <1>1 DEF LoadKeys, OutboxInv, Lists
  <2>2. 1 .. written \subseteq Keys
    BY OutboxAssumption DEF OutboxInv, OutboxTypeOK, Keys
  <2> QED
    BY <2>1, <2>2
<1>5. \A k : /\ Excused(k) => Excused(k)'
             /\ Settled(k)' <=> Settled(k)
             /\ Past(k) => Past(k)'
             /\ k \in LoadKeys(t) => Past(k)'
  BY <1>1, <1>3 DEF Excused, Settled, Past
<1>6. \A o \in Tabs : \A k : Pumping(o, k)' <=> Pumping(o, k)
  BY <1>1 DEF Pumping
<1>7. OutboxTypeOK' /\ SomebodySends'
  BY <1>1, <1>2, <1>3, <1>4 DEF OutboxInv, OutboxTypeOK, SomebodySends
<1>8. ClosedIsEmpty'
  BY <1>1, <1>2 DEF OutboxInv, ClosedIsEmpty
<1>9. Lists'
  BY <1>1, <1>2 DEF OutboxInv, Lists
<1>10. Kept' /\ Shared'
  BY <1>1, <1>3, <1>5 DEF OutboxInv, Kept, Shared
<1>11. Once'
  BY <1>1, <1>3, <1>5, <1>6 DEF OutboxInv, Once
<1>12. \A k, l \in Keys : Before(k, l)' => Before(k, l)
  BY <1>1, <1>5 DEF Before
<1>13. InTurn'
  BY <1>1, <1>3, <1>6, <1>12 DEF OutboxInv, InTurn
<1>14. Found'
  <2>1. ASSUME NEW k \in 1 .. written', NEW o \in Tabs, by'[k] = o, up'[o]
        PROVE  Past(k)' \/ k \in RowKeys(box'[o]) \cup LoadKeys(o)'
    <3>1. Past(k) \/ k \in RowKeys(box[o]) \cup LoadKeys(o)
      BY <1>1, <2>1 DEF OutboxInv, Found
    <3> QED
      BY <1>1, <1>3, <1>5, <3>1
  <2> QED
    BY <1>1, <1>3, <1>5, <2>1 DEF OutboxInv, Found
<1>15. OrderKept' /\ CancelledStaysOut' /\ QueueSurvives'
  BY <1>1 DEF OutboxInv, OrderKept, CancelledStaysOut, QueueSurvives
<1> QED
  BY <1>7, <1>8, <1>9, <1>10, <1>11, <1>13, <1>14, <1>15 DEF OutboxInv

\* A page is opened.
LEMMA OpenKeeps ==
    ASSUME OutboxInv, NEW t \in Tabs, Open(t)
    PROVE  OutboxInv'
<1>1. /\ ~ up[t] /\ up' = [up EXCEPT ![t] = TRUE] /\ leader' = IF leader = Nobody THEN t ELSE leader
      /\ loading' = [loading EXCEPT ![t] = [at |-> "read", rows |-> disk]]
      /\ tangled' = tangled \cup (RowKeys(disk) \cap UNION {had[o] : o \in Tabs})
      /\ box' = box /\ pump' = pump /\ timer' = timer /\ cancelled' = cancelled /\ disk' = disk
      /\ behind' = behind \/ behind' = behind \cup {t}
      /\ server' = server /\ gone' = gone /\ stray' = stray /\ deleting' = deleting
      /\ written' = written /\ by' = by /\ had' = had /\ discarded' = discarded
      /\ failedOnce' = failedOnce /\ untold' = untold /\ unsaved' = unsaved
  BY DEF Open, net
<1>2. up'[t] /\ \A o \in Tabs \ {t} : up'[o] = up[o] /\ loading'[o] = loading[o]
  BY <1>1 DEF OutboxInv, OutboxTypeOK
<1>3. loading'[t].at = "read" /\ loading'[t].rows = disk
  BY <1>1 DEF OutboxInv, OutboxTypeOK
<1>4. LoadKeys(t)' = RowKeys(disk) /\ \A o \in Tabs \ {t} : LoadKeys(o)' = LoadKeys(o)
  <2>1. loading'[t] # Loaded
    BY <1>3 DEF Loaded
  <2> QED
    BY <1>2, <1>3, <2>1 DEF LoadKeys
<1>5. /\ tangled \subseteq tangled'
      /\ \A o \in Tabs : RowKeys(disk) \cap had[o] \subseteq tangled'
  BY <1>1
<1>6. box[t] = <<>> /\ RowKeys(box[t]) = {} /\ leader # t
  BY <1>1 DEF OutboxInv, ClosedIsEmpty, RowKeys
<1>7. \A k : /\ Excused(k) => Excused(k)'
             /\ Settled(k)' <=> Settled(k)
             /\ Past(k) => Past(k)'
  BY <1>1, <1>5 DEF Excused, Settled, Past
<1>8. \A o \in Tabs : \A k : Pumping(o, k)' <=> Pumping(o, k)
  BY <1>1 DEF Pumping
<1>9. \A o \in Tabs : leader' = o => o = t \/ leader = o
  BY <1>1
<1>10. OutboxTypeOK'
  <2>1. [at |-> "read", rows |-> disk] \in [at : {"read"}, rows : Seq(RowSet)]
    BY DEF OutboxInv, OutboxTypeOK
  <2>2. loading' \in [Tabs -> {Loaded} \cup [at : {"read"}, rows : Seq(RowSet)]]
    BY <1>1, <2>1 DEF OutboxInv, OutboxTypeOK
  <2>3. tangled' \in SUBSET Keys
    BY <1>1 DEF OutboxInv, OutboxTypeOK
  <2> QED
    BY <1>1, <2>2, <2>3 DEF OutboxInv, OutboxTypeOK
<1>11. ClosedIsEmpty' /\ SomebodySends'
  BY <1>1, <1>2, <1>9 DEF OutboxInv, ClosedIsEmpty, SomebodySends
<1>12. Lists'
  <2>1. \A o \in Tabs : loading'[o] # Loaded =>
           Ascending(loading'[o].rows) /\ RowKeys(loading'[o].rows) \subseteq 1 .. written
    BY <1>2, <1>3 DEF OutboxInv, Lists
  <2> QED
    BY <1>1, <2>1 DEF OutboxInv, Lists
<1>13. Kept' /\ Shared'
  <2>1. \A o, p \in Tabs : leader' = o => LoadKeys(o)' \cap had[p] \subseteq tangled'
    BY <1>4, <1>5, <1>9 DEF OutboxInv, Shared
  <2>2. \A o \in Tabs : box[o] # <<>> => LoadKeys(o)' \subseteq tangled'
    BY <1>4, <1>5, <1>6 DEF OutboxInv, Shared
  <2> QED
    BY <1>1, <1>5, <1>7, <2>1, <2>2 DEF OutboxInv, Kept, Shared
<1>14. Once'
  <2>1. ASSUME NEW o \in Tabs, leader' = o, NEW k \in LoadKeys(o)', Settled(k)
        PROVE  Excused(k)'
    <3>1. CASE o = t
      <4>1. Excused(k) \/ \E p \in Tabs : k \in had[p]
        BY <1>4, <2>1, <3>1 DEF OutboxInv, Once
      <4> QED
        BY <1>4, <1>5, <1>7, <2>1, <3>1, <4>1 DEF Excused
    <3>2. CASE o # t
      BY <1>4, <1>7, <1>9, <2>1, <3>2 DEF OutboxInv, Once
    <3> QED
      BY <3>1, <3>2
  <2> QED
    BY <1>1, <1>7, <1>8, <2>1 DEF OutboxInv, Once
<1>15. InTurn'
  <2>1. \A k, l \in Keys : Before(k, l)' => Before(k, l)
    BY <1>1, <1>7 DEF Before
  <2> QED
    BY <1>1, <1>4, <1>8, <2>1 DEF OutboxInv, InTurn
<1>16. Found'
  <2>1. ASSUME NEW k \in 1 .. written', NEW o \in Tabs, by'[k] = o, up'[o]
        PROVE  Past(k)' \/ k \in RowKeys(box'[o]) \cup LoadKeys(o)'
    <3>1. CASE o # t
      BY <1>1, <1>2, <1>4, <1>7, <2>1, <3>1 DEF OutboxInv, Found
    <3>2. CASE o = t
      <4>1. Past(k) \/ (\E p \in Tabs : k \in RowKeys(box[p])) \/ k \in RowKeys(disk)
        BY <1>1, <2>1 DEF OutboxInv, QueueSurvives, Past
      <4>2. \A p \in Tabs : k \in RowKeys(box[p]) => Past(k) \/ k \in RowKeys(disk)
        BY <1>1, <1>6, <2>1, <3>2 DEF OutboxInv, Found
      <4> QED
        BY <1>4, <1>7, <3>2, <4>1, <4>2
    <3> QED
      BY <3>1, <3>2
  <2>2. \A k \in 1 .. written, o \in Tabs : leader' = o /\ k \in LoadKeys(o)' => Past(k)' \/ k \in RowKeys(disk)
    BY <1>4, <1>7, <1>9 DEF OutboxInv, Found
  <2> QED
    BY <1>1, <1>7, <2>1, <2>2 DEF OutboxInv, Found
<1>17. OrderKept' /\ CancelledStaysOut' /\ QueueSurvives'
  BY <1>1 DEF OutboxInv, OrderKept, CancelledStaysOut, QueueSurvives
<1> QED
  BY <1>10, <1>11, <1>12, <1>13, <1>14, <1>15, <1>16, <1>17 DEF OutboxInv

\* convHydrate in the tab with the lock.
LEMMA TakeUpKeeps ==
    ASSUME OutboxInv, NEW t \in Tabs, TakeUp(t)
    PROVE  OutboxInv'
<1> USE TabFacts
<1> DEFINE old == loading[t].rows
           new == [i \in DOMAIN old |-> Restored(old[i])]
<1>1. /\ loading[t] # Loaded /\ leader = t /\ box[t] = <<>>
      /\ Poke(t, new, timer)
      /\ had' = [had EXCEPT ![t] = @ \cup RowKeys(new)]
      /\ failedOnce' = failedOnce \cup FailedKeys(new)
      /\ loading' = [loading EXCEPT ![t] = Loaded]
      /\ up' = up /\ cancelled' = cancelled /\ leader' = leader /\ behind' = behind /\ disk' = disk
      /\ server' = server /\ gone' = gone /\ stray' = stray /\ deleting' = deleting
      /\ written' = written /\ by' = by /\ discarded' = discarded
      /\ untold' = untold /\ tangled' = tangled /\ unsaved' = unsaved
  BY DEF TakeUp, net
<1>2. /\ old \in Seq(RowSet) /\ Ascending(old) /\ RowKeys(old) = LoadKeys(t)
      /\ LoadKeys(t) \subseteq 1 .. written /\ RowKeys(box[t]) = {} /\ up[t]
  <2>1. old \in Seq(RowSet)
    BY <1>1 DEF OutboxInv, OutboxTypeOK
  <2>2. Ascending(old) /\ RowKeys(old) = LoadKeys(t) /\ LoadKeys(t) \subseteq 1 .. written
    BY <1>1 DEF OutboxInv, Lists, LoadKeys
  <2>3. RowKeys(box[t]) = {}
    BY <1>1 DEF RowKeys
  <2>4. up[t]
    BY <1>1 DEF OutboxInv, ClosedIsEmpty
  <2> QED
    BY <2>1, <2>2, <2>3, <2>4
<1>3. \A x \in RowSet : Restored(x) \in RowSet /\ Restored(x).key = x.key
  BY DEF Restored, RowSet
<1> HIDE DEF old
<1>4. /\ DOMAIN new = DOMAIN old /\ new = [i \in DOMAIN new |-> new[i]]
      /\ \A i \in DOMAIN old : new[i] \in RowSet /\ new[i].key = old[i].key
  <2>1. \A i \in DOMAIN old : old[i] \in RowSet
    BY <1>2
  <2> QED
    BY <1>3, <2>1
<1> HIDE DEF new
<1>5. new \in Seq(RowSet) /\ Ascending(new) /\ RowKeys(new) = LoadKeys(t)
  BY <1>2, <1>4, SameKeys
<1>6. timer \in [Tabs -> BOOLEAN]
  BY DEF OutboxTypeOK
<1>7. /\ box' \in [Tabs -> Seq(RowSet)] /\ box'[t] = new /\ \A o \in Tabs \ {t} : box'[o] = box[o]
      /\ pump' \in [Tabs -> {Idle} \cup Sends] /\ timer' \in [Tabs -> BOOLEAN]
      /\ \A o \in Tabs \ {t} : pump'[o] = pump[o] /\ timer'[o] = timer[o]
      /\ IF pump[t] # Idle THEN pump'[t] = pump[t] ELSE pump'[t] = Idle \/ Picked(pump'[t], new)
      /\ Sending(new) # {} => pump'[t] # Idle \/ timer'[t]
  BY <1>1, <1>5, <1>6, PokeDoes
<1>8. /\ had'[t] = had[t] \cup LoadKeys(t) /\ (\A o \in Tabs \ {t} : had'[o] = had[o])
      /\ loading'[t] = Loaded /\ (\A o \in Tabs \ {t} : loading'[o] = loading[o])
      /\ LoadKeys(t)' = {} /\ (\A o \in Tabs \ {t} : LoadKeys(o)' = LoadKeys(o))
      /\ \A o \in Tabs : had[o] \subseteq had'[o] /\ LoadKeys(o)' \subseteq LoadKeys(o)
      /\ failedOnce \subseteq failedOnce'
  <2>1. /\ had'[t] = had[t] \cup LoadKeys(t) /\ (\A o \in Tabs \ {t} : had'[o] = had[o])
        /\ loading'[t] = Loaded /\ (\A o \in Tabs \ {t} : loading'[o] = loading[o])
        /\ failedOnce \subseteq failedOnce'
    BY <1>1, <1>5 DEF OutboxTypeOK
  <2> QED
    BY <2>1 DEF LoadKeys
<1>9. \A k : /\ Excused(k)' <=> Excused(k)
             /\ Settled(k)' <=> Settled(k)
             /\ Past(k) => Past(k)'
  BY <1>1, <1>8 DEF Excused, Settled, Past
<1>10. \A o \in Tabs : \A k : Pumping(o, k)' =>
         \/ Pumping(o, k) /\ pump'[o] = pump[o]
         \/ o = t /\ Picked(pump'[t], new) /\ pump'[t].key = k /\ k \in LoadKeys(t)
  BY <1>5, <1>7, PickedFirst DEF Pumping
<1>11. \A o \in Tabs : \A k : Pumping(o, k) => Pumping(o, k)' /\ pump'[o] = pump[o]
  BY <1>7 DEF Pumping
\* What is taken up and settled is excused.
<1>12. \A k \in LoadKeys(t) : Settled(k) => Excused(k)
  BY <1>1 DEF OutboxInv, Once
<1>13. OutboxTypeOK'
  <2>1. had' \in [Tabs -> SUBSET Keys] /\ loading' \in [Tabs -> {Loaded} \cup [at : {"read"}, rows : Seq(RowSet)]]
    <3>1. LoadKeys(t) \subseteq Keys
      BY <1>2, OutboxAssumption DEF OutboxTypeOK, Keys
    <3> QED
      BY <1>1, <1>5, <3>1 DEF OutboxTypeOK
  <2>2. failedOnce' \in SUBSET Keys
    <3>1. FailedKeys(new) \subseteq RowKeys(new)
      BY DEF FailedKeys, RowKeys
    <3>2. LoadKeys(t) \subseteq Keys
      BY <1>2, OutboxAssumption DEF OutboxTypeOK, Keys
    <3> QED
      BY <1>1, <1>5, <3>1, <3>2 DEF OutboxTypeOK
  <2> QED
    BY <1>1, <1>7, <2>1, <2>2 DEF OutboxTypeOK
<1>14. ClosedIsEmpty' /\ SomebodySends'
  <2>1. ClosedIsEmpty'
    <3> SUFFICES ASSUME NEW o \in Tabs, ~ up[o]
                 PROVE  /\ box'[o] = <<>> /\ pump'[o] = Idle /\ ~ timer'[o]
                        /\ loading'[o] = Loaded /\ had'[o] = {} /\ leader' # o
      BY <1>1 DEF ClosedIsEmpty
    <3>1. o # t
      BY <1>2
    <3>2. box[o] = <<>> /\ pump[o] = Idle /\ ~ timer[o] /\ loading[o] = Loaded /\ had[o] = {} /\ leader # o
      BY DEF OutboxInv, ClosedIsEmpty
    <3>3. had'[o] = had[o] /\ box'[o] = box[o] /\ pump'[o] = pump[o] /\ timer'[o] = timer[o] /\ loading'[o] = loading[o]
      BY <1>7, <1>8, <3>1
    <3> QED
      BY <1>1, <3>2, <3>3
  <2>2. SomebodySends'
    BY <1>7 DEF SomebodySends
  <2> QED
    BY <2>1, <2>2
<1>15. Lists'
  <2>1. \A o \in Tabs : Ascending(box'[o]) /\ RowKeys(box'[o]) \subseteq had'[o] /\ had'[o] \subseteq 1 .. written
    <3> TAKE o \in Tabs
    <3>1. CASE o = t
      <4>1. had[t] \subseteq 1 .. written
        BY DEF OutboxInv, Lists
      <4> QED
        BY <1>2, <1>5, <1>7, <1>8, <3>1, <4>1
    <3>2. CASE o # t
      <4>1. Ascending(box[o]) /\ RowKeys(box[o]) \subseteq had[o] /\ had[o] \subseteq 1 .. written
        BY DEF OutboxInv, Lists
      <4> QED
        BY <1>7, <1>8, <3>2, <4>1
    <3> QED
      BY <3>1, <3>2
  <2>2. ASSUME NEW o \in Tabs, pump'[o] # Idle
        PROVE  pump'[o].key \in had'[o] /\ (pump'[o].at = "accepted" => pump'[o].key \in Range(server))
    <3>1. CASE pump[o] # Idle /\ pump'[o] = pump[o]
      BY <1>8, <3>1 DEF OutboxInv, Lists
    <3>2. CASE o = t /\ Picked(pump'[t], new) /\ pump'[t].key \in LoadKeys(t)
      BY <1>8, <3>2 DEF Picked
    <3> QED
      BY <1>10, <2>2, <3>1, <3>2 DEF Pumping
  <2>3. \A o \in Tabs : loading'[o] # Loaded =>
           Ascending(loading'[o].rows) /\ RowKeys(loading'[o].rows) \subseteq 1 .. written
    BY <1>8 DEF OutboxInv, Lists
  <2>4. /\ Ascending(disk) /\ RowKeys(disk) \subseteq 1 .. written /\ Range(server) \subseteq 1 .. written
        /\ stray \subseteq untold /\ stray \subseteq 1 .. written /\ discarded \subseteq 1 .. written
    BY DEF OutboxInv, Lists
  <2> QED
    BY <1>1, <2>1, <2>2, <2>3, <2>4 DEF Lists
<1>16. Kept' /\ Shared'
  <2>1. Kept'
    <3> SUFFICES ASSUME NEW o \in Tabs, NEW k \in had'[o]
                 PROVE  k \in RowKeys(box'[o]) \/ Settled(k)
      BY <1>9 DEF Kept
    <3>1. CASE k \in had[o]
      BY <1>2, <1>7, <3>1 DEF OutboxInv, Kept
    <3>2. CASE o = t /\ k \in LoadKeys(t)
      BY <1>5, <1>7, <3>2
    <3> QED
      BY <1>8, <3>1, <3>2
  <2>2. \A o \in Tabs : LoadKeys(t) \cap had[o] \subseteq tangled
    BY <1>1 DEF OutboxInv, Shared
  <2>3. \A o, p \in Tabs : o # p => had'[o] \cap had'[p] \subseteq tangled
    BY <1>8, <2>2 DEF OutboxInv, Shared
  <2>4. \A o, p \in Tabs : leader' = o => LoadKeys(o)' \cap had'[p] \subseteq tangled
    BY <1>1, <1>8
  <2>5. \A o \in Tabs : box'[o] # <<>> => LoadKeys(o)' \subseteq tangled
    <3> SUFFICES ASSUME NEW o \in Tabs, box'[o] # <<>>
                 PROVE  LoadKeys(o)' \subseteq tangled
      OBVIOUS
    <3>1. CASE o # t
      BY <1>7, <1>8, <3>1 DEF OutboxInv, Shared
    <3> QED
      BY <1>8, <3>1
  <2> QED
    BY <1>1, <2>1, <2>3, <2>4, <2>5 DEF Shared
<1>17. Once'
  <2>0. \A o \in Tabs : \A k : k \in RowKeys(box'[o]) => k \in RowKeys(box[o]) \/ (o = t /\ k \in LoadKeys(t))
    BY <1>5, <1>7
  <2>1. \A o \in Tabs, k \in Keys : k \in RowKeys(box'[o]) /\ k \in Range(server') =>
           Excused(k)' \/ (Pumping(o, k)' /\ pump'[o].at = "accepted")
    BY <1>1, <1>9, <1>11, <1>12, <2>0 DEF OutboxInv, Once, Settled
  <2>2. \A o \in Tabs, k \in Keys : k \in RowKeys(box'[o]) /\ k \in discarded' => Excused(k)'
    BY <1>1, <1>9, <1>12, <2>0 DEF OutboxInv, Once, Settled
  <2>3. \A k \in RowKeys(disk') : Settled(k)' => Excused(k)' \/ \E o \in Tabs : k \in had'[o]
    BY <1>1, <1>8, <1>9 DEF OutboxInv, Once
  <2>4. \A o \in Tabs : leader' = o => \A k \in LoadKeys(o)' : Settled(k)' => Excused(k)'
    BY <1>1, <1>8, <1>9 DEF OutboxInv, Once
  <2>5. ASSUME NEW o \in Tabs, NEW k \in Keys, Pumping(o, k)', k \in discarded'
        PROVE  k \in cancelled'[o] \/ Excused(k)'
    BY <1>1, <1>9, <1>10, <1>12, <2>5 DEF OutboxInv, Once, Settled
  <2>6. ASSUME NEW o \in Tabs, NEW k \in Keys, Pumping(o, k)', k \in Range(server')
        PROVE  Excused(k)' \/ pump'[o].at = "accepted"
    BY <1>1, <1>9, <1>10, <1>12, <2>6 DEF OutboxInv, Once, Settled
  <2> QED
    BY <2>1, <2>2, <2>3, <2>4, <2>5, <2>6 DEF Once
<1>18. InTurn'
  <2> SUFFICES ASSUME NEW k \in Keys, NEW l \in Keys, l <= written, Before(k, l)'
               PROVE  /\ l \notin Range(server) /\ l \notin stray
                      /\ \A o \in Tabs : ~ Pumping(o, l)'
                      /\ \A o \in Tabs : l \in RowKeys(box'[o]) => k \in RowKeys(box'[o])
                      /\ \A o \in Tabs : l \in LoadKeys(o)' => k \in LoadKeys(o)'
                      /\ l \in RowKeys(disk) => k \in RowKeys(disk)
    BY <1>1 DEF InTurn
  <2>1. Before(k, l) /\ k < l /\ ~ Past(k)'
    BY <1>1, <1>9 DEF Before
  <2>2. /\ l \notin Range(server) /\ l \notin stray
        /\ \A o \in Tabs : ~ Pumping(o, l)
        /\ \A o \in Tabs : l \in RowKeys(box[o]) => k \in RowKeys(box[o])
        /\ \A o \in Tabs : l \in LoadKeys(o) => k \in LoadKeys(o)
        /\ l \in RowKeys(disk) => k \in RowKeys(disk)
    BY <2>1 DEF OutboxInv, InTurn
  <2>3. \A o \in Tabs : l \in RowKeys(box'[o]) => k \in RowKeys(box'[o])
    BY <1>5, <1>7, <2>2
  <2>4. \A o \in Tabs : l \in LoadKeys(o)' => k \in LoadKeys(o)'
    BY <1>8, <2>2
  <2>5. ASSUME NEW o \in Tabs, Pumping(o, l)'
        PROVE  FALSE
    <3>1. Picked(pump'[t], new) /\ pump'[t].key = l /\ l \in LoadKeys(t)
      BY <1>10, <2>2, <2>5
    <3>2. k \in RowKeys(new)
      BY <1>5, <2>2, <3>1
    <3>3. k \in FailedKeys(new)
      BY <1>5, <2>1, <3>1, <3>2, PickedFirst
    <3> QED
      BY <1>1, <2>1, <3>3 DEF Past
  <2> QED
    BY <2>2, <2>3, <2>4, <2>5
<1>19. Found'
  <2>1. ASSUME NEW k \in 1 .. written', NEW o \in Tabs, by'[k] = o, up'[o]
        PROVE  Past(k)' \/ k \in RowKeys(box'[o]) \cup LoadKeys(o)'
    <3>1. Past(k) \/ k \in RowKeys(box[o]) \cup LoadKeys(o)
      BY <1>1, <2>1 DEF OutboxInv, Found
    <3> QED
      BY <1>2, <1>5, <1>7, <1>8, <1>9, <3>1
  <2>2. ASSUME NEW k \in 1 .. written', NEW o \in Tabs, by'[k] # o, k \in RowKeys(box'[o])
        PROVE  Past(k)' \/ k \in RowKeys(disk')
    <3>1. Past(k) \/ k \in RowKeys(disk)
      <4>1. CASE o = t
        BY <1>1, <1>5, <1>7, <2>2, <4>1 DEF OutboxInv, Found
      <4>2. CASE o # t
        BY <1>1, <1>7, <2>2, <4>2 DEF OutboxInv, Found
      <4> QED
        BY <4>1, <4>2
    <3> QED
      BY <1>1, <1>9, <3>1
  <2>3. ASSUME NEW k \in 1 .. written', NEW o \in Tabs, leader' = o, k \in LoadKeys(o)'
        PROVE  Past(k)' \/ k \in RowKeys(disk')
    BY <1>1, <1>8, <2>3
  <2>4. \A o \in Tabs : FailedKeys(box'[o]) \subseteq failedOnce'
    BY <1>1, <1>7, <1>8 DEF OutboxInv, Found
  <2> QED
    BY <2>1, <2>2, <2>3, <2>4 DEF Found
<1>20. OrderKept'
  BY <1>1, <1>8 DEF OutboxInv, OrderKept
<1>21. CancelledStaysOut'
  BY <1>1, <1>11 DEF OutboxInv, CancelledStaysOut, Pumping
<1>22. QueueSurvives'
  <2>1. \A o \in Tabs : \A k : k \in RowKeys(box[o]) => k \in RowKeys(box'[o])
    BY <1>2, <1>7
  <2> QED
    BY <1>1, <2>1 DEF OutboxInv, QueueSurvives
<1> QED
  BY <1>13, <1>14, <1>15, <1>16, <1>17, <1>18, <1>19, <1>20, <1>21, <1>22 DEF OutboxInv

----------------------------------------------------------------------------
(* The record is written; a page ends.                                     *)

\* What a write puts on disk, and what it takes from there.
LEMMA WriteDoes ==
    ASSUME OutboxInv, NEW t \in Tabs, Write(t)
    PROVE  /\ disk' \in Seq(RowSet) /\ Ascending(disk') /\ RowKeys(disk') = RowKeys(box[t])
           /\ tangled \subseteq tangled' /\ tangled' \in SUBSET Keys
           /\ \A k \in RowKeys(disk) : k \in RowKeys(disk') \/ Settled(k) \/ k \in tangled'
           /\ behind' \in SUBSET Tabs
<1> USE TabFacts
<1>1. disk' = Persisted(box[t]) /\ tangled' = tangled \cup (RowKeys(disk) \ had[t])
  BY DEF Write
<1> DEFINE new == Persisted(box[t])
<1>2. \A x \in RowSet : [x EXCEPT !.file = FALSE] \in RowSet /\ [x EXCEPT !.file = FALSE].key = x.key
  BY DEF RowSet
<1>3. /\ DOMAIN new = DOMAIN box[t] /\ new = [i \in DOMAIN new |-> new[i]]
      /\ \A i \in DOMAIN box[t] : new[i] \in RowSet /\ new[i].key = box[t][i].key
  <2>1. \A i \in DOMAIN box[t] : box[t][i] \in RowSet
    OBVIOUS
  <2> QED
    BY <1>2, <2>1 DEF Persisted
<1> HIDE DEF new
<1>4. new \in Seq(RowSet) /\ Ascending(new) /\ RowKeys(new) = RowKeys(box[t])
  BY <1>3, SameKeys
<1>5. disk' \in Seq(RowSet) /\ Ascending(disk') /\ RowKeys(disk') = RowKeys(box[t])
  BY <1>1, <1>4 DEF new
<1>6. RowKeys(disk) \subseteq Keys
  <2>1. RowKeys(disk) \subseteq 1 .. written
    BY DEF OutboxInv, Lists
  <2>2. 1 .. written \subseteq Keys
    BY OutboxAssumption DEF OutboxTypeOK, Keys
  <2> QED
    BY <2>1, <2>2
<1>7. tangled \subseteq tangled' /\ tangled' \in SUBSET Keys
  BY <1>1, <1>6 DEF OutboxTypeOK
<1>8. \A k \in RowKeys(disk) : k \in RowKeys(disk') \/ Settled(k) \/ k \in tangled'
  BY <1>1, <1>5 DEF OutboxInv, Kept
<1>9. behind' \in SUBSET Tabs
  BY DEF Write, OutboxTypeOK
<1> QED
  BY <1>5, <1>7, <1>8, <1>9

\* flush.
LEMMA FlushKeeps ==
    ASSUME OutboxInv, NEW t \in Tabs, Flush(t)
    PROVE  OutboxInv'
<1>1. /\ Write(t)
      /\ up' = up /\ box' = box /\ pump' = pump /\ timer' = timer /\ cancelled' = cancelled
      /\ loading' = loading /\ leader' = leader
      /\ server' = server /\ gone' = gone /\ stray' = stray /\ deleting' = deleting
      /\ written' = written /\ by' = by /\ had' = had /\ discarded' = discarded
      /\ failedOnce' = failedOnce /\ untold' = untold /\ unsaved' = unsaved
  BY DEF Flush, tabs, net
<1>2. /\ disk' \in Seq(RowSet) /\ Ascending(disk') /\ RowKeys(disk') = RowKeys(box[t])
      /\ tangled \subseteq tangled' /\ tangled' \in SUBSET Keys
      /\ \A k \in RowKeys(disk) : k \in RowKeys(disk') \/ Settled(k) \/ k \in tangled'
      /\ behind' \in SUBSET Tabs
  BY <1>1, WriteDoes
<1>3. \A k : /\ Excused(k) => Excused(k)'
             /\ Settled(k)' <=> Settled(k)
             /\ Past(k) => Past(k)'
             /\ Settled(k) \/ k \in tangled' => Past(k)'
  BY <1>1, <1>2 DEF Excused, Settled, Past
<1>4. \A o \in Tabs : \A k : (Pumping(o, k)' <=> Pumping(o, k)) /\ LoadKeys(o)' = LoadKeys(o)
  BY <1>1 DEF Pumping, LoadKeys
<1>5. RowKeys(box[t]) \subseteq had[t] /\ had[t] \subseteq 1 .. written
  BY DEF OutboxInv, Lists
<1>6. OutboxTypeOK' /\ ClosedIsEmpty' /\ SomebodySends'
  BY <1>1, <1>2 DEF OutboxInv, OutboxTypeOK, ClosedIsEmpty, SomebodySends
<1>7. Lists'
  BY <1>1, <1>2, <1>5 DEF OutboxInv, Lists
<1>8. Kept' /\ Shared'
  BY <1>1, <1>2, <1>3, <1>4 DEF OutboxInv, Kept, Shared
<1>9. Once'
  BY <1>1, <1>2, <1>3, <1>4, <1>5 DEF OutboxInv, Once
<1>10. InTurn'
  <2>1. \A k, l \in Keys : Before(k, l)' => Before(k, l)
    BY <1>1, <1>3 DEF Before
  <2> QED
    BY <1>1, <1>2, <1>4, <2>1 DEF OutboxInv, InTurn
<1>11. Found'
  <2>1. \A k : Past(k) \/ k \in RowKeys(disk) => Past(k)' \/ k \in RowKeys(disk')
    BY <1>2, <1>3
  <2> QED
    BY <1>1, <1>3, <1>4, <2>1 DEF OutboxInv, Found
<1>12. OrderKept' /\ CancelledStaysOut'
  BY <1>1, <1>2 DEF OutboxInv, OrderKept, CancelledStaysOut
<1>13. QueueSurvives'
  BY <1>1, <1>2 DEF OutboxInv, QueueSurvives, Settled
<1> QED
  BY <1>6, <1>7, <1>8, <1>9, <1>10, <1>11, <1>12, <1>13 DEF OutboxInv

\* A page that ends, whether its rows were written before or not.
LEMMA GoneKeeps ==
    ASSUME OutboxInv, NEW t \in Tabs, Gone(t), behind' \in SUBSET Tabs,
           disk' \in Seq(RowSet), Ascending(disk'), RowKeys(disk') \subseteq RowKeys(disk) \cup RowKeys(box[t]),
           tangled \subseteq tangled', tangled' \in SUBSET Keys,
           unsaved \subseteq unsaved', unsaved' \in SUBSET Keys,
           \A k \in RowKeys(disk) : k \in RowKeys(disk') \/ Settled(k) \/ k \in tangled',
           \A k \in RowKeys(disk') : k \in had[t] => k \in RowKeys(box[t]) \/ k \in unsaved',
           \A k \in RowKeys(box[t]) : k \in RowKeys(disk') \/ k \in unsaved',
           RowKeys(disk') = RowKeys(box[t]) \/ disk' = disk,
           UNCHANGED <<server, gone, deleting, written, by, discarded, failedOnce>>
    PROVE  OutboxInv'
<1> USE TabFacts
<1>1. /\ up' = [up EXCEPT ![t] = FALSE] /\ box' = [box EXCEPT ![t] = <<>>]
      /\ timer' = [timer EXCEPT ![t] = FALSE] /\ cancelled' = [cancelled EXCEPT ![t] = {}]
      /\ loading' = [loading EXCEPT ![t] = Loaded] /\ leader' = IF leader = t THEN Nobody ELSE leader
      /\ pump' = [pump EXCEPT ![t] = Idle] /\ had' = [had EXCEPT ![t] = {}]
      /\ untold' = IF pump[t] = Idle THEN untold ELSE untold \cup {pump[t].key}
      /\ stray' = IF pump[t] # Idle /\ pump[t].at = "wire" THEN stray \cup {pump[t].key} ELSE stray
      /\ server' = server /\ gone' = gone /\ deleting' = deleting
      /\ written' = written /\ by' = by /\ discarded' = discarded /\ failedOnce' = failedOnce
  BY DEF Gone
<1>2. /\ ~ up'[t] /\ box'[t] = <<>> /\ ~ timer'[t] /\ loading'[t] = Loaded /\ pump'[t] = Idle /\ had'[t] = {}
      /\ RowKeys(box'[t]) = {} /\ FailedKeys(box'[t]) = {} /\ LoadKeys(t)' = {}
  <2>1. ~ up'[t] /\ box'[t] = <<>> /\ ~ timer'[t] /\ loading'[t] = Loaded /\ pump'[t] = Idle /\ had'[t] = {}
    BY <1>1 DEF OutboxTypeOK
  <2> QED
    BY <2>1 DEF RowKeys, FailedKeys, LoadKeys
<1>3. \A o \in Tabs \ {t} :
         /\ up'[o] = up[o] /\ box'[o] = box[o] /\ timer'[o] = timer[o] /\ cancelled'[o] = cancelled[o]
         /\ loading'[o] = loading[o] /\ pump'[o] = pump[o] /\ had'[o] = had[o] /\ LoadKeys(o)' = LoadKeys(o)
  BY <1>1 DEF OutboxTypeOK, LoadKeys
<1>4. \A o \in Tabs : leader' = o => o # t /\ leader = o
  BY <1>1, OutboxAssumption
<1>5. /\ untold \subseteq untold' /\ stray' \subseteq untold'
      /\ \A k : Pumping(t, k) => k \in untold'
      /\ \A k \in stray' : k \in stray \/ Pumping(t, k)
      /\ stray \subseteq stray'
  BY <1>1 DEF OutboxInv, Lists, Pumping
<1>6. \A k : /\ Excused(k) => Excused(k)'
             /\ Settled(k)' <=> Settled(k)
             /\ Past(k) => Past(k)'
             /\ Settled(k) \/ k \in tangled' \/ k \in unsaved' => Past(k)'
             /\ Pumping(t, k) \/ k \in unsaved' => Excused(k)'
  BY <1>1, <1>5 DEF Excused, Settled, Past
<1>7. \A o \in Tabs : \A k : Pumping(o, k)' => o # t /\ Pumping(o, k) /\ pump'[o] = pump[o]
  BY <1>2, <1>3 DEF Pumping
<1>8. OutboxTypeOK'
  <2>1. /\ up' \in [Tabs -> BOOLEAN] /\ box' \in [Tabs -> Seq(RowSet)] /\ timer' \in [Tabs -> BOOLEAN]
        /\ cancelled' \in [Tabs -> SUBSET Keys] /\ pump' \in [Tabs -> {Idle} \cup Sends]
        /\ had' \in [Tabs -> SUBSET Keys] /\ leader' \in Tabs \cup {Nobody}
    BY <1>1 DEF OutboxTypeOK
  <2>2. loading' \in [Tabs -> {Loaded} \cup [at : {"read"}, rows : Seq(RowSet)]]
    BY <1>1 DEF OutboxTypeOK
  <2>3. untold' \in SUBSET Keys /\ stray' \in SUBSET Keys
    BY <1>1 DEF OutboxTypeOK
  <2> QED
    BY <1>1, <2>1, <2>2, <2>3 DEF OutboxTypeOK
<1>9. ClosedIsEmpty'
  <2> SUFFICES ASSUME NEW o \in Tabs, ~ up'[o]
               PROVE  /\ box'[o] = <<>> /\ pump'[o] = Idle /\ ~ timer'[o]
                      /\ loading'[o] = Loaded /\ had'[o] = {} /\ leader' # o
    BY DEF ClosedIsEmpty
  <2>1. CASE o = t
    BY <1>2, <1>4, <2>1
  <2>2. CASE o # t
    <3>1. box[o] = <<>> /\ pump[o] = Idle /\ ~ timer[o] /\ loading[o] = Loaded /\ had[o] = {} /\ leader # o
      BY <1>3, <2>2 DEF OutboxInv, ClosedIsEmpty
    <3> QED
      BY <1>3, <1>4, <2>2, <3>1
  <2> QED
    BY <2>1, <2>2
<1>10. SomebodySends'
  <2> SUFFICES ASSUME NEW o \in Tabs, Sending(box'[o]) # {}
               PROVE  pump'[o] # Idle \/ timer'[o]
    BY DEF SomebodySends
  <2>1. o # t
    BY <1>2 DEF Sending
  <2> QED
    BY <1>3, <2>1 DEF OutboxInv, SomebodySends
<1>11. Lists'
  <2>1. \A o \in Tabs : Ascending(box'[o]) /\ RowKeys(box'[o]) \subseteq had'[o] /\ had'[o] \subseteq 1 .. written
    <3> TAKE o \in Tabs
    <3>1. CASE o = t
      BY <1>2, <3>1 DEF Ascending
    <3>2. CASE o # t
      BY <1>3, <3>2 DEF OutboxInv, Lists
    <3> QED
      BY <3>1, <3>2
  <2>2. \A o \in Tabs : loading'[o] # Loaded =>
           Ascending(loading'[o].rows) /\ RowKeys(loading'[o].rows) \subseteq 1 .. written
    BY <1>2, <1>3 DEF OutboxInv, Lists
  <2>3. \A o \in Tabs : pump'[o] # Idle =>
           pump'[o].key \in had'[o] /\ (pump'[o].at = "accepted" => pump'[o].key \in Range(server))
    BY <1>2, <1>3 DEF OutboxInv, Lists
  <2>4. RowKeys(disk') \subseteq 1 .. written
    BY DEF OutboxInv, Lists
  <2>5. stray' \subseteq 1 .. written
    BY <1>5 DEF OutboxInv, Lists, Pumping
  <2>6. Range(server) \subseteq 1 .. written /\ discarded \subseteq 1 .. written
    BY DEF OutboxInv, Lists
  <2> QED
    BY <1>1, <1>5, <2>1, <2>2, <2>3, <2>4, <2>5, <2>6 DEF Lists
<1>12. Kept'
  <2> SUFFICES ASSUME NEW o \in Tabs, NEW k \in had'[o]
               PROVE  k \in RowKeys(box'[o]) \/ Settled(k)
    BY <1>6 DEF Kept
  <2>1. o # t
    BY <1>2
  <2> QED
    BY <1>3, <2>1 DEF OutboxInv, Kept
<1>13. Shared'
  <2>1. \A o \in Tabs : had'[o] \subseteq had[o] /\ LoadKeys(o)' \subseteq LoadKeys(o) /\ (box'[o] # <<>> => box[o] # <<>>)
    BY <1>2, <1>3
  <2>2. \A o, p \in Tabs : o # p => had'[o] \cap had'[p] \subseteq tangled'
    BY <2>1 DEF OutboxInv, Shared
  <2>3. \A o, p \in Tabs : leader' = o => LoadKeys(o)' \cap had'[p] \subseteq tangled'
    BY <1>4, <2>1 DEF OutboxInv, Shared
  <2>4. \A o \in Tabs : box'[o] # <<>> => LoadKeys(o)' \subseteq tangled'
    BY <2>1 DEF OutboxInv, Shared
  <2> QED
    BY <2>2, <2>3, <2>4 DEF Shared
\* A settled row of the page that ends is excused.
<1>14. \A k \in Keys : k \in RowKeys(box[t]) /\ Settled(k) => Excused(k)'
  <2>1. \A k \in Keys : k \in RowKeys(box[t]) /\ k \in Range(server) => Excused(k) \/ Pumping(t, k)
    BY DEF OutboxInv, Once
  <2>2. \A k \in Keys : k \in RowKeys(box[t]) /\ k \in discarded => Excused(k)
    BY DEF OutboxInv, Once
  <2> QED
    BY <1>6, <2>1, <2>2 DEF Settled
<1>15. Once'
  <2>1. \A o \in Tabs : \A k : k \in RowKeys(box'[o]) => o # t /\ k \in RowKeys(box[o])
    BY <1>2, <1>3
  <2>2. ASSUME NEW o \in Tabs, NEW k \in Keys, k \in RowKeys(box'[o]), k \in Range(server)
        PROVE  Excused(k)' \/ (Pumping(o, k)' /\ pump'[o].at = "accepted")
    <3>1. o # t /\ k \in RowKeys(box[o])
      BY <2>1, <2>2
    <3>2. Excused(k) \/ (Pumping(o, k) /\ pump[o].at = "accepted")
      BY <2>2, <3>1 DEF OutboxInv, Once
    <3>3. pump'[o] = pump[o]
      BY <1>3, <3>1
    <3> QED
      BY <1>6, <3>2, <3>3 DEF Pumping
  <2>3. \A o \in Tabs, k \in Keys : k \in RowKeys(box'[o]) /\ k \in discarded => Excused(k)'
    BY <1>6, <2>1 DEF OutboxInv, Once
  <2>4. ASSUME NEW k \in RowKeys(disk'), Settled(k)
        PROVE  Excused(k)' \/ \E o \in Tabs : k \in had'[o]
    <3>1. RowKeys(box[t]) \subseteq Keys
      OBVIOUS
    <3>2. CASE k \in RowKeys(box[t])
      BY <1>14, <2>4, <3>1, <3>2
    <3>3. CASE k \notin RowKeys(box[t])
      <4>1. Excused(k) \/ \E o \in Tabs : k \in had[o]
        BY <2>4, <3>3 DEF OutboxInv, Once
      <4>2. k \in had[t] => Excused(k)'
        BY <1>6, <3>3
      <4> QED
        BY <1>3, <1>6, <4>1, <4>2
    <3> QED
      BY <3>2, <3>3
  <2>5. \A o \in Tabs : leader' = o => \A k \in LoadKeys(o)' : Settled(k) => Excused(k)'
    BY <1>3, <1>4, <1>6 DEF OutboxInv, Once
  <2>6. \A o \in Tabs, k \in Keys : Pumping(o, k)' /\ k \in discarded => k \in cancelled'[o] \/ Excused(k)'
    BY <1>3, <1>6, <1>7 DEF OutboxInv, Once
  <2>7. \A o \in Tabs, k \in Keys : Pumping(o, k)' /\ k \in Range(server) =>
           Excused(k)' \/ pump'[o].at = "accepted"
    BY <1>6, <1>7 DEF OutboxInv, Once
  <2> QED
    BY <1>1, <1>6, <2>2, <2>3, <2>4, <2>5, <2>6, <2>7 DEF Once
<1>16. InTurn'
  <2> SUFFICES ASSUME NEW k \in Keys, NEW l \in Keys, l <= written, Before(k, l)'
               PROVE  /\ l \notin Range(server) /\ l \notin stray'
                      /\ \A o \in Tabs : ~ Pumping(o, l)'
                      /\ \A o \in Tabs : l \in RowKeys(box'[o]) => k \in RowKeys(box'[o])
                      /\ \A o \in Tabs : l \in LoadKeys(o)' => k \in LoadKeys(o)'
                      /\ l \in RowKeys(disk') => k \in RowKeys(disk')
    BY <1>1 DEF InTurn
  <2>1. Before(k, l) /\ ~ Past(k)'
    BY <1>1, <1>6 DEF Before
  <2>2. /\ l \notin Range(server) /\ l \notin stray
        /\ \A o \in Tabs : ~ Pumping(o, l)
        /\ \A o \in Tabs : l \in RowKeys(box[o]) => k \in RowKeys(box[o])
        /\ \A o \in Tabs : l \in LoadKeys(o) => k \in LoadKeys(o)
        /\ l \in RowKeys(disk) => k \in RowKeys(disk)
    BY <2>1 DEF OutboxInv, InTurn
  <2>3. l \notin stray' /\ \A o \in Tabs : ~ Pumping(o, l)'
    BY <1>5, <1>7, <2>2
  <2>4. \A o \in Tabs : l \in RowKeys(box'[o]) => k \in RowKeys(box'[o])
    BY <1>2, <1>3, <2>2
  <2>5. \A o \in Tabs : l \in LoadKeys(o)' => k \in LoadKeys(o)'
    BY <1>2, <1>3, <2>2
  <2>6. l \in RowKeys(disk') => k \in RowKeys(disk')
    BY <2>2
  <2> QED
    BY <2>2, <2>3, <2>4, <2>5, <2>6
<1>17. Found'
  <2>0. \A k : Past(k) \/ k \in RowKeys(disk) => Past(k)' \/ k \in RowKeys(disk')
    BY <1>6
  <2>1. ASSUME NEW k \in 1 .. written, NEW o \in Tabs, by[k] = o, up'[o]
        PROVE  Past(k)' \/ k \in RowKeys(box'[o]) \cup LoadKeys(o)'
    <3>1. o # t
      BY <1>2, <2>1
    <3> QED
      BY <1>3, <1>6, <2>1, <3>1 DEF OutboxInv, Found
  <2>2. ASSUME NEW k \in 1 .. written, NEW o \in Tabs, by[k] # o, k \in RowKeys(box'[o])
        PROVE  Past(k)' \/ k \in RowKeys(disk')
    <3>1. o # t
      BY <1>2, <2>2
    <3>2. Past(k) \/ k \in RowKeys(disk)
      BY <1>3, <2>2, <3>1 DEF OutboxInv, Found
    <3> QED
      BY <2>0, <3>2
  <2>3. ASSUME NEW k \in 1 .. written, NEW o \in Tabs, leader' = o, k \in LoadKeys(o)'
        PROVE  Past(k)' \/ k \in RowKeys(disk')
    <3>1. Past(k) \/ k \in RowKeys(disk)
      BY <1>3, <1>4, <2>3 DEF OutboxInv, Found
    <3> QED
      BY <2>0, <3>1
  <2>4. \A o \in Tabs : FailedKeys(box'[o]) \subseteq failedOnce
    <3> TAKE o \in Tabs
    <3>1. CASE o = t
      BY <1>2, <3>1
    <3>2. CASE o # t
      BY <1>3, <3>2 DEF OutboxInv, Found
    <3> QED
      BY <3>1, <3>2
  <2> QED
    BY <1>1, <2>1, <2>2, <2>3, <2>4 DEF Found
<1>18. OrderKept'
  BY <1>1 DEF OutboxInv, OrderKept
<1>19. CancelledStaysOut'
  <2> SUFFICES ASSUME NEW k \in discarded, k \in Range(server), k \notin gone \cup deleting \cup stray',
                      \A o \in Tabs : ~ Pumping(o, k)'
               PROVE  Excused(k)'
    BY <1>1 DEF CancelledStaysOut, Excused, Pumping
  <2>1. CASE Pumping(t, k)
    BY <1>6, <2>1
  <2>2. CASE ~ Pumping(t, k)
    <3>1. \A o \in Tabs : ~ Pumping(o, k)
      BY <1>3, <2>2 DEF Pumping
    <3>2. Excused(k)
      BY <1>5, <3>1 DEF OutboxInv, CancelledStaysOut, Excused, Pumping
    <3> QED
      BY <1>6, <3>2
  <2> QED
    BY <2>1, <2>2
<1>20. QueueSurvives'
  <2> SUFFICES ASSUME NEW k \in 1 .. written, ~ Settled(k), k \notin unsaved' \cup tangled'
               PROVE  (\E o \in Tabs : k \in RowKeys(box'[o])) \/ k \in RowKeys(disk')
    BY <1>1 DEF QueueSurvives, Settled
  <2>1. (\E o \in Tabs : k \in RowKeys(box[o])) \/ k \in RowKeys(disk)
    BY DEF OutboxInv, QueueSurvives, Settled
  <2> QED
    BY <1>3, <2>1
<1> QED
  BY <1>8, <1>9, <1>10, <1>11, <1>12, <1>13, <1>15, <1>16, <1>17, <1>18, <1>19, <1>20 DEF OutboxInv

\* pagehide.
LEMMA CloseKeeps ==
    ASSUME OutboxInv, NEW t \in Tabs, Close(t)
    PROVE  OutboxInv'
<1>1. /\ Write(t) /\ Gone(t) /\ unsaved' = unsaved
      /\ UNCHANGED <<server, gone, deleting, written, by, discarded, failedOnce>>
  BY DEF Close
<1>2. /\ disk' \in Seq(RowSet) /\ Ascending(disk') /\ RowKeys(disk') = RowKeys(box[t])
      /\ tangled \subseteq tangled' /\ tangled' \in SUBSET Keys
      /\ \A k \in RowKeys(disk) : k \in RowKeys(disk') \/ Settled(k) \/ k \in tangled'
      /\ behind' \in SUBSET Tabs
  BY <1>1, WriteDoes
<1>3. unsaved' \in SUBSET Keys
  BY <1>1 DEF OutboxInv, OutboxTypeOK
<1> QED
  BY <1>1, <1>2, <1>3, GoneKeeps

\* The page is killed, or closed while its record is refused.
LEMMA KillKeeps ==
    ASSUME OutboxInv, NEW t \in Tabs, Kill(t)
    PROVE  OutboxInv'
<1> USE TabFacts
<1>1. /\ Gone(t) /\ behind' = behind \ {t} /\ disk' = disk /\ tangled' = tangled
      /\ unsaved' = unsaved \cup {k \in had[t] : RowsOf(disk, k) # RowsOf(Persisted(box[t]), k)}
      /\ UNCHANGED <<server, gone, deleting, written, by, discarded, failedOnce>>
  BY DEF Kill
<1>2. RowKeys(Persisted(box[t])) = RowKeys(box[t])
  <2>1. \A i \in DOMAIN box[t] : box[t][i] \in RowSet
    OBVIOUS
  <2>2. \A x \in RowSet : [x EXCEPT !.file = FALSE].key = x.key
    BY DEF RowSet
  <2>3. /\ DOMAIN Persisted(box[t]) = DOMAIN box[t]
        /\ \A i \in DOMAIN box[t] : Persisted(box[t])[i].key = box[t][i].key
    BY <2>1, <2>2 DEF Persisted
  <2> QED
    BY <2>3 DEF RowKeys
\* A row that is as on disk is there if and only if the tab has it.
<1>3. \A rows, k : k \in RowKeys(rows) <=> RowsOf(rows, k) # {}
  BY DEF RowKeys, RowsOf
<1>4. \A k \in had[t] : k \notin unsaved' => (k \in RowKeys(disk) <=> k \in RowKeys(box[t]))
  BY <1>1, <1>2, <1>3
<1>5. disk \in Seq(RowSet) /\ Ascending(disk) /\ tangled \in SUBSET Keys
  BY DEF OutboxInv, OutboxTypeOK, Lists
<1>6. unsaved \subseteq unsaved' /\ unsaved' \in SUBSET Keys /\ behind' \in SUBSET Tabs
  BY <1>1 DEF OutboxTypeOK
<1>7. /\ \A k \in RowKeys(disk) : k \in had[t] => k \in RowKeys(box[t]) \/ k \in unsaved'
      /\ \A k \in RowKeys(box[t]) : k \in RowKeys(disk) \/ k \in unsaved'
  BY <1>4
<1> QED
  BY <1>1, <1>5, <1>6, <1>7, GoneKeeps

\* A step that changes at most whose number is lower.
LEMMA NumberDoesNotMatter ==
    ASSUME OutboxInv, behind' \in SUBSET Tabs,
           UNCHANGED <<up, box, pump, timer, cancelled, loading, leader, disk, net, history>>
    PROVE  OutboxInv'
<1>1. /\ up' = up /\ box' = box /\ pump' = pump /\ timer' = timer /\ cancelled' = cancelled
      /\ loading' = loading /\ leader' = leader /\ disk' = disk
      /\ server' = server /\ gone' = gone /\ stray' = stray /\ deleting' = deleting
      /\ written' = written /\ by' = by /\ had' = had /\ discarded' = discarded
      /\ failedOnce' = failedOnce /\ untold' = untold /\ tangled' = tangled /\ unsaved' = unsaved
  BY DEF net, history
<1>2. OutboxTypeOK' /\ ClosedIsEmpty' /\ Lists'
  BY <1>1 DEF OutboxInv, OutboxTypeOK, ClosedIsEmpty, Lists
<1>3. \A k : (Excused(k)' <=> Excused(k)) /\ (Settled(k)' <=> Settled(k)) /\ (Past(k)' <=> Past(k))
  BY <1>1 DEF Excused, Settled, Past
<1>4. \A t \in Tabs : \A k : LoadKeys(t)' = LoadKeys(t) /\ (Pumping(t, k)' <=> Pumping(t, k))
  BY <1>1 DEF LoadKeys, Pumping
<1>5. Kept' /\ Shared' /\ Once'
  BY <1>1, <1>3, <1>4 DEF OutboxInv, Kept, Shared, Once
<1>6. InTurn' /\ Found'
  BY <1>1, <1>3, <1>4 DEF OutboxInv, InTurn, Found, Before
<1>7. SomebodySends' /\ OrderKept' /\ CancelledStaysOut' /\ QueueSurvives'
  BY <1>1 DEF OutboxInv, SomebodySends, OrderKept, CancelledStaysOut, QueueSurvives
<1> QED
  BY <1>2, <1>5, <1>6, <1>7 DEF OutboxInv

\* A tab has the record's number: nothing else depends on it.
LEMMA CaughtUpKeeps ==
    ASSUME OutboxInv, NEW t \in Tabs, CaughtUp(t)
    PROVE  OutboxInv'
BY NumberDoesNotMatter DEF CaughtUp, OutboxInv, OutboxTypeOK

----------------------------------------------------------------------------
(* The theorems.                                                           *)

\* Before any page is opened.
LEMMA InitInv == Init => OutboxInv
<1> SUFFICES ASSUME Init PROVE OutboxInv
  OBVIOUS
<1>1. RowKeys(<<>>) = {} /\ FailedKeys(<<>>) = {} /\ Sending(<<>>) = {} /\ Ascending(<<>>) /\ Range(<<>>) = {}
  BY DEF RowKeys, FailedKeys, Sending, Ascending, Range
<1>2. OutboxTypeOK
  BY OutboxAssumption DEF Init, OutboxTypeOK
<1>3. \A t \in Tabs : ~ up[t] /\ box[t] = <<>> /\ pump[t] = Idle /\ ~ timer[t] /\ loading[t] = Loaded /\ had[t] = {} /\ leader # t
  BY OutboxAssumption DEF Init
<1>4. \A t \in Tabs : LoadKeys(t) = {} /\ \A k : ~ Pumping(t, k)
  BY <1>3 DEF LoadKeys, Pumping
<1>5. ClosedIsEmpty /\ Lists /\ Kept /\ Shared
  BY <1>1, <1>3, <1>4 DEF Init, ClosedIsEmpty, Lists, Kept, Shared
<1>6. Once /\ InTurn /\ Found
  BY <1>1, <1>3, <1>4 DEF Init, Once, InTurn, Found
<1>7. SomebodySends /\ OrderKept /\ CancelledStaysOut /\ QueueSurvives
  BY <1>1, <1>3 DEF Init, SomebodySends, OrderKept, CancelledStaysOut, QueueSurvives
<1> QED
  BY <1>2, <1>5, <1>6, <1>7 DEF OutboxInv

\* Nothing happens.
LEMMA StutterKeeps == OutboxInv /\ UNCHANGED vars => OutboxInv'
BY NumberDoesNotMatter DEF vars, tabs, OutboxInv, OutboxTypeOK

\* Every step of the browser, the server and the people.
LEMMA StepKeeps == OutboxInv /\ [Next]_vars => OutboxInv'
<1> SUFFICES ASSUME OutboxInv, [Next]_vars PROVE OutboxInv'
  OBVIOUS
<1>1. ASSUME NEW t \in Tabs, TabStep(t) PROVE OutboxInv'
  <2>1. CASE Enqueue(t)
    BY <2>1, EnqueueKeeps
  <2>2. CASE UploadDone(t)
    BY <2>2, UploadDoneIsCalm, CalmKeeps
  <2>3. CASE FileMissing(t)
    BY <2>3, FailuresAreCalm, CalmKeeps
  <2>4. CASE Accept(t)
    BY <2>4, AcceptIsCalm, CalmKeeps
  <2>5. CASE Answered(t)
    BY <2>5, AnsweredIsCalm, CalmKeeps
  <2>6. CASE TimerFires(t)
    BY <2>6, TimerFiresIsCalm, CalmKeeps
  <2>7. CASE Reconnect(t)
    BY <2>7, ReconnectIsCalm, CalmKeeps
  <2>8. CASE Open(t)
    BY <2>8, OpenKeeps
  <2>9. CASE TakeUp(t)
    BY <2>9, TakeUpKeeps
  <2>10. CASE PassOver(t)
    BY <2>10, PassOverKeeps
  <2>11. CASE Flush(t)
    BY <2>11, FlushKeeps
  <2>12. CASE Close(t)
    BY <2>12, CloseKeeps
  <2>13. CASE Kill(t)
    BY <2>13, KillKeeps
  <2>14. CASE \E k \in Keys : Retry(t, k) \/ Discard(t, k)
    BY <2>14, RetryIsCalm, DiscardIsCalm, CalmKeeps
  <2>15. CASE \E offline \in BOOLEAN :
                \/ \E why \in {"refused", "busy"} : Rejected(t, why, offline)
                \/ GivenUp(t, offline)
    BY <2>15, FailuresAreCalm, CalmKeeps
  <2>16. CASE CaughtUp(t)
    BY <2>16, CaughtUpKeeps
  <2> QED
    BY <1>1, <2>1, <2>2, <2>3, <2>4, <2>5, <2>6, <2>7, <2>8, <2>9, <2>10, <2>11, <2>12, <2>13,
       <2>14, <2>15, <2>16 DEF TabStep
<1>2. ASSUME NEW k \in Keys, StrayArrives(k) \/ Deleted(k) PROVE OutboxInv'
  BY <1>2, StrayArrivesKeeps, DeletedKeeps
<1> QED
  BY <1>1, <1>2, StutterKeeps DEF Next

\* INV: the inductive invariant holds in every state.  It is what makes the
\* four promises of the queue hold over retries, lost answers, cancellations,
\* reloads and the record that the tabs share.
THEOREM OutboxInvariant == Spec => []OutboxInv
BY InitInv, StepKeeps, PTL DEF Spec

\* INV: every variable of the queue has its type.
THEOREM OutboxTypeCorrect == Spec => []OutboxTypeOK
<1>1. OutboxInv => OutboxTypeOK
  BY DEF OutboxInv
<1> QED
  BY <1>1, OutboxInvariant, PTL

\* INV: a row that is to be sent never sleeps (pump is called after every change).
THEOREM NoRowSleeps == Spec => []SomebodySends
<1>1. OutboxInv => SomebodySends
  BY DEF OutboxInv
<1> QED
  BY <1>1, OutboxInvariant, PTL

\* INV: what a tab wrote arrives in the order of writing (nextToSend: the
\* head waits, the others wait behind it).
THEOREM OrderIsKept == Spec => []OrderKept
<1>1. OutboxInv => OrderKept
  BY DEF OutboxInv
<1> QED
  BY <1>1, OutboxInvariant, PTL

\* INV: a cancelled message does not stay with the other person (outboxDiscard
\* and cancelledInFlight).
THEOREM CancelledIsOut == Spec => []CancelledStaysOut
<1>1. OutboxInv => CancelledStaysOut
  BY DEF OutboxInv
<1> QED
  BY <1>1, OutboxInvariant, PTL

\* INV: what was written is sent, removed, in a queue, or on disk (pagehide and
\* the writer's flush).
THEOREM QueueIsKept == Spec => []QueueSurvives
<1>1. OutboxInv => QueueSurvives
  BY DEF OutboxInv
<1> QED
  BY <1>1, OutboxInvariant, PTL
=============================================================================
