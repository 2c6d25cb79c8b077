------------------------- MODULE SharedStateProofs -------------------------
(***************************************************************************)
(* Three things that handlers which overlap share: the rows that the       *)
(* journal's transactions lock (JournalLocks), the set of a black list in  *)
(* the memory of the backend (BlockCache), and presence's list of who sits *)
(* in a channel (VoicePresence).  The invariants hold for any number of    *)
(* transactions, calls, people, moves and faults.                          *)
(*   Rows: those of the four tables have an order, a conversation before a *)
(* scheduled message before a person before another instance, and people   *)
(* and instances by their ids.  A transaction that calls journal() once    *)
(* waits only for rows above all those it holds, so those who wait for one *)
(* another would hold rows that ascend for ever, and there are finitely    *)
(* many people and instances.  An operation on a group has an order of its *)
(* own, instances before people, which is the same one for everybody who   *)
(* waits for no instance.                                                  *)
(*   The two copies are replaced after a read and an await, so that what   *)
(* has to be said is who read last.                                        *)
(***************************************************************************)
EXTENDS JournalLocks, BlockCache, VoicePresence,
        FiniteSetTheorems, WellFoundedInduction, TLAPS

----------------------------------------------------------------------------
(* The rows under the journal.                                             *)

Rows ==
    {ConvRow(c) : c \in Convs} \cup {SchedRow(m) : m \in Scheduled}
        \cup {SyncRow(u) : u \in Users} \cup {FedRow(i) : i \in Instances}

\* The order in which a transaction of a kind takes rows: of the tables, and
\* by id among user_sync and among fed_conv_sync.
Below(kind, a, b) ==
    \/ a.table = "conversations" /\ b.table # "conversations"
    \/ a.table = "conversation_scheduled" /\ b.table \in {"user_sync", "fed_conv_sync"}
    \/ a.table = "user_sync" /\ b.table = "user_sync" /\ a.user < b.user
    \/ a.table = "fed_conv_sync" /\ b.table = "fed_conv_sync" /\ a.home < b.home
    \/ kind = "change" /\ a.table = "user_sync" /\ b.table = "fed_conv_sync"
    \/ kind = "group" /\ a.table = "fed_conv_sync" /\ b.table = "user_sync"

Ascending(kind, locks) == \A i, j \in DOMAIN locks : i < j => Below(kind, locks[i], locks[j])

LockTypeOK ==
    /\ op \in [Txs -> {"none", "change", "pin", "group", "copy", "prune", "tick"}]
    /\ todo \in [Txs -> Seq(Rows)]
    /\ held \in [Txs -> SUBSET Rows]

\* A transaction waits upwards only.
WaitsUpwards ==
    \A t \in Txs :
        /\ op[t] = "none" => held[t] = {} /\ todo[t] = <<>>
        /\ op[t] = "tick" => todo[t] = <<>>
                             /\ \A row \in held[t] : row.table = "conversation_scheduled"
        /\ op[t] \in {"change", "group"} =>
               /\ Ascending(op[t], todo[t])
               /\ \A row \in held[t], i \in DOMAIN todo[t] : Below(op[t], row, todo[t][i])

----------------------------------------------------------------------------
\* The smallest of a set of natural numbers.
LEMMA Smallest ==
    ASSUME NEW T, T \subseteq Nat, T # {}
    PROVE  \E n \in T : \A k \in T : n <= k
<1> DEFINE Less == OpToRel(<, Nat)
<1>1. \A k, n \in Nat : k < n => <<k, n>> \in Less
  BY DEF OpToRel
<1>2. IsWellFoundedOn(Less, Nat)
  BY NatLessThanWellFounded
<1> HIDE DEF Less
<1>3. PICK n \in T : \A k \in T : ~ (<<k, n>> \in Less)
  BY <1>2, WFMin, Zenon
<1>4. ASSUME NEW k \in T PROVE n <= k
  <2>1. ~ (k < n) /\ k \in Nat /\ n \in Nat
    BY <1>1, <1>3
  <2> QED
    BY <2>1
<1> QED
  BY <1>4

\* A finite set of ids has a greatest one.
LEMMA Greatest ==
    ASSUME NEW S, IsFiniteSet(S), S \subseteq Int, S # {}
    PROVE  \E m \in S : \A x \in S : x <= m
<1> DEFINE Good(R) == \E m \in R : \A x \in R : x <= m
           Bad == {n \in Nat : \E R \in SUBSET Int :
                      IsFiniteSet(R) /\ R # {} /\ Cardinality(R) = n /\ ~ Good(R)}
<1>1. SUFFICES ASSUME ~ Good(S) PROVE FALSE
  OBVIOUS
<1>2. Cardinality(S) \in Bad
  BY <1>1, FS_CardinalityType
<1>3. PICK n \in Bad : \A k \in Bad : n <= k
  <2> HIDE DEF Bad
  <2>1. Bad \subseteq Nat
    BY DEF Bad
  <2> QED
    BY <1>2, <2>1, Smallest
<1>4. PICK R \in SUBSET Int : IsFiniteSet(R) /\ R # {} /\ Cardinality(R) = n /\ ~ Good(R)
  BY <1>3
<1>5. PICK x \in R : TRUE
  BY <1>4
<1>6. IsFiniteSet(R \ {x}) /\ Cardinality(R \ {x}) = n - 1 /\ n - 1 \in Nat
  <2>1. Cardinality(R) \in Nat /\ Cardinality(R) # 0
    BY <1>4, FS_CardinalityType, FS_EmptySet
  <2>2. IsFiniteSet(R \ {x}) /\ Cardinality(R \ {x}) = Cardinality(R) - 1
    BY <1>4, <1>5, FS_RemoveElement
  <2> QED
    BY <1>4, <2>1, <2>2
<1>7. R \ {x} # {}
  BY <1>4, <1>5
<1>8. Good(R \ {x})
  <2>1. n - 1 \notin Bad
    BY <1>3, <1>6
  <2> QED
    BY <2>1, <1>6, <1>7
<1>9. Good(R)
  BY <1>8, <1>5
<1> QED
  BY <1>4, <1>9

Sorted(s) == \A i, j \in DOMAIN s : i < j => s[i] < s[j]

\* Any finite set of people can be lined up by id.
LEMMA SortedExists ==
    ASSUME NEW S, IsFiniteSet(S), S \subseteq Int
    PROVE  \E s \in Orders(S) : Sorted(s)
<1> DEFINE Good(R) == \E s \in [1 .. Cardinality(R) -> R] : Sorted(s)
           Bad == {n \in Nat : \E R \in SUBSET Int :
                      IsFiniteSet(R) /\ Cardinality(R) = n /\ ~ Good(R)}
<1>1. Good(S)
  <2>1. SUFFICES ASSUME ~ Good(S) PROVE FALSE
    OBVIOUS
  <2>2. Cardinality(S) \in Bad
    BY <2>1, FS_CardinalityType
  <2>3. PICK n \in Bad : \A k \in Bad : n <= k
    <3> HIDE DEF Bad
    <3>1. Bad \subseteq Nat
      BY DEF Bad
    <3> QED
      BY <2>2, <3>1, Smallest
  <2>4. PICK R \in SUBSET Int : IsFiniteSet(R) /\ Cardinality(R) = n /\ ~ Good(R)
    BY <2>3
  <2>5. CASE R = {}
    <3> DEFINE none == [i \in 1 .. 0 |-> 0]
    <3>1. none \in [1 .. Cardinality(R) -> R]
      BY <2>5, FS_EmptySet
    <3>2. Sorted(none)
      BY DEF Sorted
    <3> QED
      BY <2>4, <3>1, <3>2
  <2>6. CASE R # {}
    <3>1. PICK m \in R : \A x \in R : x <= m
      BY <2>4, <2>6, Greatest
    <3>2. IsFiniteSet(R \ {m}) /\ Cardinality(R \ {m}) = n - 1 /\ n - 1 \in Nat
      <4>1. Cardinality(R) \in Nat /\ Cardinality(R) # 0
        BY <2>4, <2>6, FS_CardinalityType, FS_EmptySet
      <4>2. IsFiniteSet(R \ {m}) /\ Cardinality(R \ {m}) = Cardinality(R) - 1
        BY <2>4, <3>1, FS_RemoveElement
      <4> QED
        BY <2>4, <4>1, <4>2
    <3>3. n - 1 \notin Bad
      BY <2>3, <3>2
    <3>4. PICK s \in [1 .. n - 1 -> R \ {m}] : Sorted(s)
      BY <3>2, <3>3
    <3> DEFINE u == [i \in 1 .. n |-> IF i = n THEN m ELSE s[i]]
    <3>5. n \in Nat /\ n = Cardinality(R)
      BY <2>4
    <3>6. u \in [1 .. Cardinality(R) -> R]
      BY <3>4, <3>5, <3>1
    <3>7. \A i \in 1 .. n - 1 : s[i] < m
      <4> SUFFICES ASSUME NEW i \in 1 .. n - 1 PROVE s[i] < m
        OBVIOUS
      <4>1. s[i] \in R \ {m} /\ R \subseteq Int
        BY <3>4
      <4>2. s[i] <= m /\ s[i] \in Int /\ m \in Int /\ s[i] # m
        BY <4>1, <3>1
      <4> QED
        BY <4>2
    <3>8. Sorted(u)
      <4> SUFFICES ASSUME NEW i \in 1 .. n, NEW j \in 1 .. n, i < j PROVE u[i] < u[j]
        BY DEF Sorted
      <4>1. i \in 1 .. n - 1
        BY <3>5
      <4>2. CASE j = n
        BY <4>1, <4>2, <3>5, <3>7
      <4>3. CASE j # n
        BY <4>1, <4>3, <3>5, <3>4 DEF Sorted
      <4> QED
        BY <4>2, <4>3
    <3> QED
      BY <2>4, <3>6, <3>8
  <2> QED
    BY <2>5, <2>6
<1>2. ASSUME NEW s \in [1 .. Cardinality(S) -> S], Sorted(s) PROVE s \in Orders(S)
  <2>1. Cardinality(S) \in Nat
    BY FS_CardinalityType
  <2>2. \A i, j \in DOMAIN s : s[i] = s[j] => i = j
    <3> SUFFICES ASSUME NEW i \in DOMAIN s, NEW j \in DOMAIN s, s[i] = s[j] PROVE i = j
      OBVIOUS
    <3>1. i \in Int /\ j \in Int /\ s[i] \in Int /\ s[j] \in Int
      <4>1. DOMAIN s = 1 .. Cardinality(S)
        OBVIOUS
      <4>2. s[i] \in S /\ s[j] \in S
        BY <4>1
      <4>3. s[i] \in Int /\ s[j] \in Int
        BY <4>2
      <4>4. i \in 1 .. Cardinality(S) /\ j \in 1 .. Cardinality(S)
        BY <4>1
      <4> QED
        BY <4>3, <4>4, <2>1
    <3>2. ~ (s[i] < s[j]) /\ ~ (s[j] < s[i])
      BY <3>1
    <3> QED
      BY <1>2, <3>1, <3>2 DEF Sorted
  <2> QED
    BY <2>2 DEF Orders, IsInjective
<1> QED
  BY <1>1, <1>2

\* A list a transaction of a kind can take, of rows of some tables.
Upwards(kind, tables, locks) ==
    /\ locks \in Seq(Rows)
    /\ Ascending(kind, locks)
    /\ \A i \in DOMAIN locks : locks[i].table \in tables

\* One list after another whose rows are above its own.
LEMMA InTurn ==
    ASSUME NEW kind, NEW S, NEW T, NEW first, NEW then,
           Upwards(kind, S, first), Upwards(kind, T, then),
           \A i \in DOMAIN first, j \in DOMAIN then : Below(kind, first[i], then[j])
    PROVE  Upwards(kind, S \cup T, first \o then)
<1> DEFINE all == first \o then
           n == Len(first)
<1> USE DEF Upwards
<1>1. first \in Seq(Rows) /\ then \in Seq(Rows) /\ n \in Nat
  OBVIOUS
<1>2. all \in Seq(Rows) /\ Len(all) = n + Len(then) /\ DOMAIN all = 1 .. Len(all)
  BY <1>1
<1>3. \A i \in DOMAIN all : i <= n => i \in DOMAIN first /\ all[i] = first[i]
  BY <1>1, <1>2
<1>4. \A i \in DOMAIN all : ~ (i <= n) => i - n \in DOMAIN then /\ all[i] = then[i - n]
  BY <1>1, <1>2
<1> HIDE DEF all, n
<1>5. ASSUME NEW i \in DOMAIN all, NEW j \in DOMAIN all, i < j
      PROVE  Below(kind, all[i], all[j])
  <2>1. i \in Nat /\ j \in Nat
    BY <1>2
  <2>2. CASE j <= n
    BY <1>1, <1>3, <1>5, <2>1, <2>2 DEF Ascending
  <2>3. CASE i <= n /\ ~ (j <= n)
    BY <1>3, <1>4, <2>3
  <2>4. CASE ~ (i <= n) /\ ~ (j <= n)
    <3>1. i - n < j - n
      BY <1>1, <1>5, <2>1
    <3> QED
      BY <1>4, <2>4, <3>1 DEF Ascending
  <2> QED
    BY <1>1, <1>5, <2>1, <2>2, <2>3, <2>4
<1>6. \A i \in DOMAIN all : all[i].table \in S \cup T
  BY <1>3, <1>4
<1> QED
  BY <1>2, <1>5, <1>6 DEF Ascending, all

\* JournalLockOrder lines up a finite set of ids.
LEMMA InOrder ==
    ASSUME NEW S, IsFiniteSet(S), S \subseteq Int
    PROVE  /\ Cardinality(S) \in Nat
           /\ JournalLockOrder(S) \in [1 .. Cardinality(S) -> S]
           /\ \A i, j \in 1 .. Cardinality(S) :
                 i < j => JournalLockOrder(S)[i] < JournalLockOrder(S)[j]
<1> DEFINE s == JournalLockOrder(S)
<1>1. \E o \in Orders(S) : \A i, j \in DOMAIN o : i < j => o[i] < o[j]
  BY SortedExists DEF Sorted
<1>2. s \in Orders(S) /\ \A i, j \in DOMAIN s : i < j => s[i] < s[j]
  BY <1>1 DEF JournalLockOrder
<1> HIDE DEF s
<1>3. s \in [1 .. Cardinality(S) -> S] /\ Cardinality(S) \in Nat
  BY <1>2, FS_CardinalityType DEF Orders
<1> QED
  BY <1>2, <1>3 DEF s

\* What journal() takes of the people's rows, and of the instances', goes up.
LEMMA PeopleAscend ==
    ASSUME NEW kind, NEW who, who \subseteq Users
    PROVE  Upwards(kind, {"user_sync"}, SyncRows(JournalLockOrder(who)))
<1> DEFINE s == JournalLockOrder(who)
           rows == SyncRows(s)
<1>1. /\ Cardinality(who) \in Nat /\ s \in [1 .. Cardinality(who) -> who]
      /\ \A i, j \in 1 .. Cardinality(who) : i < j => s[i] < s[j]
  BY InOrder, LocksAssumption, FS_Subset
<1> HIDE DEF s
<1>2. rows = [i \in 1 .. Cardinality(who) |-> SyncRow(s[i])]
  BY <1>1 DEF SyncRows
<1>3. \A i \in 1 .. Cardinality(who) : SyncRow(s[i]) \in Rows
  BY <1>1 DEF Rows
<1>4. \A i, j \in 1 .. Cardinality(who) : i < j => Below(kind, SyncRow(s[i]), SyncRow(s[j]))
  BY <1>1 DEF Below, SyncRow
<1>5. rows \in Seq(Rows)
  BY <1>1, <1>2, <1>3
<1>6. \A i \in 1 .. Cardinality(who) : SyncRow(s[i]).table = "user_sync"
  BY DEF SyncRow
<1>7. DOMAIN rows = 1 .. Cardinality(who) /\ \A i \in DOMAIN rows : rows[i] = SyncRow(s[i])
  BY <1>2
<1> HIDE DEF rows
<1>8. Upwards(kind, {"user_sync"}, rows)
  BY <1>4, <1>5, <1>6, <1>7 DEF Upwards, Ascending
<1> QED
  BY <1>8 DEF rows, s

LEMMA InstancesAscend ==
    ASSUME NEW kind, NEW homes, homes \subseteq Instances
    PROVE  Upwards(kind, {"fed_conv_sync"}, FedRecord(homes))
<1> DEFINE s == JournalLockOrder(homes)
           rows == FedRows(s)
<1>1. /\ Cardinality(homes) \in Nat /\ s \in [1 .. Cardinality(homes) -> homes]
      /\ \A i, j \in 1 .. Cardinality(homes) : i < j => s[i] < s[j]
  BY InOrder, LocksAssumption, FS_Subset
<1> HIDE DEF s
<1>2. rows = [i \in 1 .. Cardinality(homes) |-> FedRow(s[i])]
  BY <1>1 DEF FedRows
<1>3. \A i \in 1 .. Cardinality(homes) : FedRow(s[i]) \in Rows
  BY <1>1 DEF Rows
<1>4. \A i, j \in 1 .. Cardinality(homes) : i < j => Below(kind, FedRow(s[i]), FedRow(s[j]))
  BY <1>1 DEF Below, FedRow
<1>5. rows \in Seq(Rows)
  BY <1>1, <1>2, <1>3
<1>6. \A i \in 1 .. Cardinality(homes) : FedRow(s[i]).table = "fed_conv_sync"
  BY DEF FedRow
<1>7. DOMAIN rows = 1 .. Cardinality(homes) /\ \A i \in DOMAIN rows : rows[i] = FedRow(s[i])
  BY <1>2
<1> HIDE DEF rows
<1>8. Upwards(kind, {"fed_conv_sync"}, rows)
  BY <1>4, <1>5, <1>6, <1>7 DEF Upwards, Ascending
<1> QED
  BY <1>8 DEF FedRecord, rows, s

Journals == {"user_sync", "fed_conv_sync"}

LEMMA JournalAscends ==
    ASSUME NEW who, who \subseteq Users, NEW homes, homes \subseteq Instances
    PROVE  Upwards("change", Journals, Journal(who, homes))
<1> DEFINE people == SyncRows(JournalLockOrder(who))
           others == FedRecord(homes)
<1>1. Upwards("change", {"user_sync"}, people) /\ Upwards("change", {"fed_conv_sync"}, others)
  BY PeopleAscend, InstancesAscend
<1> HIDE DEF people, others
<1>2. \A i \in DOMAIN people, j \in DOMAIN others : Below("change", people[i], others[j])
  BY <1>1 DEF Upwards, Below
<1>3. Upwards("change", {"user_sync"} \cup {"fed_conv_sync"}, people \o others)
  BY <1>1, <1>2, InTurn
<1>4. {"user_sync"} \cup {"fed_conv_sync"} = Journals
  BY DEF Journals
<1> QED
  BY <1>3, <1>4 DEF Journal, people, others

\* The people alone, in either order of the tables.
LEMMA JournalOfPeople ==
    ASSUME NEW kind, NEW who, who \subseteq Users
    PROVE  Upwards(kind, {"user_sync"}, Journal(who, {}))
<1> DEFINE people == SyncRows(JournalLockOrder(who))
<1>1. Upwards(kind, {"user_sync"}, people)
  BY PeopleAscend
<1>2. FedRecord({}) = <<>>
  <2>1. Cardinality({}) = 0 /\ JournalLockOrder({}) \in [1 .. Cardinality({}) -> {}]
    BY InOrder, FS_EmptySet
  <2> QED
    BY <2>1 DEF FedRecord, FedRows
<1> HIDE DEF people
<1>3. people \o <<>> = people
  BY <1>1 DEF Upwards
<1>4. Journal(who, {}) = people
  BY <1>2, <1>3 DEF Journal, people
<1> QED
  BY <1>1, <1>4

\* A row is a list of one, and goes before a list of rows above it.
LEMMA PutBefore ==
    ASSUME NEW kind, NEW row \in Rows, NEW T, NEW locks, Upwards(kind, T, locks),
           \A i \in DOMAIN locks : Below(kind, row, locks[i])
    PROVE  Upwards(kind, {row.table} \cup T, <<row>> \o locks)
<1> DEFINE one == <<row>>
<1>1. one \in Seq(Rows) /\ DOMAIN one = {1} /\ one[1] = row
  OBVIOUS
<1> HIDE DEF one
<1>2. Upwards(kind, {row.table}, one)
  BY <1>1 DEF Upwards, Ascending
<1>3. \A i \in DOMAIN one, j \in DOMAIN locks : Below(kind, one[i], locks[j])
  BY <1>1
<1>4. Upwards(kind, {row.table} \cup T, one \o locks)
  BY <1>2, <1>3, InTurn
<1> QED
  BY <1>4 DEF one

LEMMA RowsOf ==
    /\ \A c \in Convs : /\ ConvRow(c) \in Rows /\ Members[c] \subseteq Users
                        /\ Homes[c] \subseteq Instances
    /\ \A m \in Scheduled : /\ SchedRow(m) \in Rows /\ ConvRow(m[1]) \in Rows
                            /\ {m[2]} \subseteq Users /\ Members[m[1]] \subseteq Users
                            /\ Homes[m[1]] \subseteq Instances
BY LocksAssumption DEF Rows, Convs

LEMMA SendingAscends ==
    ASSUME NEW m \in Scheduled, NEW locks \in SendingOf(m)
    PROVE  Upwards("change", Journals, locks)
<1>1. Upwards("change", Journals, Journal({m[2]}, {}))
  BY RowsOf, JournalAscends
<1>2. \A homes \in SUBSET Homes[m[1]] : Upwards("change", Journals, Journal(Members[m[1]], homes))
  BY RowsOf, JournalAscends
<1> QED
  BY <1>1, <1>2 DEF SendingOf

\* A conversation, or a scheduled message, may come before one journal().
LEMMA OneJournal ==
    ASSUME NEW row \in Rows, row.table \notin Journals, NEW locks, Upwards("change", Journals, locks)
    PROVE  Upwards("change", {row.table} \cup Journals, <<row>> \o locks)
<1>1. row.table \in {"conversations", "conversation_scheduled"}
  BY DEF Rows, ConvRow, SchedRow, SyncRow, FedRow, Journals
<1>2. \A i \in DOMAIN locks : Below("change", row, locks[i])
  BY <1>1 DEF Upwards, Below, Journals
<1> QED
  BY <1>2, PutBefore

\* The writers that call journal() once take their rows upwards.
LEMMA OneJournalBegins ==
    ASSUME NEW t \in Txs, Change(t) \/ Announce(t) \/ SendNow(t) \/ ChangeScheduled(t)
    PROVE  \E locks, tables : Upwards("change", tables, locks) /\ Begin(t, "change", locks)
<1>1. CASE Change(t)
  <2>1. PICK c \in Convs : \E told \in (SUBSET Members[c]) \ {{}}, homes \in SUBSET Homes[c] :
               Begin(t, "change", <<ConvRow(c)>> \o Journal(told, homes))
    BY <1>1 DEF Change
  <2>2. PICK told \in SUBSET Members[c], homes \in SUBSET Homes[c] :
               Begin(t, "change", <<ConvRow(c)>> \o Journal(told, homes))
    BY <2>1
  <2>3. ConvRow(c) \in Rows /\ ConvRow(c).table \notin Journals
    BY RowsOf DEF ConvRow, Journals
  <2>4. told \subseteq Users /\ homes \subseteq Instances
    BY RowsOf
  <2> QED
    BY <2>2, <2>3, <2>4, JournalAscends, OneJournal
<1>2. CASE Announce(t)
  <2>1. PICK c \in Convs : \E told \in (SUBSET Members[c]) \ {{}} : Begin(t, "change", Journal(told, {}))
    BY <1>2 DEF Announce
  <2>2. PICK told \in SUBSET Members[c] : Begin(t, "change", Journal(told, {}))
    BY <2>1
  <2> QED
    BY <2>2, RowsOf, JournalAscends
<1>3. CASE SendNow(t)
  <2>1. PICK m \in Scheduled : \E locks \in SendingOf(m) :
               Begin(t, "change", <<ConvRow(m[1]), SchedRow(m)>> \o locks)
    BY <1>3 DEF SendNow
  <2>2. PICK tail \in SendingOf(m) : Begin(t, "change", <<ConvRow(m[1]), SchedRow(m)>> \o tail)
    BY <2>1
  <2> DEFINE row == SchedRow(m)
             head == ConvRow(m[1])
             rest == <<row>> \o tail
  <2>3. row \in Rows /\ head \in Rows
    BY RowsOf
  <2>4. row.table = "conversation_scheduled" /\ head.table = "conversations"
    BY DEF SchedRow, ConvRow
  <2>5. Upwards("change", Journals, tail)
    BY SendingAscends
  <2> HIDE DEF row, head
  <2>6. Upwards("change", {row.table} \cup Journals, rest)
    BY <2>3, <2>4, <2>5, OneJournal DEF Journals
  <2>7. \A i \in DOMAIN rest : Below("change", head, rest[i])
    BY <2>4, <2>6 DEF Upwards, Below, Journals
  <2>8. Upwards("change", {head.table} \cup ({row.table} \cup Journals), <<head>> \o rest)
    <3> HIDE DEF rest
    <3> QED
      BY <2>3, <2>6, <2>7, PutBefore
  <2>9. <<head, row>> \o tail = <<head>> \o rest
    BY <2>3, <2>5 DEF Upwards
  <2>10. Begin(t, "change", <<head, row>> \o tail)
    BY <2>2 DEF head, row
  <2> QED
    BY <2>8, <2>9, <2>10
<1>4. CASE ChangeScheduled(t)
  <2>1. PICK m \in Scheduled : Begin(t, "change", <<SchedRow(m)>> \o Journal({m[2]}, {}))
    BY <1>4 DEF ChangeScheduled
  <2>2. SchedRow(m) \in Rows /\ SchedRow(m).table \notin Journals /\ {m[2]} \subseteq Users
    BY RowsOf DEF SchedRow, Journals
  <2> QED
    BY <2>1, <2>2, JournalAscends, OneJournal
<1> QED
  BY <1>1, <1>2, <1>3, <1>4

\* An operation on a group goes up in its own order.
LEMMA GroupActionBegins ==
    ASSUME NEW t \in Txs, GroupAction(t)
    PROVE  \E locks, tables : Upwards("group", tables, locks) /\ Begin(t, "group", locks)
<1>1. PICK c \in Convs : \E told \in (SUBSET Members[c]) \ {{}} :
             Begin(t, "group", <<ConvRow(c)>> \o FedRecord(Homes[c]) \o Journal(told, {}))
  BY DEF GroupAction
<1>2. PICK told \in SUBSET Members[c] :
             Begin(t, "group", <<ConvRow(c)>> \o FedRecord(Homes[c]) \o Journal(told, {}))
  BY <1>1
<1> DEFINE head == ConvRow(c)
           homes == FedRecord(Homes[c])
           people == Journal(told, {})
           rest == homes \o people
<1>3. Upwards("group", {"fed_conv_sync"}, homes) /\ Upwards("group", {"user_sync"}, people)
  BY RowsOf, InstancesAscend, JournalOfPeople
<1>4. head \in Rows /\ head.table = "conversations"
  BY RowsOf DEF ConvRow
<1>5. Begin(t, "group", <<head>> \o homes \o people)
  BY <1>2
<1> HIDE DEF head, homes, people
<1>6. \A i \in DOMAIN homes, j \in DOMAIN people : Below("group", homes[i], people[j])
  BY <1>3 DEF Upwards, Below
<1>7. Upwards("group", {"fed_conv_sync"} \cup {"user_sync"}, rest)
  BY <1>3, <1>6, InTurn
<1>8. \A i \in DOMAIN rest : Below("group", head, rest[i])
  BY <1>4, <1>7 DEF Upwards, Below
<1>9. Upwards("group", {head.table} \cup ({"fed_conv_sync"} \cup {"user_sync"}), <<head>> \o rest)
  <2> HIDE DEF rest
  <2> QED
    BY <1>4, <1>7, <1>8, PutBefore
<1>10. <<head>> \o homes \o people = <<head>> \o rest
  BY <1>3, <1>4 DEF Upwards
<1> QED
  BY <1>5, <1>9, <1>10

\* The other writers take rows in some order.
LEMMA OthersBegin ==
    ASSUME NEW t \in Txs, PinForBoth(t) \/ AcceptCopy(t) \/ Prune(t)
    PROVE  \E kind \in {"pin", "copy", "prune"}, locks \in Seq(Rows) : Begin(t, kind, locks)
<1>1. CASE PinForBoth(t)
  <2>1. PICK c \in Convs :
           \E changed \in (SUBSET Members[c]) \ {{}}, marked, homes \in SUBSET Homes[c] :
               Begin(t, "pin", <<ConvRow(c)>> \o Journal(changed, marked) \o Journal(Members[c], homes))
    BY <1>1 DEF PinForBoth
  <2>2. PICK changed \in SUBSET Members[c], marked \in SUBSET Homes[c], homes \in SUBSET Homes[c] :
               Begin(t, "pin", <<ConvRow(c)>> \o Journal(changed, marked) \o Journal(Members[c], homes))
    BY <2>1
  <2>3. /\ ConvRow(c) \in Rows
        /\ Journal(changed, marked) \in Seq(Rows) /\ Journal(Members[c], homes) \in Seq(Rows)
    BY RowsOf, JournalAscends DEF Upwards
  <2>4. <<ConvRow(c)>> \o Journal(changed, marked) \o Journal(Members[c], homes) \in Seq(Rows)
    BY <2>3
  <2> QED
    BY <2>2, <2>4
<1>2. CASE AcceptCopy(t)
  <2>1. PICK c \in Convs : \E told \in SUBSET Members[c], homes \in SUBSET Homes[c] :
           \E others \in SUBSET (Members[c] \ told) :
               Begin(t, "copy", <<ConvRow(c)>> \o Journal(told, homes) \o Journal(others, {}))
    BY <1>2 DEF AcceptCopy
  <2>2. PICK told \in SUBSET Members[c], homes \in SUBSET Homes[c], others \in SUBSET Members[c] :
               Begin(t, "copy", <<ConvRow(c)>> \o Journal(told, homes) \o Journal(others, {}))
    BY <2>1
  <2>3. /\ ConvRow(c) \in Rows
        /\ Journal(told, homes) \in Seq(Rows) /\ Journal(others, {}) \in Seq(Rows)
    BY RowsOf, JournalAscends DEF Upwards
  <2>4. <<ConvRow(c)>> \o Journal(told, homes) \o Journal(others, {}) \in Seq(Rows)
    BY <2>3
  <2> QED
    BY <2>2, <2>4
<1>3. CASE Prune(t)
  <2>1. ASSUME NEW who \in SUBSET Users, NEW order \in Orders(who) PROVE SyncRows(order) \in Seq(Rows)
    <3>1. Cardinality(who) \in Nat /\ order \in [1 .. Cardinality(who) -> who]
      BY LocksAssumption, FS_Subset, FS_CardinalityType DEF Orders
    <3> QED
      BY <3>1 DEF SyncRows, Rows
  <2>2. ASSUME NEW homes \in SUBSET Instances, NEW order \in Orders(homes)
        PROVE  FedRows(order) \in Seq(Rows)
    <3>1. Cardinality(homes) \in Nat /\ order \in [1 .. Cardinality(homes) -> homes]
      BY LocksAssumption, FS_Subset, FS_CardinalityType DEF Orders
    <3> QED
      BY <3>1 DEF FedRows, Rows
  <2>3. \/ \E who \in SUBSET Users : \E order \in Orders(who) : Begin(t, "prune", SyncRows(order))
        \/ \E homes \in SUBSET Instances : \E order \in Orders(homes) : Begin(t, "prune", FedRows(order))
    BY <1>3 DEF Prune
  <2> QED
    BY <2>1, <2>2, <2>3
<1> QED
  BY <1>1, <1>2, <1>3

----------------------------------------------------------------------------
\* The lists of JournalLocks hold rows, and the transactions are about what
\* the code begins.
THEOREM LocksTypeCorrect == LocksSpec => []LockTypeOK
<1>1. LocksInit => LockTypeOK
  BY DEF LocksInit, LockTypeOK
<1>2. LockTypeOK /\ [LocksNext]_lockVars => LockTypeOK'
  <2> SUFFICES ASSUME LockTypeOK, [LocksNext]_lockVars PROVE LockTypeOK'
    OBVIOUS
  <2> USE DEF LockTypeOK
  <2>1. ASSUME NEW t \in Txs, NEW kind \in {"change", "pin", "group", "copy", "prune"},
               NEW locks \in Seq(Rows), Begin(t, kind, locks)
        PROVE  LockTypeOK'
    BY <2>1 DEF Begin
  <2>2. ASSUME NEW t \in Txs, Change(t) \/ Announce(t) \/ SendNow(t) \/ ChangeScheduled(t)
        PROVE  LockTypeOK'
    BY <2>1, <2>2, OneJournalBegins DEF Upwards
  <2>3. ASSUME NEW t \in Txs, PinForBoth(t) \/ AcceptCopy(t) \/ Prune(t) PROVE LockTypeOK'
    BY <2>1, <2>3, OthersBegin
  <2>10. ASSUME NEW t \in Txs, GroupAction(t) PROVE LockTypeOK'
    BY <2>1, <2>10, GroupActionBegins DEF Upwards
  <2>4. ASSUME NEW t \in Txs, TickTakes(t) PROVE LockTypeOK'
    BY <2>4, RowsOf DEF TickTakes
  <2>5. ASSUME NEW t \in Txs, TickSends(t) PROVE LockTypeOK'
    <3>1. PICK m \in Scheduled :
            \/ /\ \E locks \in SendingOf(m) : todo' = [todo EXCEPT ![t] = locks]
               /\ held' = [held EXCEPT ![t] = @ \cup {ConvRow(m[1])}]
               /\ op' = [op EXCEPT ![t] = "change"]
            \/ /\ held' = [held EXCEPT ![t] = {}]
               /\ op' = [op EXCEPT ![t] = "none"]
               /\ UNCHANGED todo
      BY <2>5 DEF TickSends
    <3>2. \A locks \in SendingOf(m) : locks \in Seq(Rows)
      BY SendingAscends DEF Upwards
    <3>3. ConvRow(m[1]) \in Rows
      BY RowsOf
    <3>4. ASSUME NEW locks \in Seq(Rows), todo' = [todo EXCEPT ![t] = locks],
                 held' = [held EXCEPT ![t] = @ \cup {ConvRow(m[1])}],
                 op' = [op EXCEPT ![t] = "change"]
          PROVE  LockTypeOK'
      BY <3>3, <3>4
    <3> QED
      BY <3>1, <3>2, <3>4
  <2>6. ASSUME NEW t \in Txs, Acquire(t) PROVE LockTypeOK'
    <3>1. Head(todo[t]) \in Rows /\ Tail(todo[t]) \in Seq(Rows)
      BY <2>6 DEF Acquire
    <3> QED
      BY <2>6, <3>1 DEF Acquire
  <2>7. ASSUME NEW t \in Txs, Commit(t) PROVE LockTypeOK'
    BY <2>7 DEF Commit
  <2>8. ASSUME NEW t \in Txs, Rollback(t) PROVE LockTypeOK'
    BY <2>8 DEF Rollback
  <2>9. CASE UNCHANGED lockVars
    BY <2>9 DEF lockVars
  <2> QED
    BY <2>2, <2>3, <2>4, <2>5, <2>6, <2>7, <2>8, <2>9, <2>10 DEF LocksNext, DetectDeadlock
<1> QED
  BY <1>1, <1>2, PTL DEF LocksSpec

LEMMA WaitsUpwardsHolds == LocksSpec => []WaitsUpwards
<1>1. LocksInit => WaitsUpwards
  BY DEF LocksInit, WaitsUpwards
<1>2. LockTypeOK /\ WaitsUpwards /\ [LocksNext]_lockVars => WaitsUpwards'
  <2> SUFFICES ASSUME LockTypeOK, WaitsUpwards, [LocksNext]_lockVars PROVE WaitsUpwards'
    OBVIOUS
  <2> USE DEF LockTypeOK, WaitsUpwards, NoTx
  <2>1. ASSUME NEW t \in Txs, NEW kind \in {"change", "group"}, NEW tables, NEW locks,
               Upwards(kind, tables, locks), Begin(t, kind, locks)
        PROVE  WaitsUpwards'
    BY <2>1 DEF Begin, Upwards
  <2>2. ASSUME NEW t \in Txs, Change(t) \/ Announce(t) \/ SendNow(t) \/ ChangeScheduled(t)
        PROVE  WaitsUpwards'
    BY <2>1, <2>2, OneJournalBegins
  <2>11. ASSUME NEW t \in Txs, GroupAction(t) PROVE WaitsUpwards'
    BY <2>1, <2>11, GroupActionBegins
  <2>3. ASSUME NEW t \in Txs, NEW kind \in {"pin", "copy", "prune"}, NEW locks \in Seq(Rows),
               Begin(t, kind, locks)
        PROVE  WaitsUpwards'
    BY <2>3 DEF Begin
  <2>4. ASSUME NEW t \in Txs, PinForBoth(t) \/ AcceptCopy(t) \/ Prune(t) PROVE WaitsUpwards'
    BY <2>3, <2>4, OthersBegin
  <2>5. ASSUME NEW t \in Txs, TickTakes(t) PROVE WaitsUpwards'
    BY <2>5 DEF TickTakes, SchedRow
  <2>6. ASSUME NEW t \in Txs, TickSends(t) PROVE WaitsUpwards'
    <3>1. PICK m \in Scheduled :
            \/ /\ \E locks \in SendingOf(m) : todo' = [todo EXCEPT ![t] = locks]
               /\ held' = [held EXCEPT ![t] = @ \cup {ConvRow(m[1])}]
               /\ op' = [op EXCEPT ![t] = "change"]
            \/ /\ held' = [held EXCEPT ![t] = {}]
               /\ op' = [op EXCEPT ![t] = "none"]
               /\ UNCHANGED todo
      BY <2>6 DEF TickSends
    <3>2. op[t] = "tick" /\ todo[t] = <<>>
          /\ \A row \in held[t] : row.table = "conversation_scheduled"
      BY <2>6 DEF TickSends
    <3>3. \A locks \in SendingOf(m) : Upwards("change", Journals, locks)
      BY SendingAscends
    <3>4. ASSUME NEW locks, Upwards("change", Journals, locks), todo' = [todo EXCEPT ![t] = locks],
                 held' = [held EXCEPT ![t] = @ \cup {ConvRow(m[1])}],
                 op' = [op EXCEPT ![t] = "change"]
          PROVE  WaitsUpwards'
      <4>1. \A row \in held'[t] : row.table \in {"conversations", "conversation_scheduled"}
        BY <3>2, <3>4 DEF ConvRow
      <4>2. \A row \in held'[t], i \in DOMAIN locks : Below("change", row, locks[i])
        BY <4>1, <3>4 DEF Upwards, Below, Journals
      <4> QED
        BY <3>4, <4>2 DEF Upwards
    <3>5. ASSUME held' = [held EXCEPT ![t] = {}], op' = [op EXCEPT ![t] = "none"], UNCHANGED todo
          PROVE  WaitsUpwards'
      BY <3>2, <3>5
    <3> QED
      BY <3>1, <3>3, <3>4, <3>5
  <2>7. ASSUME NEW t \in Txs, Acquire(t) PROVE WaitsUpwards'
    <3> DEFINE first == Head(todo[t])
               rest == Tail(todo[t])
    <3>1. /\ todo[t] \in Seq(Rows) /\ todo[t] # <<>>
          /\ op' = op /\ held' = [held EXCEPT ![t] = @ \cup {first}]
          /\ todo' = [todo EXCEPT ![t] = rest]
      BY <2>7 DEF Acquire
    <3>2. /\ rest \in Seq(Rows) /\ first = todo[t][1] /\ 1 \in DOMAIN todo[t]
          /\ \A i \in DOMAIN rest : rest[i] = todo[t][i + 1] /\ i + 1 \in DOMAIN todo[t] /\ 1 < i + 1
      BY <3>1
    <3> HIDE DEF first, rest
    <3>3. op[t] \notin {"none", "tick"}
      BY <3>1
    <3>4. ASSUME op[t] \in {"change", "group"}
          PROVE  /\ Ascending(op[t], rest)
                 /\ \A row \in held[t] \cup {first}, i \in DOMAIN rest : Below(op[t], row, rest[i])
      <4>1. /\ Ascending(op[t], todo[t])
            /\ \A row \in held[t], i \in DOMAIN todo[t] : Below(op[t], row, todo[t][i])
        BY <3>4
      <4>2. ASSUME NEW i \in DOMAIN rest, NEW j \in DOMAIN rest, i < j
            PROVE  Below(op[t], rest[i], rest[j])
        <5>1. i \in Nat /\ j \in Nat /\ i + 1 < j + 1
          BY <3>2, <4>2
        <5> QED
          BY <3>2, <4>1, <5>1 DEF Ascending
      <4>3. \A i \in DOMAIN rest : Below(op[t], first, rest[i])
        BY <3>2, <4>1 DEF Ascending
      <4>4. \A row \in held[t], i \in DOMAIN rest : Below(op[t], row, rest[i])
        BY <3>2, <4>1
      <4> QED
        BY <4>2, <4>3, <4>4 DEF Ascending
    <3> QED
      BY <3>1, <3>3, <3>4
  <2>8. ASSUME NEW t \in Txs, Commit(t) PROVE WaitsUpwards'
    BY <2>8 DEF Commit
  <2>9. ASSUME NEW t \in Txs, Rollback(t) PROVE WaitsUpwards'
    BY <2>9 DEF Rollback
  <2>10. CASE UNCHANGED lockVars
    BY <2>10 DEF lockVars
  <2> QED
    BY <2>2, <2>4, <2>5, <2>6, <2>7, <2>8, <2>9, <2>10, <2>11 DEF LocksNext, DetectDeadlock
<1> QED
  BY <1>1, <1>2, LocksTypeCorrect, PTL DEF LocksSpec

\* Writers that call journal() once never wait for one another in a circle,
\* whatever they write and whatever the tick of scheduled.ts does meanwhile; nor
\* do operations on groups with them, unless somebody waits for an instance.
THEOREM NoCircleOfChanges == LocksSpec => []ChangesNeverCircle
<1>1. LockTypeOK /\ WaitsUpwards => ChangesNeverCircle
  <2> SUFFICES ASSUME LockTypeOK, WaitsUpwards, NEW txs \in SUBSET Txs, Circle(txs),
                      \A t \in txs : op[t] \notin {"pin", "copy", "prune"},
                      \/ \A t \in txs : op[t] # "group"
                      \/ \A t \in txs : Head(todo[t]).table # "fed_conv_sync"
               PROVE  FALSE
    BY DEF ChangesNeverCircle
  <2> DEFINE first(t) == Head(todo[t])
  <2>1. ASSUME NEW t \in txs
        PROVE  /\ first(t) \in Rows /\ op[t] \in {"change", "group"}
               /\ \A row \in held[t] : Below(op[t], row, first(t))
    <3>1. todo[t] \in Seq(Rows) /\ todo[t] # <<>>
      BY DEF Circle, WaitsFor, LockTypeOK
    <3>2. op[t] \in {"change", "group"}
      BY <3>1 DEF LockTypeOK, WaitsUpwards
    <3>3. 1 \in DOMAIN todo[t] /\ first(t) = todo[t][1]
      BY <3>1
    <3> QED
      BY <3>1, <3>2, <3>3 DEF WaitsUpwards
  <2>2. \A t \in txs : \E s \in txs : Below(op[s], first(t), first(s))
    BY <2>1 DEF Circle, WaitsFor
  <2>3. \A t \in txs : first(t) \in Rows
    BY <2>1
  <2>4. \/ \A t \in txs : op[t] = "change"
        \/ \A t \in txs : first(t).table # "fed_conv_sync"
    BY <2>1
  <2> HIDE DEF first
  <2>5. \A row \in Rows : /\ row.table \in {"conversations", "conversation_scheduled", "user_sync", "fed_conv_sync"}
                          /\ row.table = "user_sync" => row.user \in Users
                          /\ row.table = "fed_conv_sync" => row.home \in Instances
    BY DEF Rows, ConvRow, SchedRow, SyncRow, FedRow
  <2>6. \A s \in txs : first(s).table # "fed_conv_sync"
    <3> SUFFICES ASSUME NEW s \in txs, first(s).table = "fed_conv_sync" PROVE FALSE
      OBVIOUS
    <3> DEFINE ids == {i \in Instances : \E r \in txs : first(r).table = "fed_conv_sync" /\ first(r).home = i}
    <3>1. \A r \in txs : first(r).table = "fed_conv_sync" => first(r).home \in ids
      BY <2>3, <2>5
    <3>2. PICK m \in ids : \A x \in ids : x <= m
      <4>1. ids # {} /\ IsFiniteSet(ids) /\ ids \subseteq Int
        BY <3>1, LocksAssumption, FS_Subset
      <4> HIDE DEF ids
      <4> QED
        BY <4>1, Greatest
    <3>3. PICK r \in txs : first(r).table = "fed_conv_sync" /\ first(r).home = m
      BY <3>2
    <3>4. PICK q \in txs : Below(op[q], first(r), first(q))
      BY <2>2
    <3>5. op[q] = "change"
      BY <2>4
    <3>6. first(q).table = "fed_conv_sync" /\ m < first(q).home
      BY <3>3, <3>4, <3>5 DEF Below
    <3>7. first(q).home \in ids /\ first(q).home \in Int /\ m \in Int
      BY <3>1, <3>6, LocksAssumption
    <3> QED
      BY <3>2, <3>6, <3>7
  <2>7. PICK t \in txs : TRUE
    BY DEF Circle
  <2>8. \E s \in txs : first(s).table = "user_sync"
    <3>1. PICK s \in txs : Below(op[s], first(t), first(s))
      BY <2>2
    <3>2. PICK r \in txs : Below(op[r], first(s), first(r))
      BY <2>2
    <3>3. /\ first(s).table \in {"conversations", "conversation_scheduled", "user_sync"}
          /\ first(r).table \in {"conversations", "conversation_scheduled", "user_sync"}
      BY <2>3, <2>5, <2>6
    <3> QED
      BY <3>1, <3>2, <3>3 DEF Below
  <2> DEFINE ids == {u \in Users : \E s \in txs : first(s).table = "user_sync" /\ first(s).user = u}
  <2>9. \A s \in txs : first(s).table = "user_sync" => first(s).user \in ids
    BY <2>3, <2>5
  <2>10. PICK u \in ids : \A x \in ids : x <= u
    <3>1. ids # {} /\ IsFiniteSet(ids) /\ ids \subseteq Int
      BY <2>8, <2>9, LocksAssumption, FS_Subset
    <3> HIDE DEF ids
    <3> QED
      BY <3>1, Greatest
  <2>11. PICK s \in txs : first(s).table = "user_sync" /\ first(s).user = u
    BY <2>10
  <2>12. PICK r \in txs : Below(op[r], first(s), first(r))
    BY <2>2
  <2>13. first(r).table = "user_sync" /\ u < first(r).user
    BY <2>6, <2>11, <2>12 DEF Below
  <2>14. first(r).user \in ids /\ first(r).user \in Int /\ u \in Int
    BY <2>9, <2>13, LocksAssumption
  <2> QED
    BY <2>10, <2>13, <2>14
<1> QED
  BY <1>1, LocksTypeCorrect, WaitsUpwardsHolds, PTL

----------------------------------------------------------------------------
(* The black list.                                                         *)

\* A set at hand that no change has overtaken is the list itself when nobody
\* is changing it.
AtHandIsRight ==
    \A r \in Reads :
        (read[r].at = "read" /\ ~ read[r].late /\ NobodyWrites) => read[r].set = table

\* The type invariant: no interleaving of lookups, changes and evictions
\* leaves the shapes blocks.ts works with.
THEOREM BlocksTypeCorrect == BlocksSpec => []BlocksTypeOK
<1>1. BlocksInit => BlocksTypeOK
  BY DEF BlocksInit, BlocksTypeOK, None, NoCall
<1>2. BlocksTypeOK /\ [BlocksNext]_blockVars => BlocksTypeOK'
  <2> SUFFICES ASSUME BlocksTypeOK, [BlocksNext]_blockVars PROVE BlocksTypeOK'
    OBVIOUS
  <2> USE DEF BlocksTypeOK, None, NoCall, Kept
  <2>1. ASSUME NEW r \in Reads, Ask(r) PROVE BlocksTypeOK'
    BY <2>1 DEF Ask
  <2>2. ASSUME NEW r \in Reads, Select(r) PROVE BlocksTypeOK'
    BY <2>2 DEF Select
  <2>3. ASSUME NEW r \in Reads, Install(r) PROVE BlocksTypeOK'
    <3>1. read[r] \in [at : {"read"}, set : SUBSET Others, late : BOOLEAN]
      BY <2>3 DEF Install
    <3> QED
      BY <2>3, <3>1 DEF Install
  <2>4. ASSUME NEW w \in Writes, NEW p \in Others, BlockRow(w, p) PROVE BlocksTypeOK'
    BY <2>4 DEF BlockRow
  <2>5. ASSUME NEW w \in Writes, NEW p \in Others, UnblockRow(w, p) PROVE BlocksTypeOK'
    BY <2>5 DEF UnblockRow
  <2>6. ASSUME NEW w \in Writes, Drop(w) PROVE BlocksTypeOK'
    <3>1. ASSUME NEW r \in Reads, read[r].at = "read"
          PROVE  read[r].set \in SUBSET Others
      BY <3>1
    <3> QED
      BY <2>6, <3>1 DEF Drop
  <2>7. CASE Overflow
    BY <2>7 DEF Overflow
  <2>8. CASE UNCHANGED blockVars
    BY <2>8 DEF blockVars
  <2> QED
    BY <2>1, <2>2, <2>3, <2>4, <2>5, <2>6, <2>7, <2>8 DEF BlocksNext
<1> QED
  BY <1>1, <1>2, PTL DEF BlocksSpec

\* A wrong set gets into the cache of blocks.ts in one way only: it was read
\* before a change that was over before it was kept.
THEOREM OnlyARaceMakesItStale == BlocksSpec => []StaleOnlyByRace
<1>1. BlocksInit => StaleOnlyByRace /\ AtHandIsRight
  BY DEF BlocksInit, StaleOnlyByRace, AtHandIsRight, None, NoCall
<1>2. BlocksTypeOK /\ StaleOnlyByRace /\ AtHandIsRight /\ [BlocksNext]_blockVars
        => StaleOnlyByRace' /\ AtHandIsRight'
  <2> SUFFICES ASSUME BlocksTypeOK, StaleOnlyByRace, AtHandIsRight, [BlocksNext]_blockVars
               PROVE  StaleOnlyByRace' /\ AtHandIsRight'
    OBVIOUS
  <2> USE DEF BlocksTypeOK, StaleOnlyByRace, AtHandIsRight, NobodyWrites, None, NoCall, Kept
  <2>1. ASSUME NEW r \in Reads, Ask(r) PROVE StaleOnlyByRace' /\ AtHandIsRight'
    BY <2>1 DEF Ask
  <2>2. ASSUME NEW r \in Reads, Select(r) PROVE StaleOnlyByRace' /\ AtHandIsRight'
    BY <2>2 DEF Select
  <2>3. ASSUME NEW r \in Reads, Install(r) PROVE StaleOnlyByRace' /\ AtHandIsRight'
    BY <2>3 DEF Install
  <2>4. ASSUME NEW w \in Writes, NEW p \in Others, BlockRow(w, p) \/ UnblockRow(w, p)
        PROVE  StaleOnlyByRace' /\ AtHandIsRight'
    <3>1. ~ NobodyWrites'
      BY <2>4 DEF BlockRow, UnblockRow
    <3> QED
      BY <3>1
  <2>5. ASSUME NEW w \in Writes, Drop(w) PROVE StaleOnlyByRace' /\ AtHandIsRight'
    <3>1. \A r \in Reads : read'[r].at = "read" => read'[r].late
      BY <2>5 DEF Drop
    <3>2. ~ cache'.has
      BY <2>5 DEF Drop
    <3> QED
      BY <3>1, <3>2
  <2>6. CASE Overflow
    BY <2>6 DEF Overflow
  <2>7. CASE UNCHANGED blockVars
    BY <2>7 DEF blockVars
  <2> QED
    BY <2>1, <2>2, <2>3, <2>4, <2>5, <2>6, <2>7 DEF BlocksNext
<1> QED
  BY <1>1, <1>2, BlocksTypeCorrect, PTL DEF BlocksSpec

----------------------------------------------------------------------------
(* Presence: the shapes, and how the passes overtake one another.          *)

\* The stages of a pass after its list has been read, up to the last change.
Stages == {"get", "set", "sadd", "del", "clear", "srem", "srem, tell"}

Work == [at : Stages \cup {"list", "after", "stop"}, goodbye : BOOLEAN,
         list : SUBSET People, saw : SUBSET People, old : BOOLEAN]
Posts == [n : Nat, kind : {"joined", "left", "finished"}, own : BOOLEAN]

PresenceTypeOK ==
    /\ room \in SUBSET People /\ shown \in SUBSET People
    /\ posts \in SUBSET Posts
    /\ polled \in BOOLEAN /\ clock \in BOOLEAN /\ up \in BOOLEAN
    /\ pass \in [Passes -> {Idle} \cup Work]
    /\ moves \in Nat
    /\ failed \in BOOLEAN /\ lost \in BOOLEAN /\ raced \in BOOLEAN /\ wiped \in BOOLEAN

\* A pass at one of the stages that no other has overtaken.
Newest(w, stages) == pass[w].at \in stages /\ ~ pass[w].old

\* At most one pass that has read is not overtaken; one that has not read
\* cannot be, and only a list with people is written.
OneNewest ==
    /\ \A v, w \in Passes : Newest(v, Stages) /\ Newest(w, Stages) => v = w
    /\ \A w \in Passes : pass[w].at = "list" => ~ pass[w].old
    /\ \A w \in Passes : pass[w].at \in {"get", "set"} => pass[w].list # {}

\* A pass is idle or has all its fields.
LEMMA Stage ==
    ASSUME PresenceTypeOK, NEW w \in Passes
    PROVE  /\ pass[w].at = "idle" <=> pass[w] = Idle
           /\ pass[w] # Idle => pass[w] \in Work
<1>1. Idle.at = "idle"
  BY DEF Idle
<1>2. pass[w] \in {Idle} \cup Work
  BY DEF PresenceTypeOK
<1>3. \A r \in Work : r.at # "idle"
  BY DEF Work, Stages
<1> HIDE DEF Idle, Work
<1> QED
  BY <1>1, <1>2, <1>3

\* Overtaking leaves the other passes as they are, but for the mark.
LEMMA OvertakeDoes ==
    ASSUME PresenceTypeOK, NEW w \in Passes, NEW r \in Work, Overtake(w, r)
    PROVE  /\ pass' \in [Passes -> {Idle} \cup Work]
           /\ pass'[w] = r
           /\ \A v \in Passes \ {w} :
                /\ pass'[v].at = pass[v].at
                /\ pass[v] = Idle <=> pass'[v] = Idle
                /\ pass[v] # Idle => /\ pass'[v].list = pass[v].list
                                     /\ pass'[v].saw = pass[v].saw
                                     /\ pass'[v].goodbye = pass[v].goodbye
                /\ pass[v].at \in Stages => pass'[v].old
                /\ pass[v].at \notin Stages => pass'[v] = pass[v]
<1>1. ASSUME NEW v \in Passes \ {w}, pass[v].at \in {"idle", "list", "after", "stop"}
      PROVE  pass'[v] = pass[v] /\ pass[v].at \notin Stages
  BY <1>1 DEF Overtake, Stages
<1>2. ASSUME NEW v \in Passes \ {w}, pass[v].at \notin {"idle", "list", "after", "stop"}
      PROVE  /\ pass[v] \in Work /\ pass'[v] = [pass[v] EXCEPT !.old = TRUE]
             /\ pass'[v] \in Work /\ pass'[v].old /\ pass'[v].at = pass[v].at
             /\ pass'[v].list = pass[v].list
             /\ pass'[v].saw = pass[v].saw
             /\ pass'[v].goodbye = pass[v].goodbye
  <2>1. pass[v] \in Work
    BY <1>2, Stage DEF Idle
  <2>2. pass'[v] = [pass[v] EXCEPT !.old = TRUE]
    BY <1>2 DEF Overtake
  <2> QED
    BY <2>1, <2>2 DEF Work
<1>3. pass'[w] = r
  BY DEF Overtake
<1>4. pass' \in [Passes -> {Idle} \cup Work]
  <2>1. \A v \in Passes : pass'[v] \in {Idle} \cup Work
    BY <1>1, <1>2, <1>3 DEF PresenceTypeOK
  <2>2. DOMAIN pass' = Passes /\ pass' = [v \in DOMAIN pass' |-> pass'[v]]
    BY DEF Overtake
  <2> QED
    BY <2>1, <2>2
<1>5. ASSUME NEW v \in Passes \ {w}
      PROVE  pass[v] = Idle <=> pass'[v] = Idle
  <2>1. CASE pass[v].at \in {"idle", "list", "after", "stop"}
    BY <1>1, <2>1
  <2>2. CASE pass[v].at \notin {"idle", "list", "after", "stop"}
    <3>1. pass[v] # Idle /\ pass'[v] # Idle
      <4>1. Idle.at = "idle"
        BY DEF Idle
      <4> HIDE DEF Idle
      <4> QED
        BY <1>2, <2>2, <4>1
    <3> QED
      BY <3>1
  <2> QED
    BY <2>1, <2>2
<1>6. ASSUME NEW v \in Passes, pass[v].at \notin Stages
      PROVE  pass[v].at \in {"idle", "list", "after", "stop"}
  BY <1>6, Stage DEF Work, Idle
<1> QED
  BY <1>1, <1>2, <1>3, <1>4, <1>5, <1>6

\* Whoever overtakes is the only one that nobody has overtaken.
LEMMA OvertakeNewest ==
    ASSUME PresenceTypeOK, OneNewest, NEW w \in Passes, NEW r \in Work, Overtake(w, r),
           r.at # "list", r.at \in {"get", "set"} => r.list # {}
    PROVE  OneNewest'
<1>1. /\ pass'[w] = r
      /\ \A v \in Passes \ {w} :
           /\ pass'[v].at = pass[v].at
           /\ pass[v] # Idle => pass'[v].list = pass[v].list
           /\ pass[v].at \in Stages => pass'[v].old
           /\ pass[v].at \notin Stages => pass'[v] = pass[v]
  BY OvertakeDoes
<1>2. \A v \in Passes : Newest(v, Stages)' => v = w
  BY <1>1 DEF Newest
<1>3. ASSUME NEW v \in Passes, pass'[v].at = "list"
      PROVE  ~ pass'[v].old
  <2>1. v # w /\ pass[v].at = "list" /\ pass'[v] = pass[v]
    BY <1>1, <1>3 DEF Stages
  <2> QED
    BY <2>1 DEF OneNewest
<1>4. ASSUME NEW v \in Passes, pass'[v].at \in {"get", "set"}
      PROVE  pass'[v].list # {}
  <2>1. CASE v = w
    BY <1>1, <1>4, <2>1
  <2>2. CASE v # w
    <3>1. pass[v].at \in {"get", "set"}
      BY <1>1, <1>4, <2>2
    <3>2. pass[v] # Idle
      BY <3>1 DEF Idle
    <3> QED
      BY <1>1, <2>2, <3>1, <3>2 DEF OneNewest
  <2> QED
    BY <2>1, <2>2
<1> QED
  BY <1>2, <1>3, <1>4 DEF OneNewest

\* What a step of one pass that overtakes nobody does to the passes.
LEMMA ExceptDoes ==
    ASSUME PresenceTypeOK, NEW w \in Passes, NEW r \in {Idle} \cup Work,
           pass' = [pass EXCEPT ![w] = r]
    PROVE  /\ pass' \in [Passes -> {Idle} \cup Work]
           /\ pass'[w] = r
           /\ \A v \in Passes \ {w} : pass'[v] = pass[v]
BY DEF PresenceTypeOK

\* A pass that overtakes nobody does not become the newest.
LEMMA StepNewest ==
    ASSUME PresenceTypeOK, OneNewest, NEW w \in Passes,
           \A v \in Passes \ {w} : pass'[v] = pass[v],
           Newest(w, Stages)' => Newest(w, Stages),
           pass'[w].at # "list", pass'[w].at \in {"get", "set"} => pass'[w].list # {}
    PROVE  OneNewest'
<1>1. \A v \in Passes : Newest(v, Stages)' => Newest(v, Stages)
  BY DEF Newest
<1> QED
  BY <1>1 DEF OneNewest

\* A pass goes on to its next stage.
LEMMA GoDoes ==
    ASSUME PresenceTypeOK, NEW w \in Passes, NEW at \in Stages \cup {"stop"},
           pass[w] # Idle, Go(w, at)
    PROVE  /\ pass' \in [Passes -> {Idle} \cup Work]
           /\ pass'[w] \in Work /\ pass'[w].at = at
           /\ pass'[w].list = pass[w].list /\ pass'[w].saw = pass[w].saw
           /\ pass'[w].goodbye = pass[w].goodbye /\ pass'[w].old = pass[w].old
           /\ \A v \in Passes \ {w} : pass'[v] = pass[v]
<1> DEFINE r == [pass[w] EXCEPT !.at = at]
<1>1. pass[w] \in Work
  BY Stage
<1>2. /\ r \in Work /\ r.at = at /\ r.list = pass[w].list /\ r.saw = pass[w].saw
      /\ r.goodbye = pass[w].goodbye /\ r.old = pass[w].old
  BY <1>1 DEF Work
<1>3. pass' = [pass EXCEPT ![w] = r]
  BY DEF Go, PresenceTypeOK
<1> HIDE DEF r
<1> QED
  BY <1>2, <1>3, ExceptDoes

\* reconcile ends: a good-bye goes on in the webhook's handler.
LEMMA EndReconcileDoes ==
    ASSUME PresenceTypeOK, NEW w \in Passes, pass[w] # Idle, EndReconcile(w)
    PROVE  /\ pass' \in [Passes -> {Idle} \cup Work]
           /\ pass[w].goodbye => /\ pass'[w] \in Work /\ pass'[w].at = "after"
                                 /\ pass'[w].saw = pass[w].saw
                                 /\ pass'[w].goodbye
           /\ ~ pass[w].goodbye => pass'[w] = Idle
           /\ \A v \in Passes \ {w} : pass'[v] = pass[v]
<1> DEFINE r == IF pass[w].goodbye
                THEN [pass[w] EXCEPT !.at = "after", !.list = {}, !.old = FALSE] ELSE Idle
<1>1. pass[w] \in Work
  BY Stage
<1>2. /\ r \in {Idle} \cup Work
      /\ pass[w].goodbye => r \in Work /\ r.at = "after" /\ r.saw = pass[w].saw /\ r.goodbye
      /\ ~ pass[w].goodbye => r = Idle
  BY <1>1 DEF Work
<1>3. pass' = [pass EXCEPT ![w] = r]
  BY DEF EndReconcile, PresenceTypeOK
<1> HIDE DEF r
<1> QED
  BY <1>2, <1>3, ExceptDoes

\* A pass is over.
LEMMA EndDoes ==
    ASSUME PresenceTypeOK, NEW w \in Passes, End(w)
    PROVE  /\ pass' \in [Passes -> {Idle} \cup Work]
           /\ pass'[w] = Idle
           /\ \A v \in Passes \ {w} : pass'[v] = pass[v]
BY DEF PresenceTypeOK, End

----------------------------------------------------------------------------
(* Who is watched, and whom a pass saw.                                    *)

\* Somebody is about to ask LiveKit who is there.
Coming == (\E h \in posts : h.kind # "finished") \/ (\E w \in Passes : pass[w].at = "list")
\* Somebody is about to put the channel into the set, or to spoil it.
Working == \E w \in Passes : pass[w].at = "sadd" \/ Newest(w, {"get", "set", "clear"})

WatchParts ==
    /\ \A w \in Passes : Newest(w, {"del", "srem", "srem, tell"}) /\ room # {} => Coming
    /\ \A w \in Passes : Newest(w, {"srem", "srem, tell"}) => shown = {}
    /\ room # {} => polled \/ Coming \/ Working
    /\ shown # {} => polled \/ \E v \in Passes : pass[v].at = "sadd"
WatchInv == failed \/ lost \/ raced \/ wiped \/ WatchParts

\* Nobody whom the pass saw is still there.
SawNobody(w) == pass[w] = Idle \/ pass[w].saw = {}

SitParts ==
    /\ ~ up => \A w \in Passes : pass[w] = Idle
    /\ \A w \in Passes : pass[w] # Idle => pass[w].saw \subseteq room
    /\ \A w \in Passes : SawNobody(w) \/ pass[w].at \in {"get", "set", "sadd", "after"}
    /\ \A w \in Passes : pass[w].at \in {"sadd", "after"} => SawNobody(w) \/ shown # {}
    /\ \A v, w \in Passes : Newest(v, {"del"}) => SawNobody(w)
SitInv == failed \/ raced \/ wiped \/ SitParts

PresenceInv == PresenceTypeOK /\ OneNewest /\ WatchInv /\ SitInv

\* A pass that does not run.
LEMMA IdleIs == Idle.at = "idle" /\ Idle \notin Work
BY DEF Idle, Work, Stages

\* listParticipants answers: the pass is the newest, what it saw is in the room.
LEMMA ListStep ==
    ASSUME PresenceInv, NEW w \in Passes, List(w)
    PROVE  PresenceInv'
<1> USE DEF PresenceInv
<1>1. PICK ok \in BOOLEAN :
         /\ failed' = (failed \/ ~ ok)
         /\ LET list == IF ok THEN room ELSE {}
            IN  Overtake(w, [pass[w] EXCEPT !.at = IF list = {} THEN "del" ELSE "get", !.list = list,
                                            !.saw = IF pass[w].goodbye THEN room ELSE {}])
  BY DEF List
<1> DEFINE list == IF ok THEN room ELSE {}
           r == [pass[w] EXCEPT !.at = IF list = {} THEN "del" ELSE "get", !.list = list,
                                            !.saw = IF pass[w].goodbye THEN room ELSE {}]
<1>2. pass[w] \in Work
  BY Stage, IdleIs DEF List
<1>3. /\ r \in Work
      /\ r.at = IF list = {} THEN "del" ELSE "get"
      /\ r.list = list /\ r.old = pass[w].old
      /\ r.saw = IF pass[w].goodbye THEN room ELSE {}
  BY <1>2 DEF Work, Stages, PresenceTypeOK
<1>4. Overtake(w, r)
  BY <1>1
<1> HIDE DEF r
<1>5. UNCHANGED <<room, posts, moves, shown, polled, clock, up, lost, raced, wiped>>
  BY DEF List, livekit, redis
<1>6. /\ pass' \in [Passes -> {Idle} \cup Work]
      /\ pass'[w] = r
      /\ \A v \in Passes \ {w} :
           /\ pass'[v].at = pass[v].at
           /\ pass[v] = Idle <=> pass'[v] = Idle
           /\ pass[v] # Idle => /\ pass'[v].list = pass[v].list
                                /\ pass'[v].saw = pass[v].saw
                                /\ pass'[v].goodbye = pass[v].goodbye
           /\ pass[v].at \in Stages => pass'[v].old
           /\ pass[v].at \notin Stages => pass'[v] = pass[v]
  BY <1>3, <1>4, OvertakeDoes
<1>7. PresenceTypeOK'
  BY <1>1, <1>5, <1>6 DEF PresenceTypeOK
<1>8. OneNewest'
  BY <1>3, <1>4, OvertakeNewest
<1>9. WatchInv'
  <2> SUFFICES ASSUME WatchParts, ok, ~ failed
               PROVE  WatchParts'
    BY <1>1, <1>5 DEF WatchInv
  <2>0. list = room
    OBVIOUS
  <2>2. \A v \in Passes : Newest(v, Stages)' => v = w
    BY <1>6 DEF Newest
  <2>3. (\A v \in Passes : Newest(v, {"del", "srem", "srem, tell"}) /\ room # {} => Coming)'
    BY <1>3, <1>5, <1>6, <2>0, <2>2 DEF Newest, Stages
  <2>4. (\A v \in Passes : Newest(v, {"srem", "srem, tell"}) => shown = {})'
    BY <1>3, <1>6, <2>2 DEF Newest, Stages
  <2>5. (room # {} => polled \/ Coming \/ Working)'
    <3>1. ~ r.old
      BY <1>2, <1>3 DEF OneNewest, List
    <3> QED
      BY <1>3, <1>5, <1>6, <2>0, <3>1 DEF Working, Newest
  <2>6. (shown # {} => polled \/ \E v \in Passes : pass[v].at = "sadd")'
    BY <1>5, <1>6 DEF WatchParts, List
  <2> QED
    BY <2>3, <2>4, <2>5, <2>6 DEF WatchParts
<1>10. SitInv'
  <2> SUFFICES ASSUME SitParts, ok, ~ failed
               PROVE  SitParts'
    BY <1>1, <1>5 DEF SitInv
  <2>0. list = room /\ up
    BY <1>2, IdleIs DEF SitParts
  <2>1. (~ up => \A v \in Passes : pass[v] = Idle)'
    BY <1>5, <2>0
  <2>2. (\A v \in Passes : pass[v] # Idle => pass[v].saw \subseteq room)'
    BY <1>3, <1>5, <1>6 DEF SitParts
  <2>3. (\A v \in Passes : SawNobody(v) \/ pass[v].at \in {"get", "set", "sadd", "after"})'
    BY <1>3, <1>6, <2>0 DEF SitParts, SawNobody
  <2>4. (\A v \in Passes : pass[v].at \in {"sadd", "after"} => SawNobody(v) \/ shown # {})'
    BY <1>3, <1>5, <1>6 DEF SitParts, SawNobody
  <2>5. (\A u, v \in Passes : Newest(u, {"del"}) => SawNobody(v))'
    <3>1. \A u \in Passes : Newest(u, {"del"})' => u = w /\ room = {}
      BY <1>3, <1>6, <2>0 DEF Newest, Stages
    <3>2. ASSUME room = {}, NEW v \in Passes PROVE SawNobody(v)'
      BY <1>5, <2>2, <3>2 DEF SawNobody
    <3> QED
      BY <3>1, <3>2
  <2> QED
    BY <2>1, <2>2, <2>3, <2>4, <2>5 DEF SitParts
<1> QED
  BY <1>7, <1>8, <1>9, <1>10

\* A webhook is taken: somebody is about to ask, or a finished room is cleared.
LEMMA TakePostStep ==
    ASSUME PresenceInv, NEW w \in Hooks, NEW h \in posts, TakePost(w, h)
    PROVE  PresenceInv'
<1> USE DEF PresenceInv
<1>1. /\ w \in Passes /\ pass[w] = Idle /\ pass[w].at = "idle" /\ up
      /\ posts' = posts \ {h} /\ h \in Posts
      /\ UNCHANGED <<room, moves, shown, polled, clock, up, failed, lost, raced, wiped>>
  BY IdleIs DEF TakePost, Passes, PresenceTypeOK, redis, history
<1>2. CASE h.kind = "finished"
  <2> DEFINE r == NewPass("clear", FALSE)
  <2>1. r \in Work /\ r.at = "clear" /\ ~ r.old /\ r.saw = {}
    BY DEF NewPass, Work, Stages
  <2>2. Overtake(w, r)
    BY <1>2 DEF TakePost
  <2> HIDE DEF r
  <2>3. /\ pass' \in [Passes -> {Idle} \cup Work]
        /\ pass'[w] = r
        /\ \A v \in Passes \ {w} :
             /\ pass'[v].at = pass[v].at
             /\ pass[v] = Idle <=> pass'[v] = Idle
             /\ pass[v] # Idle => /\ pass'[v].list = pass[v].list
                                  /\ pass'[v].saw = pass[v].saw
                                  /\ pass'[v].goodbye = pass[v].goodbye
             /\ pass[v].at \in Stages => pass'[v].old
             /\ pass[v].at \notin Stages => pass'[v] = pass[v]
    BY <1>1, <2>1, <2>2, OvertakeDoes
  <2>4. PresenceTypeOK'
    BY <1>1, <2>3 DEF PresenceTypeOK
  <2>5. OneNewest'
    BY <1>1, <2>1, <2>2, OvertakeNewest
  <2>6. WatchInv'
    <3> SUFFICES ASSUME WatchParts PROVE WatchParts'
      BY <1>1 DEF WatchInv
    <3>1. Newest(w, {"get", "set", "clear"})'
      BY <2>1, <2>3 DEF Newest
    <3>3. \A v \in Passes : ~ Newest(v, {"del", "srem", "srem, tell"})'
      BY <2>1, <2>3 DEF Newest, Stages
    <3>4. \A v \in Passes : ~ Newest(v, {"srem", "srem, tell"})'
      BY <2>1, <2>3 DEF Newest, Stages
    <3>5. (shown # {} => polled \/ \E v \in Passes : pass[v].at = "sadd")'
      BY <1>1, <2>3 DEF WatchParts
    <3> QED
      BY <1>1, <3>1, <3>3, <3>4, <3>5 DEF WatchParts, Working
  <2>7. SitInv'
    <3> SUFFICES ASSUME SitParts PROVE SitParts'
      BY <1>1 DEF SitInv
    <3>1. (\A v \in Passes : pass[v] # Idle => pass[v].saw \subseteq room)'
      BY <1>1, <2>1, <2>3 DEF SitParts
    <3>2. (\A v \in Passes : SawNobody(v) \/ pass[v].at \in {"get", "set", "sadd", "after"})'
      BY <1>1, <2>1, <2>3 DEF SitParts, SawNobody
    <3>3. (\A v \in Passes : pass[v].at \in {"sadd", "after"} => SawNobody(v) \/ shown # {})'
      BY <1>1, <2>1, <2>3 DEF SitParts, SawNobody
    <3>4. \A v \in Passes : ~ Newest(v, {"del"})'
      BY <2>1, <2>3 DEF Newest, Stages
    <3> QED
      BY <1>1, <3>1, <3>2, <3>3, <3>4 DEF SitParts
  <2> QED
    BY <2>4, <2>5, <2>6, <2>7
<1>3. CASE h.kind # "finished"
  <2> DEFINE r == NewPass("list", h.kind = "left" /\ h.own)
  <2>1. r \in Work /\ r.at = "list" /\ ~ r.old /\ r.saw = {}
    BY <1>1 DEF NewPass, Work, Posts
  <2>2. pass' = [pass EXCEPT ![w] = r]
    BY <1>3 DEF TakePost
  <2> HIDE DEF r
  <2>3. /\ pass' \in [Passes -> {Idle} \cup Work]
        /\ pass'[w] = r
        /\ \A v \in Passes \ {w} : pass'[v] = pass[v]
    BY <1>1, <2>1, <2>2, ExceptDoes
  <2>4. PresenceTypeOK'
    BY <1>1, <2>3 DEF PresenceTypeOK
  <2>5. OneNewest'
    BY <2>1, <2>3 DEF OneNewest, Newest, Stages
  <2>6. WatchInv'
    <3> SUFFICES ASSUME WatchParts PROVE WatchParts'
      BY <1>1 DEF WatchInv
    <3>1. Coming'
      BY <1>1, <2>1, <2>3 DEF Coming
    <3>3. (\A v \in Passes : Newest(v, {"srem", "srem, tell"}) => shown = {})'
      BY <1>1, <2>1, <2>3 DEF WatchParts, Newest
    <3>4. (shown # {} => polled \/ \E v \in Passes : pass[v].at = "sadd")'
      BY <1>1, <2>3 DEF WatchParts
    <3> QED
      BY <3>1, <3>3, <3>4 DEF WatchParts
  <2>7. SitInv'
    <3> SUFFICES ASSUME SitParts PROVE SitParts'
      BY <1>1 DEF SitInv
    <3> QED
      BY <1>1, <2>1, <2>3 DEF SitParts, SawNobody, Newest
  <2> QED
    BY <2>4, <2>5, <2>6, <2>7
<1> QED
  BY <1>2, <1>3

\* The key goes: whoever sits there came after the pass had read.
LEMMA DelStep ==
    ASSUME PresenceInv, NEW w \in Passes, Del(w)
    PROVE  PresenceInv'
<1> USE DEF PresenceInv
<1>1. /\ pass[w].at \in {"del", "clear"} /\ pass[w] # Idle
      /\ shown' = {}
      /\ raced' = (raced \/ pass[w].old)
      /\ wiped' = (wiped \/ (pass[w].at = "clear" /\ room # {}))
      /\ UNCHANGED <<room, posts, moves, polled, clock, up, failed, lost>>
  BY IdleIs DEF Del, livekit
<1>2. PICK at \in {"srem", "srem, tell"} : Go(w, at)
  BY DEF Del
<1>3. /\ pass' \in [Passes -> {Idle} \cup Work]
      /\ pass'[w] \in Work /\ pass'[w].at = at
      /\ pass'[w].list = pass[w].list /\ pass'[w].saw = pass[w].saw
      /\ pass'[w].goodbye = pass[w].goodbye /\ pass'[w].old = pass[w].old
      /\ \A v \in Passes \ {w} : pass'[v] = pass[v]
  BY <1>1, <1>2, GoDoes DEF Stages
<1>4. PresenceTypeOK'
  BY <1>1, <1>3, Stage DEF PresenceTypeOK, Work
<1>5. OneNewest'
  BY <1>1, <1>3, StepNewest DEF OneNewest, Newest, Stages
<1>6. WatchInv'
  <2> SUFFICES ASSUME WatchParts, ~ raced', ~ wiped', ~ failed, ~ lost PROVE WatchParts'
    BY <1>1 DEF WatchInv
  <2>1. ~ pass[w].old /\ (pass[w].at = "clear" => room = {})
    BY <1>1
  <2>2. Newest(w, Stages)
    BY <1>1, <2>1 DEF Newest, Stages
  <2>3. Coming => Coming'
    BY <1>1, <1>3 DEF Coming
  <2>4. room # {} => Coming
    BY <1>1, <2>1 DEF WatchParts, Newest
  <2> QED
    BY <1>1, <2>3, <2>4 DEF WatchParts
<1>7. SitInv'
  <2> SUFFICES ASSUME SitParts, ~ raced', ~ wiped', ~ failed PROVE SitParts'
    BY <1>1 DEF SitInv
  <2>1. ~ pass[w].old /\ (pass[w].at = "clear" => room = {})
    BY <1>1
  <2>2. \A v \in Passes : SawNobody(v)
    <3>1. CASE pass[w].at = "clear"
      BY <2>1, <3>1 DEF SitParts, SawNobody
    <3>2. CASE pass[w].at = "del"
      BY <2>1, <3>2 DEF SitParts, Newest
    <3> QED
      BY <1>1, <3>1, <3>2
  <2>3. \A v \in Passes : SawNobody(v)'
    BY <1>1, <1>3, <2>2 DEF SawNobody
  <2>4. up
    BY <1>1 DEF SitParts
  <2>5. (\A v \in Passes : pass[v] # Idle => pass[v].saw \subseteq room)'
    BY <1>1, <1>3 DEF SitParts
  <2> QED
    BY <1>1, <2>3, <2>4, <2>5 DEF SitParts
<1> QED
  BY <1>4, <1>5, <1>6, <1>7

\* The channel leaves the set: there is no list without it, and those who came
\* meanwhile have their webhook under way.
LEMMA SremStep ==
    ASSUME PresenceInv, NEW w \in Passes, Srem(w)
    PROVE  PresenceInv'
<1> USE DEF PresenceInv
<1>1. /\ pass[w].at \in {"srem", "srem, tell"} /\ pass[w] # Idle
      /\ polled' = FALSE
      /\ raced' = (raced \/ pass[w].old)
      /\ UNCHANGED <<room, posts, moves, shown, clock, up, failed, lost, wiped>>
  BY IdleIs DEF Srem, livekit
<1>2. /\ pass' \in [Passes -> {Idle} \cup Work]
      /\ pass[w].goodbye => /\ pass'[w] \in Work /\ pass'[w].at = "after"
                            /\ pass'[w].saw = pass[w].saw
                            /\ pass'[w].goodbye
      /\ ~ pass[w].goodbye => pass'[w] = Idle
      /\ \A v \in Passes \ {w} : pass'[v] = pass[v]
  BY <1>1, EndReconcileDoes DEF Srem
<1>3. pass'[w].at \in {"idle", "after"}
  BY <1>2, IdleIs
<1>4. PresenceTypeOK'
  BY <1>1, <1>2, Stage DEF PresenceTypeOK, Work
<1>5. OneNewest'
  BY <1>2, <1>3, StepNewest DEF OneNewest, Newest, Stages
<1>6. WatchInv'
  <2> SUFFICES ASSUME WatchParts, ~ raced', ~ failed, ~ lost PROVE WatchParts'
    BY <1>1 DEF WatchInv
  <2>1. Newest(w, {"srem", "srem, tell"})
    BY <1>1 DEF Newest
  <2>2. shown = {} /\ (room # {} => Coming)
    BY <2>1 DEF WatchParts, Newest
  <2>3. Coming => Coming'
    BY <1>1, <1>2 DEF Coming
  <2> QED
    BY <1>1, <2>2, <2>3 DEF WatchParts
<1>7. SitInv'
  <2> SUFFICES ASSUME SitParts, ~ raced', ~ failed PROVE SitParts'
    BY <1>1 DEF SitInv
  <2>1. SawNobody(w)
    BY <1>1 DEF SitParts
  <2>2. SawNobody(w)'
    BY <1>1, <1>2, <2>1 DEF SawNobody
  <2>3. (\A v \in Passes : pass[v] # Idle => pass[v].saw \subseteq room)'
    BY <1>1, <1>2 DEF SitParts
  <2> QED
    BY <1>1, <1>2, <1>3, <2>2, <2>3 DEF SitParts, SawNobody, Newest
<1> QED
  BY <1>4, <1>5, <1>6, <1>7

\* The list is as before: then the channel is in the set, or about to be.
LEMMA GetStep ==
    ASSUME PresenceInv, NEW w \in Passes, Get(w)
    PROVE  PresenceInv'
<1> USE DEF PresenceInv
<1>1. /\ pass[w].at = "get" /\ pass[w] # Idle /\ clock' = TRUE
      /\ UNCHANGED <<room, posts, moves, shown, polled, up, failed, lost, raced, wiped>>
  BY IdleIs DEF Get, livekit, history
<1>2. CASE shown = pass[w].list
  <2>1. /\ pass' \in [Passes -> {Idle} \cup Work]
        /\ pass[w].goodbye => /\ pass'[w] \in Work /\ pass'[w].at = "after"
                              /\ pass'[w].saw = pass[w].saw
                              /\ pass'[w].goodbye
        /\ ~ pass[w].goodbye => pass'[w] = Idle
        /\ \A v \in Passes \ {w} : pass'[v] = pass[v]
    BY <1>1, <1>2, EndReconcileDoes DEF Get
  <2>2. pass'[w].at \in {"idle", "after"}
    BY <2>1, IdleIs
  <2>3. PresenceTypeOK'
    BY <1>1, <2>1 DEF PresenceTypeOK
  <2>4. OneNewest'
    BY <2>1, <2>2, StepNewest DEF OneNewest, Newest, Stages
  <2>5. WatchInv'
    <3> SUFFICES ASSUME WatchParts PROVE WatchParts'
      BY <1>1 DEF WatchInv
    <3>1. polled \/ \E v \in Passes : pass[v].at = "sadd"
      BY <1>1, <1>2 DEF WatchParts, OneNewest
    <3>2. polled' \/ \E v \in Passes : pass'[v].at = "sadd"
      BY <1>1, <2>1, <3>1
    <3>3. Coming => Coming'
      BY <1>1, <2>1 DEF Coming
    <3>5. (\A v \in Passes : Newest(v, {"del", "srem", "srem, tell"}) /\ room # {} => Coming)'
      BY <1>1, <2>1, <2>2, <3>3 DEF WatchParts, Newest
    <3>6. (\A v \in Passes : Newest(v, {"srem", "srem, tell"}) => shown = {})'
      BY <1>1, <2>1, <2>2 DEF WatchParts, Newest
    <3> QED
      BY <1>1, <3>2, <3>5, <3>6 DEF WatchParts, Working
  <2>6. SitInv'
    <3> SUFFICES ASSUME SitParts PROVE SitParts'
      BY <1>1 DEF SitInv
    <3>1. SawNobody(w)' \/ shown' # {}
      <4>1. shown # {}
        BY <1>1, <1>2 DEF OneNewest
      <4> QED
        BY <1>1, <4>1
    <3> QED
      BY <1>1, <2>1, <2>2, <3>1 DEF SitParts, SawNobody, Newest
  <2> QED
    BY <2>3, <2>4, <2>5, <2>6
<1>3. CASE shown # pass[w].list
  <2>1. /\ pass' \in [Passes -> {Idle} \cup Work]
        /\ pass'[w] \in Work /\ pass'[w].at = "set"
        /\ pass'[w].list = pass[w].list /\ pass'[w].saw = pass[w].saw
        /\ pass'[w].goodbye = pass[w].goodbye /\ pass'[w].old = pass[w].old
        /\ \A v \in Passes \ {w} : pass'[v] = pass[v]
    BY <1>1, <1>3, GoDoes DEF Get, Stages
  <2>2. PresenceTypeOK'
    BY <1>1, <2>1 DEF PresenceTypeOK
  <2>3. OneNewest'
    BY <1>1, <2>1, StepNewest DEF OneNewest, Newest, Stages
  <2>4. WatchInv'
    <3> SUFFICES ASSUME WatchParts PROVE WatchParts'
      BY <1>1 DEF WatchInv
    <3>1. Coming => Coming'
      BY <1>1, <2>1 DEF Coming
    <3>2. Working => Working'
      BY <1>1, <2>1 DEF Working, Newest
    <3> QED
      BY <1>1, <2>1, <3>1, <3>2 DEF WatchParts, Newest
  <2>5. SitInv'
    <3> SUFFICES ASSUME SitParts PROVE SitParts'
      BY <1>1 DEF SitInv
    <3> QED
      BY <1>1, <2>1 DEF SitParts, SawNobody, Newest
  <2> QED
    BY <2>2, <2>3, <2>4, <2>5
<1> QED
  BY <1>2, <1>3

\* The list is written; the pass goes on to the set that is polled.
LEMMA SetStep ==
    ASSUME PresenceInv, NEW w \in Passes, Set(w)
    PROVE  PresenceInv'
<1> USE DEF PresenceInv
<1>1. /\ pass[w].at = "set" /\ pass[w] # Idle /\ pass[w] \in Work
      /\ shown' = pass[w].list
      /\ raced' = (raced \/ pass[w].old)
      /\ UNCHANGED <<room, posts, moves, polled, clock, up, failed, lost, wiped>>
  BY IdleIs, Stage DEF Set, livekit
<1>2. /\ pass' \in [Passes -> {Idle} \cup Work]
      /\ pass'[w] \in Work /\ pass'[w].at = "sadd"
      /\ pass'[w].list = pass[w].list /\ pass'[w].saw = pass[w].saw
      /\ pass'[w].goodbye = pass[w].goodbye /\ pass'[w].old = pass[w].old
      /\ \A v \in Passes \ {w} : pass'[v] = pass[v]
  BY <1>1, GoDoes DEF Set, Stages
<1>3. PresenceTypeOK'
  BY <1>1, <1>2 DEF PresenceTypeOK, Work
<1>4. OneNewest'
  BY <1>1, <1>2, StepNewest DEF OneNewest, Newest, Stages
<1>5. raced' \/ \A v \in Passes : Newest(v, Stages)' => v = w
  BY <1>1, <1>2 DEF OneNewest, Newest, Stages
<1>6. WatchInv'
  <2> SUFFICES ASSUME WatchParts, ~ raced' PROVE WatchParts'
    BY <1>1 DEF WatchInv
  <2>1. \A v \in Passes : ~ Newest(v, {"del", "srem", "srem, tell"})'
    BY <1>2, <1>5 DEF Newest, Stages
  <2>2. \A v \in Passes : ~ Newest(v, {"srem", "srem, tell"})'
    BY <1>2, <1>5 DEF Newest, Stages
  <2>3. Working'
    BY <1>2 DEF Working
  <2> QED
    BY <1>2, <2>1, <2>2, <2>3 DEF WatchParts
<1>7. SitInv'
  <2> SUFFICES ASSUME SitParts, ~ raced' PROVE SitParts'
    BY <1>1 DEF SitInv
  <2>1. shown' # {}
    BY <1>1 DEF OneNewest
  <2>2. \A v \in Passes : ~ Newest(v, {"del"})'
    BY <1>2, <1>5 DEF Newest, Stages
  <2> QED
    BY <1>1, <1>2, <2>1, <2>2 DEF SitParts, SawNobody
<1> QED
  BY <1>3, <1>4, <1>6, <1>7

\* The channel is in the set.
LEMMA SaddStep ==
    ASSUME PresenceInv, NEW w \in Passes, Sadd(w)
    PROVE  PresenceInv'
<1> USE DEF PresenceInv
<1>1. /\ pass[w].at = "sadd" /\ pass[w] # Idle /\ polled' = TRUE
      /\ UNCHANGED <<room, posts, moves, shown, clock, up, failed, lost, raced, wiped>>
  BY IdleIs DEF Sadd, livekit, history
<1>2. /\ pass' \in [Passes -> {Idle} \cup Work]
      /\ pass[w].goodbye => /\ pass'[w] \in Work /\ pass'[w].at = "after"
                            /\ pass'[w].saw = pass[w].saw
                            /\ pass'[w].goodbye
      /\ ~ pass[w].goodbye => pass'[w] = Idle
      /\ \A v \in Passes \ {w} : pass'[v] = pass[v]
  BY <1>1, EndReconcileDoes DEF Sadd
<1>3. pass'[w].at \in {"idle", "after"}
  BY <1>2, IdleIs
<1>4. PresenceTypeOK'
  BY <1>1, <1>2 DEF PresenceTypeOK
<1>5. OneNewest'
  BY <1>2, <1>3, StepNewest DEF OneNewest, Newest, Stages
<1>6. WatchInv'
  <2> SUFFICES ASSUME WatchParts PROVE WatchParts'
    BY <1>1 DEF WatchInv
  <2>1. Coming => Coming'
    BY <1>1, <1>2 DEF Coming
  <2> QED
    BY <1>1, <1>2, <1>3, <2>1 DEF WatchParts, Newest
<1>7. SitInv'
  <2> SUFFICES ASSUME SitParts PROVE SitParts'
    BY <1>1 DEF SitInv
  <2>1. SawNobody(w)' \/ shown' # {}
    BY <1>1, <1>2 DEF SitParts, SawNobody
  <2> QED
    BY <1>1, <1>2, <1>3, <2>1 DEF SitParts, SawNobody, Newest
<1> QED
  BY <1>4, <1>5, <1>6, <1>7

\* The webhook's handler after a good-bye.
LEMMA AfterStep ==
    ASSUME PresenceInv, NEW w \in Passes, After(w) \/ Stop(w)
    PROVE  PresenceInv'
<1> USE DEF PresenceInv
<1>1. /\ pass[w].at \in {"after", "stop"} /\ pass[w] # Idle /\ clock' \in BOOLEAN
      /\ UNCHANGED <<room, posts, moves, shown, polled, up, failed, lost, raced, wiped>>
  BY IdleIs DEF After, Stop, livekit, redis, history, PresenceTypeOK
<1>2. /\ pass' \in [Passes -> {Idle} \cup Work]
      /\ pass'[w].at \in {"stop", "idle"}
      /\ \A v \in Passes \ {w} : pass'[v] = pass[v]
      /\ pass'[w] = Idle \/ (pass'[w].at = "stop" /\ shown = {} /\ pass[w].at = "after"
                              /\ pass'[w].saw = pass[w].saw)
  <2>1. CASE End(w)
    BY <2>1, EndDoes, IdleIs
  <2>2. CASE Go(w, "stop") /\ pass[w].at = "after" /\ shown = {}
    BY <1>1, <2>2, GoDoes
  <2> QED
    BY <2>1, <2>2 DEF After, Stop
<1>3. PresenceTypeOK'
  BY <1>1, <1>2 DEF PresenceTypeOK
<1>4. OneNewest'
  BY <1>2, StepNewest DEF OneNewest, Newest, Stages
<1>5. WatchInv'
  <2> SUFFICES ASSUME WatchParts PROVE WatchParts'
    BY <1>1 DEF WatchInv
  <2>1. Coming => Coming'
    BY <1>1, <1>2 DEF Coming
  <2>2. Working => Working'
    BY <1>1, <1>2 DEF Working, Newest
  <2>3. (\E v \in Passes : pass[v].at = "sadd") => (\E v \in Passes : pass[v].at = "sadd")'
    BY <1>1, <1>2
  <2> QED
    BY <1>1, <1>2, <2>1, <2>2, <2>3 DEF WatchParts, Newest
<1>6. SitInv'
  <2> SUFFICES ASSUME SitParts PROVE SitParts'
    BY <1>1 DEF SitInv
  <2>1. SawNobody(w)'
    BY <1>1, <1>2 DEF SitParts, SawNobody
  <2> QED
    BY <1>1, <1>2, <2>1 DEF SitParts, SawNobody, Newest
<1> QED
  BY <1>3, <1>4, <1>5, <1>6

\* Somebody comes; a webhook tells of it.
LEMMA JoinStep ==
    ASSUME PresenceInv, NEW p \in People, Join(p)
    PROVE  PresenceInv'
<1> USE DEF PresenceInv
<1> DEFINE h == [n |-> moves, kind |-> "joined", own |-> FALSE]
<1>1. /\ room' = room \cup {p}
      /\ posts' = posts \cup {h} /\ moves' = moves + 1
      /\ UNCHANGED <<shown, polled, clock, up, pass, failed, lost, raced, wiped>>
  BY DEF Join, Post, redis, history
<1>2. h \in Posts /\ h.kind = "joined"
  BY DEF PresenceTypeOK, Posts
<1> HIDE DEF h
<1>3. PresenceTypeOK'
  BY <1>1, <1>2 DEF PresenceTypeOK
<1>4. OneNewest'
  BY <1>1 DEF OneNewest, Newest
<1>5. WatchInv'
  <2>1. Coming'
    BY <1>1, <1>2 DEF Coming
  <2> QED
    BY <1>1, <2>1 DEF WatchInv, WatchParts, Newest
<1>6. SitInv'
  BY <1>1 DEF SitInv, SitParts, SawNobody, Newest
<1> QED
  BY <1>3, <1>4, <1>5, <1>6

\* Somebody goes; no pass counts on him any more.
LEMMA LeaveStep ==
    ASSUME PresenceInv, NEW p \in People, NEW own \in BOOLEAN, Leave(p, own)
    PROVE  PresenceInv'
<1> USE DEF PresenceInv
<1> DEFINE h == [n |-> moves, kind |-> "left", own |-> own]
<1>1. /\ room' = room \ {p}
      /\ posts' = posts \cup {h} /\ moves' = moves + 1
      /\ UNCHANGED <<shown, polled, clock, up, failed, lost, raced, wiped>>
  BY DEF Leave, Post, redis, history
<1>2. h \in Posts /\ h.kind = "left"
  BY DEF PresenceTypeOK, Posts
<1> HIDE DEF h
<1>3. ASSUME NEW w \in Passes, pass[w] = Idle
      PROVE  pass'[w] = Idle
  BY <1>3 DEF Leave, Idle
<1>4. ASSUME NEW w \in Passes, pass[w] # Idle
      PROVE  /\ pass'[w] \in Work
             /\ pass'[w].saw = pass[w].saw \ {p}
             /\ pass'[w].at = pass[w].at /\ pass'[w].list = pass[w].list
             /\ pass'[w].old = pass[w].old
  <2>1. pass[w] \in Work
    BY <1>4, Stage
  <2>2. pass'[w] = [pass[w] EXCEPT !.saw = @ \ {p}]
    BY <2>1 DEF Leave, Work
  <2> QED
    BY <2>1, <2>2 DEF Work
<1>5. \A w \in Passes : pass'[w].at = pass[w].at
  BY <1>3, <1>4
<1>6. PresenceTypeOK'
  <2>1. pass' \in [Passes -> {Idle} \cup Work]
    <3>1. \A w \in Passes : pass'[w] \in {Idle} \cup Work
      BY <1>3, <1>4
    <3>2. DOMAIN pass' = Passes /\ pass' = [w \in DOMAIN pass' |-> pass'[w]]
      BY DEF Leave
    <3> QED
      BY <3>1, <3>2
  <2> QED
    BY <1>1, <1>2, <2>1 DEF PresenceTypeOK
<1>7. \A w \in Passes : pass[w] # Idle => pass'[w].old = pass[w].old
  BY <1>4
<1>8. OneNewest'
  BY <1>3, <1>4, IdleIs DEF OneNewest, Newest, Stages
<1>9. WatchInv'
  <2>1. Coming'
    BY <1>1, <1>2 DEF Coming
  <2> QED
    BY <1>1, <1>3, <1>4, <2>1, IdleIs DEF WatchInv, WatchParts, Newest
<1>10. SitInv'
  <2> SUFFICES ASSUME SitParts PROVE SitParts'
    BY <1>1 DEF SitInv
  <2>1. \A w \in Passes : SawNobody(w) => SawNobody(w)'
    BY <1>3, <1>4 DEF SawNobody
  <2>2. (\A w \in Passes : pass[w] # Idle => pass[w].saw \subseteq room)'
    BY <1>1, <1>3, <1>4 DEF SitParts
  <2>3. \A w \in Passes : Newest(w, {"del"})' => Newest(w, {"del"})
    BY <1>3, <1>4, IdleIs DEF Newest
  <2> QED
    BY <1>1, <1>3, <1>5, <2>1, <2>2, <2>3 DEF SitParts
<1> QED
  BY <1>6, <1>8, <1>9, <1>10

\* The room is closed when nobody is in it.
LEMMA FinishStep ==
    ASSUME PresenceInv, Finish
    PROVE  PresenceInv'
<1> USE DEF PresenceInv
<1> DEFINE h == [n |-> moves, kind |-> "finished", own |-> FALSE]
<1>1. /\ room = {} /\ room' = room
      /\ posts' = posts \cup {h} /\ moves' = moves + 1
      /\ UNCHANGED <<shown, polled, clock, up, pass, failed, lost, raced, wiped>>
  BY DEF Finish, Post, redis, history
<1>2. h \in Posts
  BY DEF PresenceTypeOK, Posts
<1> HIDE DEF h
<1>3. PresenceTypeOK'
  BY <1>1, <1>2 DEF PresenceTypeOK
<1> QED
  BY <1>1, <1>3 DEF OneNewest, WatchInv, WatchParts, SitInv, SitParts, SawNobody, Newest

\* The poll starts a pass.
LEMMA PollStep ==
    ASSUME PresenceInv, Poll
    PROVE  PresenceInv'
<1> USE DEF PresenceInv
<1> DEFINE r == NewPass("list", FALSE)
<1>1. /\ "poll" \in Passes /\ pass["poll"] = Idle /\ up /\ polled
      /\ pass' = [pass EXCEPT !["poll"] = r]
      /\ UNCHANGED <<room, posts, moves, shown, polled, clock, up, failed, lost, raced, wiped>>
  BY DEF Poll, Passes, livekit, redis, history
<1>2. r \in Work /\ r.at = "list" /\ ~ r.old /\ r.saw = {}
  BY DEF NewPass, Work
<1> HIDE DEF r
<1>3. /\ pass' \in [Passes -> {Idle} \cup Work]
      /\ pass'["poll"] = r
      /\ \A v \in Passes \ {"poll"} : pass'[v] = pass[v]
  BY <1>1, <1>2, ExceptDoes
<1>4. PresenceTypeOK'
  BY <1>1, <1>3 DEF PresenceTypeOK
<1>5. OneNewest'
  BY <1>2, <1>3, IdleIs DEF OneNewest, Newest, Stages
<1>6. WatchInv'
  <2>1. Coming'
    BY <1>1, <1>2, <1>3 DEF Coming
  <2> QED
    BY <1>1, <1>2, <1>3, <2>1 DEF WatchInv, WatchParts, Newest
<1>7. SitInv'
  BY <1>1, <1>2, <1>3 DEF SitInv, SitParts, SawNobody, Newest
<1> QED
  BY <1>4, <1>5, <1>6, <1>7

\* The service dies: the passes at work are lost.
LEMMA CrashStep ==
    ASSUME PresenceInv, Crash
    PROVE  PresenceInv'
<1> USE DEF PresenceInv
<1>1. /\ pass' = [w \in Passes |-> Idle] /\ up' = FALSE
      /\ lost' = (lost \/ \E w \in Passes : pass[w] # Idle)
      /\ UNCHANGED <<room, posts, moves, shown, polled, clock, failed, raced, wiped>>
  BY DEF Crash, livekit, redis
<1>2. PresenceTypeOK'
  BY <1>1 DEF PresenceTypeOK
<1>3. OneNewest'
  BY <1>1, IdleIs DEF OneNewest, Newest, Stages
<1>4. WatchInv'
  <2> SUFFICES ASSUME WatchParts, ~ lost' PROVE WatchParts'
    BY <1>1 DEF WatchInv
  <2>1. \A w \in Passes : pass[w] = Idle /\ pass'[w] = Idle
    BY <1>1
  <2> QED
    BY <1>1, <2>1, IdleIs DEF WatchParts, Coming, Working, Newest
<1>5. SitInv'
  BY <1>1, IdleIs DEF SitInv, SitParts, SawNobody, Newest
<1> QED
  BY <1>2, <1>3, <1>4, <1>5

\* The list expires: nobody is at work on it.
LEMMA ExpireStep ==
    ASSUME PresenceInv, Expire
    PROVE  PresenceInv'
<1> USE DEF PresenceInv
<1>1. /\ shown' = {}
      /\ ~ up \/ \A w \in Passes : pass[w] = Idle
      /\ UNCHANGED <<room, posts, moves, polled, clock, up, pass, failed, lost, raced, wiped>>
  BY DEF Expire, livekit, history
<1>2. PresenceTypeOK'
  BY <1>1 DEF PresenceTypeOK
<1>3. OneNewest'
  BY <1>1 DEF OneNewest, Newest
<1>4. WatchInv'
  BY <1>1 DEF WatchInv, WatchParts, Coming, Working, Newest
<1>5. SitInv'
  BY <1>1, IdleIs DEF SitInv, SitParts, SawNobody, Newest
<1> QED
  BY <1>2, <1>3, <1>4, <1>5

\* The clients, a lost webhook, a new start, and nothing at all.
LEMMA QuietStep ==
    ASSUME PresenceInv,
           \/ Handle \/ SendLate \/ Restart \/ UNCHANGED vars
           \/ \E h \in posts : LosePost(h)
    PROVE  PresenceInv'
<1> USE DEF PresenceInv
<1>1. UNCHANGED <<room, moves, shown, polled, clock, pass, failed, raced, wiped>>
  BY DEF Handle, SendLate, Restart, LosePost, vars, livekit, redis, history
<1>2. /\ up' \in {TRUE, up} /\ posts' \subseteq posts /\ lost' \in {TRUE, lost}
  BY DEF Handle, SendLate, Restart, LosePost, vars, livekit, redis, history
<1>7. (lost => lost') /\ (lost' \/ posts' = posts)
  BY DEF Handle, SendLate, Restart, LosePost, vars, livekit, redis, history
<1>3. PresenceTypeOK'
  BY <1>1, <1>2 DEF PresenceTypeOK
<1>4. OneNewest'
  BY <1>1 DEF OneNewest, Newest
<1>5. WatchInv'
  <2> SUFFICES ASSUME ~ lost' PROVE WatchInv'
    BY DEF WatchInv
  <2>1. posts' = posts /\ ~ lost
    BY <1>7
  <2> QED
    BY <1>1, <2>1 DEF WatchInv, WatchParts, Coming, Working, Newest
<1>6. SitInv'
  <2>1. ~ up' => ~ up
    BY <1>2
  <2> QED
    BY <1>1, <2>1 DEF SitInv, SitParts, SawNobody, Newest
<1> QED
  BY <1>3, <1>4, <1>5, <1>6

\* The inductive invariant of index.ts: whichever order webhooks, poll and
\* restarts come in, the newest pass tells the truth or somebody is about to ask again.
THEOREM PresenceInvariant == Spec => []PresenceInv
<1>1. Init => PresenceInv
  <2> SUFFICES ASSUME Init PROVE PresenceInv
    OBVIOUS
  <2>1. PresenceTypeOK
    BY DEF Init, PresenceTypeOK
  <2>2. \A w \in Passes : pass[w] = Idle /\ pass[w].at = "idle"
    BY IdleIs DEF Init
  <2>3. OneNewest
    BY <2>2 DEF OneNewest, Newest, Stages
  <2>4. WatchInv
    BY <2>2 DEF Init, WatchInv, WatchParts, Newest
  <2>5. SitInv
    BY <2>2 DEF Init, SitInv, SitParts, SawNobody, Newest
  <2> QED
    BY <2>1, <2>3, <2>4, <2>5 DEF PresenceInv
<1>2. PresenceInv /\ [Next]_vars => PresenceInv'
  <2> SUFFICES ASSUME PresenceInv, [Next]_vars PROVE PresenceInv'
    OBVIOUS
  <2>1. ASSUME NEW w \in Passes, PassStep(w) PROVE PresenceInv'
    BY <2>1, ListStep, DelStep, SremStep, GetStep, SetStep, SaddStep, AfterStep DEF PassStep
  <2> QED
    BY <2>1, JoinStep, LeaveStep, FinishStep, PollStep, TakePostStep, CrashStep, ExpireStep, QuietStep
    DEF Next
<1> QED
  BY <1>1, <1>2, PTL DEF Spec

\* A channel with people in it is polled once nothing is under way, unless
\* something failed, was lost, an overtaken pass wrote, or a late room_finished
\* was handled (the SADD and SREM of reconcile and clearChannel).
THEOREM WatchedWhileOccupied == Spec => []OccupiedIsWatched
<1>1. PresenceInv => OccupiedIsWatched
  BY IdleIs DEF PresenceInv, WatchInv, WatchParts, Coming, Working, Newest, OccupiedIsWatched
<1> QED
  BY <1>1, PresenceInvariant, PTL

\* A good-bye does not stop the clock of those who stay (voice:since and the
\* webhook's handler after reconcile).
THEOREM GoodbyeKeepsTheClock == Spec => ClockKept
<1> DEFINE ClockStays ==
      \A w \in Hooks : pass[w] # Idle /\ pass[w].goodbye /\ pass[w].saw # {} /\ pass'[w] = Idle /\ clock /\ ~ clock'
         => failed \/ raced \/ wiped \/ ~ up'
<1>1. PresenceInv /\ [Next]_vars => ClockStays
  <2> SUFFICES ASSUME PresenceInv, [Next]_vars, NEW w \in Hooks,
                      pass[w] # Idle, pass[w].saw # {}, pass'[w] = Idle, clock, ~ clock'
               PROVE  failed \/ raced \/ wiped \/ ~ up'
    OBVIOUS
  <2> USE DEF PresenceInv
  <2>1. PICK v \in Passes : Stop(v)
    BY DEF Next, PassStep, Join, Leave, Finish, Post, Poll, TakePost, List, Del, Srem, Get, Set, Sadd,
           After, Handle, SendLate, LosePost, Crash, Restart, Expire, vars, redis
  <2>2. w \in Passes
    BY DEF Passes
  <2>3. v = w
    BY <2>1, <2>2 DEF Stop, End, PresenceTypeOK
  <2> QED
    BY <2>1, <2>3 DEF Stop, SitInv, SitParts, SawNobody
<1> QED
  BY <1>1, PresenceInvariant, PTL DEF Spec, ClockKept
=============================================================================
