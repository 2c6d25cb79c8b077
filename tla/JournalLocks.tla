---------------------------- MODULE JournalLocks ----------------------------
(***************************************************************************)
(* The locks under the journal (backend conversations.ts, convRules.ts,    *)
(* convJournal.ts, convGroups.ts, scheduled.ts, federation/convChanges.ts, *)
(* federation/convAccept.ts).  ConvJournal takes a transaction for one     *)
(* step; here a transaction takes its row locks one by one and keeps them  *)
(* until it ends: first the conversation's row (lockConversation), then    *)
(* the user_sync rows of the people it writes to, in journalLockOrder,     *)
(* then the fed_conv_sync rows of the other instances that hold the        *)
(* conversation, by their ids.  Scheduled messages put their own rows in   *)
(* between, in two orders, and the operations on a group take the last two *)
(* tables the other way round.                                             *)
(* PostgreSQL, the holder of the locks, is external.                       *)
(***************************************************************************)
EXTENDS Integers, Sequences, FiniteSets, Functions

CONSTANTS
    Users,      \* people, known by numbers that sort as their ids do
    Instances,  \* other instances, likewise
    Members,    \* the members of every conversation
    Homes,      \* the other instances that take its changes (none: no federation)
    Txs,        \* transactions at work at one time
    Scheduled,  \* scheduled messages, one of an author: <<conversation, author>>
    Ops         \* optional writers: "pin" (with its service line), "group",
                \* "copy" (of another instance's message), "prune"

VARIABLES
    op,         \* what a transaction is about
    todo,       \* the locks it has still to take, in their order
    held        \* the locks it has

lockVars == <<op, todo, held>>

ASSUME LocksAssumption ==
    /\ Users \subseteq Int /\ IsFiniteSet(Users)
    /\ Instances \subseteq Int /\ IsFiniteSet(Instances)
    /\ Homes \in [DOMAIN Members -> SUBSET Instances]
    /\ Members \in [DOMAIN Members -> (SUBSET Users) \ {{}}]
    /\ \A m \in Scheduled : m[1] \in DOMAIN Members /\ m[2] \in Members[m[1]]
    /\ Ops \subseteq {"pin", "group", "copy", "prune"}

Convs == DOMAIN Members

ConvRow(c) == [table |-> "conversations", conv |-> c]
SyncRow(u) == [table |-> "user_sync", user |-> u]
FedRow(i) == [table |-> "fed_conv_sync", home |-> i]
SchedRow(m) == [table |-> "conversation_scheduled", conv |-> m[1], user |-> m[2]]

\* The ways to line up a set of people or of instances.
Orders(who) == {s \in [1 .. Cardinality(who) -> who] : IsInjective(s)}

\* journalLockOrder: by id, each person once.
JournalLockOrder(who) ==
    CHOOSE s \in Orders(who) : \A i, j \in DOMAIN s : i < j => s[i] < s[j]

SyncRows(order) == [i \in DOMAIN order |-> SyncRow(order[i])]
FedRows(order) == [i \in DOMAIN order |-> FedRow(order[i])]

\* recordFedConvChanges: the instances by id too.
FedRecord(homes) == FedRows(JournalLockOrder(homes))

\* journal() of some people and, with federation, of some instances; so are
\* the writers that call fedRecord themselves right after it.
Journal(who, homes) == SyncRows(JournalLockOrder(who)) \o FedRecord(homes)

NoTx(t) == op[t] = "none"

LocksInit ==
    /\ op = [t \in Txs |-> "none"]
    /\ todo = [t \in Txs |-> <<>>]
    /\ held = [t \in Txs |-> {}]

Begin(t, kind, locks) ==
    /\ NoTx(t)
    /\ op' = [op EXCEPT ![t] = kind]
    /\ todo' = [todo EXCEPT ![t] = locks]
    /\ UNCHANGED held

\* Wrong: the people in the order the change names them.
ChangeInAnyOrder(t) ==
    \E c \in Convs : \E told \in (SUBSET Members[c]) \ {{}}, homes \in SUBSET Homes[c] :
        \E order \in Orders(told) :
            Begin(t, "change", <<ConvRow(c)>> \o SyncRows(order) \o FedRecord(homes))

\* Sending, editing, deleting, reading, marking, another instance's reaction
\* or edit (its pins are of people it has told already)...: the conversation,
\* then one journal() for everybody the change is told to.
Change(t) ==
    \E c \in Convs : \E told \in (SUBSET Members[c]) \ {{}}, homes \in SUBSET Homes[c] :
        Begin(t, "change", <<ConvRow(c)>> \o Journal(told, homes))

\* announceConvs: the journal without the conversation.
Announce(t) ==
    \E c \in Convs : \E told \in (SUBSET Members[c]) \ {{}} : Begin(t, "change", Journal(told, {}))

\* pinMessage "for both": the journal of those whose list changed, then, in
\* the same transaction, sendMessage with the journal of all members.
PinForBoth(t) ==
    /\ "pin" \in Ops
    /\ \E c \in Convs : \E changed \in (SUBSET Members[c]) \ {{}}, marked, homes \in SUBSET Homes[c] :
         Begin(t, "pin", <<ConvRow(c)>> \o Journal(changed, marked) \o Journal(Members[c], homes))

\* insertService of a group: fedRecordGroup first, then journal(), which finds
\* the rows of the instances in its hands already.
GroupAction(t) ==
    /\ "group" \in Ops
    /\ \E c \in Convs : \E told \in (SUBSET Members[c]) \ {{}} :
         Begin(t, "group", <<ConvRow(c)>> \o FedRecord(Homes[c]) \o Journal(told, {}))

\* convAccept: a deleted copy (tombstone) tells its audience and then those who
\* lost a pin, a line about people who left tells the members and then them.
\* Of the second journal() only people the first has not told take a lock.
AcceptCopy(t) ==
    /\ "copy" \in Ops
    /\ \E c \in Convs : \E told \in SUBSET Members[c], homes \in SUBSET Homes[c] :
         \E others \in SUBSET (Members[c] \ told) :
            Begin(t, "copy", <<ConvRow(c)>> \o Journal(told, homes) \o Journal(others, {}))

\* pruneJournal: one UPDATE over the user_sync rows of everybody who has old
\* rows, in the order the database finds them; pruneFedConvChanges: the same
\* over fed_conv_sync.  There is one cleaning at a time.
Prune(t) ==
    /\ "prune" \in Ops
    /\ \A s \in Txs : op[s] # "prune"
    /\ \/ \E who \in (SUBSET Users) \ {{}} : \E order \in Orders(who) : Begin(t, "prune", SyncRows(order))
       \/ \E homes \in (SUBSET Instances) \ {{}} : \E order \in Orders(homes) : Begin(t, "prune", FedRows(order))

\* What the sending of a scheduled message takes: the journal of the message
\* (journalScheduled finds the author's row in its hands already), or of its
\* author alone when it cannot be sent.
SendingOf(m) ==
    {Journal({m[2]}, {})} \cup {Journal(Members[m[1]], homes) : homes \in SUBSET Homes[m[1]]}

\* sendScheduledNow: the conversation, the row, and what the sending takes.
SendNow(t) ==
    \E m \in Scheduled : \E locks \in SendingOf(m) :
        Begin(t, "change", <<ConvRow(m[1]), SchedRow(m)>> \o locks)

\* editScheduled, deleteScheduled and recordAttempt of a failed sending leave
\* the conversation alone.
ChangeScheduled(t) ==
    \E m \in Scheduled : Begin(t, "change", <<SchedRow(m)>> \o Journal({m[2]}, {}))

Unlocked(row) == \A s \in Txs : row \notin held[s]

\* tickStep takes a row that is due and that nobody has...
TickTakes(t) ==
    /\ NoTx(t)
    /\ \E m \in Scheduled :
         /\ Unlocked(SchedRow(m))
         /\ held' = [held EXCEPT ![t] = {SchedRow(m)}]
    /\ op' = [op EXCEPT ![t] = "tick"]
    /\ UNCHANGED todo

\* Wrong: the tick waits for the conversation.
TickWaits(t) ==
    /\ op[t] = "tick"
    /\ \E m \in Scheduled :
         /\ SchedRow(m) \in held[t]
         /\ todo' = [todo EXCEPT ![t] = <<ConvRow(m[1])>> \o Journal(Members[m[1]], {})]
    /\ op' = [op EXCEPT ![t] = "change"]
    /\ UNCHANGED held

\* ...and sends it if it gets the conversation without waiting (a row that
\* cannot be sent only tells its author); else it gives the row back.
TickSends(t) ==
    /\ op[t] = "tick"
    /\ \E m \in Scheduled :
         /\ SchedRow(m) \in held[t]
         /\ \/ /\ Unlocked(ConvRow(m[1]))
               /\ \E locks \in SendingOf(m) : todo' = [todo EXCEPT ![t] = locks]
               /\ held' = [held EXCEPT ![t] = @ \cup {ConvRow(m[1])}]
               /\ op' = [op EXCEPT ![t] = "change"]
            \/ /\ ~ Unlocked(ConvRow(m[1]))
               /\ held' = [held EXCEPT ![t] = {}]
               /\ op' = [op EXCEPT ![t] = "none"]
               /\ UNCHANGED todo

\* Wrong: a transaction waits for a row it has itself.
AcquireNotOwn(t) ==
    /\ todo[t] # <<>>
    /\ \A s \in Txs : Head(todo[t]) \notin held[s]
    /\ held' = [held EXCEPT ![t] = @ \cup {Head(todo[t])}]
    /\ todo' = [todo EXCEPT ![t] = Tail(@)]
    /\ UNCHANGED op

\* The next lock of the list: at once when nobody else has it.
Acquire(t) ==
    /\ todo[t] # <<>>
    /\ \A s \in Txs \ {t} : Head(todo[t]) \notin held[s]
    /\ held' = [held EXCEPT ![t] = @ \cup {Head(todo[t])}]
    /\ todo' = [todo EXCEPT ![t] = Tail(@)]
    /\ UNCHANGED op

Commit(t) ==
    /\ op[t] \notin {"none", "tick"}
    /\ todo[t] = <<>>
    /\ op' = [op EXCEPT ![t] = "none"]
    /\ held' = [held EXCEPT ![t] = {}]
    /\ UNCHANGED todo

\* The transaction fails: an error or a lost connection.
Rollback(t) ==
    /\ ~ NoTx(t)
    /\ op' = [op EXCEPT ![t] = "none"]
    /\ todo' = [todo EXCEPT ![t] = <<>>]
    /\ held' = [held EXCEPT ![t] = {}]

WaitsFor(t, s) == s # t /\ todo[t] # <<>> /\ Head(todo[t]) \in held[s]

Circle(txs) == txs # {} /\ \A t \in txs : \E s \in txs : WaitsFor(t, s)

\* t is one of those who wait for one another, not one who waits for them.
Deadlocked(t) ==
    \E txs \in SUBSET Txs :
        /\ t \in txs /\ Circle(txs)
        /\ \A rest \in SUBSET (txs \ {t}) : ~ Circle(rest)

\* PostgreSQL's deadlock detector fails one of them, whichever looks first.
DetectDeadlock(t) ==
    /\ Deadlocked(t)
    /\ Rollback(t)

LocksNext == \E t \in Txs :
    \/ Change(t)
    \/ Announce(t)
    \/ PinForBoth(t)
    \/ GroupAction(t)
    \/ AcceptCopy(t)
    \/ Prune(t)
    \/ SendNow(t)
    \/ ChangeScheduled(t)
    \/ TickTakes(t)
    \/ TickSends(t)
    \/ Acquire(t)
    \/ Commit(t)
    \/ Rollback(t)
    \/ DetectDeadlock(t)

LocksSpec == LocksInit /\ [][LocksNext]_lockVars

\* A process finishes what it began, PostgreSQL queues those who wait for a
\* row, so nobody is overtaken for ever, and its detector does its work.
LocksFairSpec ==
    /\ LocksSpec
    /\ \A t \in Txs : SF_lockVars(Acquire(t)) /\ WF_lockVars(Commit(t)) /\ WF_lockVars(TickSends(t))
    /\ WF_lockVars(\E t \in Txs : DetectDeadlock(t))

----------------------------------------------------------------------------
\* INV: transactions that call journal() once, and take the rows in its order,
\* never wait for one another in a circle (journalLockOrder's promise: the same
\* order for ALL writers, or two changes lock each other; convChanges.ts's that
\* fed_conv_sync rows go up by id; and that of the tick of scheduled.ts, which
\* meets sendScheduledNow going the other way).  A circle is closed only by a
\* pin for both or a copy taken in (two calls), by the nightly cleaning (no
\* order), or by an operation on a group, which has the instances' rows when
\* it comes to the people's, and then somebody waits for an instance's row.
ChangesNeverCircle ==
    \A txs \in SUBSET Txs : Circle(txs) =>
        \/ \E t \in txs : op[t] \in {"pin", "copy", "prune"}
        \/ /\ \E t \in txs : op[t] = "group"
           /\ \E t \in txs : Head(todo[t]).table = "fed_conv_sync"

\* LIVE: every transaction is over some time, whatever the writers at work,
\* be it because the database fails one of those in a circle.
EveryChangeEnds == \A t \in Txs : ~ NoTx(t) ~> NoTx(t)
=============================================================================
