----------------------------- MODULE BlockCache -----------------------------
(***************************************************************************)
(* The black list of one person and its cache (backend blocks.ts).  The    *)
(* list is rows of user_blocks; isBlockedBy answers from a set kept in the *)
(* memory of the process, read from the table when there is none.  Every   *)
(* query is a request and an answer with other calls between them.         *)
(* PostgreSQL, the holder of the table, is external.                       *)
(***************************************************************************)
EXTENDS FiniteSets

CONSTANTS
    Others,     \* those he may block
    Reads,      \* calls of isBlockedBy at work at one time
    Writes      \* calls of blockUser and unblockUser at work at one time

VARIABLES
    table,      \* user_blocks of this blocker
    cache,      \* cache.get(blocker): none, or a set
    read,       \* per call: idle, asking the database, or its answer at hand
    write,      \* per call: idle, or the row written and the cache not dropped
    overtaken   \* history: the set at hand, or in the cache, was read before
                \* a change that finished while the call was at work

blockVars == <<table, cache, read, write, overtaken>>

ASSUME CacheAssumption == IsFiniteSet(Others)

None == [has |-> FALSE]
Kept(set) == [has |-> TRUE, set |-> set]

NoCall == [at |-> "idle"]

BlocksInit ==
    /\ table = {}
    /\ cache = None
    /\ read = [r \in Reads |-> NoCall]
    /\ write = [w \in Writes |-> "idle"]
    /\ overtaken = FALSE

\* blockedSet with the set at hand asks nothing; without it, the database.
Ask(r) ==
    /\ read[r] = NoCall
    /\ ~ cache.has
    /\ read' = [read EXCEPT ![r] = [at |-> "asking"]]
    /\ UNCHANGED <<table, cache, write, overtaken>>

\* The database answers with the rows there are.
Select(r) ==
    /\ read[r].at = "asking"
    /\ read' = [read EXCEPT ![r] = [at |-> "read", set |-> table, late |-> FALSE]]
    /\ UNCHANGED <<table, cache, write, overtaken>>

\* The rest of blockedSet: whatever happened since, the set read is kept.
Install(r) ==
    /\ read[r].at = "read"
    /\ cache' = Kept(read[r].set)
    /\ overtaken' = read[r].late
    /\ read' = [read EXCEPT ![r] = NoCall]
    /\ UNCHANGED <<table, write>>

\* The ceiling of 10 000 sets: somebody else's list empties the cache.
Overflow ==
    /\ cache.has
    /\ cache' = None
    /\ UNCHANGED <<table, read, write, overtaken>>

\* blockUser and unblockUser, the row.
BlockRow(w, p) ==
    /\ write[w] = "idle"
    /\ table' = table \cup {p}
    /\ write' = [write EXCEPT ![w] = "written"]
    /\ UNCHANGED <<cache, read, overtaken>>

UnblockRow(w, p) ==
    /\ write[w] = "idle"
    /\ table' = table \ {p}
    /\ write' = [write EXCEPT ![w] = "written"]
    /\ UNCHANGED <<cache, read, overtaken>>

\* Wrong: the set stays.
DropNothing(w) ==
    /\ write[w] = "written"
    /\ write' = [write EXCEPT ![w] = "idle"]
    /\ UNCHANGED <<table, cache, read, overtaken>>

\* blockUser and unblockUser, the rest: the set is dropped.
Drop(w) ==
    /\ write[w] = "written"
    /\ cache' = None
    /\ read' = [r \in Reads |->
                  IF read[r].at = "read"
                  THEN [at |-> "read", set |-> read[r].set, late |-> TRUE]
                  ELSE read[r]]
    /\ write' = [write EXCEPT ![w] = "idle"]
    /\ UNCHANGED <<table, overtaken>>

BlocksNext ==
    \/ \E r \in Reads : Ask(r) \/ Select(r) \/ Install(r)
    \/ \E w \in Writes : Drop(w) \/ \E p \in Others : BlockRow(w, p) \/ UnblockRow(w, p)
    \/ Overflow

BlocksSpec == BlocksInit /\ [][BlocksNext]_blockVars

----------------------------------------------------------------------------
BlocksTypeOK ==
    /\ table \subseteq Others
    /\ cache \in {None} \cup [has : {TRUE}, set : SUBSET Others]
    /\ read \in [Reads -> {NoCall} \cup [at : {"asking"}]
                             \cup [at : {"read"}, set : SUBSET Others, late : BOOLEAN]]
    /\ write \in [Writes -> {"idle", "written"}]
    /\ overtaken \in BOOLEAN

NobodyWrites == \A w \in Writes : write[w] = "idle"

\* INV: when no change is at work, a set in the cache is the list itself,
\* unless it was read before a change and put there after it.
StaleOnlyByRace == (cache.has /\ NobodyWrites /\ ~ overtaken) => cache.set = table
=============================================================================
