---------------------------- MODULE ConvJournal ----------------------------
(***************************************************************************)
(* The server's side of one direct conversation (backend conversations.ts, *)
(* convRules.ts, convJournal.ts, blocks.ts): its messages, what each       *)
(* member has read, hidden, pinned and marked, who blocks whom, and the    *)
(* journal of each member.  Every operation is one transaction under the   *)
(* lock of the conversation's row (lockConversation), hence one action.    *)
(* Sending takes three: the route looks at the black list BEFORE the       *)
(* transaction, and after it marks everything up to the new message read.  *)
(*                                                                         *)
(* A message is known by its place in the conversation: nextSortKey, taken *)
(* under the lock, makes keys grow in the order of the transactions.       *)
(* Contents are a version number; reactions, replies, attachments, drafts  *)
(* and groups are left out.                                                *)
(***************************************************************************)
EXTENDS Integers, Sequences, FiniteSets

CONSTANTS
    Users,      \* the members of the conversation
    Clients,    \* the client_id values a device stamps its sendings with
    Requests,   \* slots for POST requests in progress
    Ops,        \* which of the optional operations this instance exercises
    PinsMax,    \* pins of one person in the conversation (convRules.PINS_MAX)
    MaxMsgs,    \* bound: messages ever sent
    MaxVer,     \* bound: edits of one message
    MaxPts      \* bound: rows ever written for one person

VARIABLES
    msgs,       \* conversation_messages, in the order of their sort keys
    readKey,    \* conversation_members.last_read_key
    marked,     \* conversation_members.unread_marked_at is set
    archived,   \* conversation_members.archived_at is set
    pins,       \* conversation_pins: [user, msg, both]
    blocks,     \* user_blocks: <<blocker, blocked>>
    blockedAt,  \* user_blocks.created_at, as the number of messages then
    pts,        \* user_sync.pts
    minPts,     \* user_sync.min_pts
    rows,       \* user_changes: per person, number -> [kind, msg]
    req         \* POST /conv/:id/messages in progress

convVars == <<msgs, readKey, marked, archived, pins>>
blockVars == <<blocks, blockedAt>>
journalVars == <<pts, minPts, rows>>
vars == <<msgs, readKey, marked, archived, pins, blocks, blockedAt, pts, minPts, rows, req>>

AllOps == {"edit", "delete", "read", "mark", "archive", "pin", "block", "prune"}

ASSUME ConvAssumption ==
    /\ \A u \in Users : \E v \in Users : v # u
    /\ MaxMsgs \in Nat /\ MaxVer \in Nat
    /\ PinsMax \in Nat
    /\ Ops \subseteq AllOps

NoClient == "none"
Idle == [stage |-> "idle"]
Keys == 1 .. Len(msgs)

\* access.peerId: the other member.
Peer(u) == CHOOSE v \in Users : v # u

\* messageView = 'full'.
Visible(m, u) ==
    /\ ~ m.deleted
    /\ u \notin m.hidden
    /\ m.withheld => m.author = u

\* Wrong: the withheld are told of like all the others.
AudienceEverybody(m) == Users

\* changeAudience for creating, editing and deleting for both.
Audience(m) == IF m.withheld THEN {m.author} ELSE Users

\* blockersOf: the members that block u.
BlockersOf(u) == {v \in Users : <<v, u>> \in blocks}

HasPin(u, k) == \E p \in pins : p.user = u /\ p.msg = k
PinHolders(k) == {u \in Users : HasPin(u, k)}

MsgRow(k) == <<[kind |-> "msg", msg |-> k]>>
\* Wrong: a kind syncSince does not know.
PinRowOfUnknownKind == <<[kind |-> "pins", msg |-> 0]>>

PinRow == <<[kind |-> "pin", msg |-> 0]>>
OwnRow(kind) == <<[kind |-> kind, msg |-> 0]>>

To(us, list) == [u \in Users |-> IF u \in us THEN list ELSE <<>>]
Then(first, second) == [u \in Users |-> first[u] \o second[u]]

\* journal(): the rows of each person take the next numbers, in order.
Journal(new) ==
    /\ \A u \in Users : pts[u] + Len(new[u]) <= MaxPts
    /\ pts' = [u \in Users |-> pts[u] + Len(new[u])]
    /\ rows' = [u \in Users |->
                  [p \in DOMAIN rows[u] \cup (pts[u] + 1) .. (pts[u] + Len(new[u])) |->
                     IF p > pts[u] THEN new[u][p - pts[u]] ELSE rows[u][p]]]
    /\ UNCHANGED minPts

----------------------------------------------------------------------------
Init ==
    /\ msgs = <<>>
    /\ readKey = [u \in Users |-> 0]
    /\ marked = [u \in Users |-> FALSE]
    /\ archived = [u \in Users |-> FALSE]
    /\ pins = {}
    /\ blocks = {}
    /\ blockedAt = [b \in Users \X Users |-> 0]
    /\ pts = [u \in Users |-> 0]
    /\ minPts = [u \in Users |-> 0]
    /\ rows = [u \in Users |-> [p \in {} |-> [kind |-> "msg", msg |-> 0]]]
    /\ req = [r \in Requests |-> Idle]

\* The message a transaction of `u` appends.
NewMessage(u, client, withheld, service) ==
    [author |-> u, client |-> client, ver |-> 0, deleted |-> FALSE,
     hidden |-> {}, withheld |-> withheld, service |-> service]

\* unarchiveOnMessage: back from the archive for everyone the message
\* reaches, except those (never the author) whose mute of him still holds.
Unarchive(author, reached, muting) ==
    archived' = [u \in Users |-> archived[u] /\ (u \notin reached \/ (u # author /\ u \in muting))]

(***************************************************************************)
(* POST /conv/:id/messages, first part: is the sender blocked by his peer? *)
(***************************************************************************)
Decide(r, u, c) ==
    /\ req[r] = Idle
    /\ req' = [req EXCEPT ![r] = [stage |-> "decided", user |-> u, client |-> c,
                                  withheld |-> <<Peer(u), u>> \in blocks]]
    /\ UNCHANGED <<convVars, blockVars, journalVars>>

\* Wrong: what was withheld is not looked at.
KnownDelivered(u, c) ==
    \E k \in Keys : msgs[k].author = u /\ msgs[k].client = c /\ ~ msgs[k].withheld

Known(u, c) == \E k \in Keys : msgs[k].author = u /\ msgs[k].client = c

(***************************************************************************)
(* sendMessage: a client_id seen before is answered from its row (replay,  *)
(* or 409 when the payload differs) and nothing is written.                *)
(***************************************************************************)
Replay(r) ==
    /\ req[r].stage = "decided"
    /\ Known(req[r].user, req[r].client)
    /\ req' = [req EXCEPT ![r] = Idle]
    /\ UNCHANGED <<convVars, blockVars, journalVars>>

Create(r) ==
    /\ req[r].stage = "decided"
    /\ Len(msgs) < MaxMsgs
    /\ LET u == req[r].user
           m == NewMessage(u, req[r].client, req[r].withheld, FALSE)
           k == Len(msgs) + 1
       IN  /\ ~ Known(u, req[r].client)
           /\ msgs' = Append(msgs, m)
           /\ \E muting \in SUBSET Users : Unarchive(u, Audience(m), muting)
           /\ Journal(To(Audience(m), MsgRow(k)))
           /\ req' = [req EXCEPT ![r] =
                        IF m.withheld THEN Idle ELSE [stage |-> "sent", user |-> u, key |-> k]]
    /\ UNCHANGED <<readKey, marked, pins, blockVars>>

ReadTelling(u, key, told) ==
    /\ Journal(To(told, OwnRow("read")))
    /\ readKey' = [readKey EXCEPT ![u] = IF key > @ THEN key ELSE @]
    /\ marked' = [marked EXCEPT ![u] = FALSE]
    /\ UNCHANGED <<msgs, archived, pins, blockVars>>

\* Wrong: only the reader's own devices are told; or both, block or no block.
ReadUntold(u, key) == ReadTelling(u, key, {u})
ReadToldToAll(u, key) == ReadTelling(u, key, Users)

(***************************************************************************)
(* markRead(u, key).  The mark only moves forward; the peer is told, unless *)
(* the reader blocks him (readAudience); moving nothing still takes the    *)
(* "unread" mark off.  The black list is read inside the transaction.      *)
(***************************************************************************)
Read(u, key) ==
    /\ \/ /\ key <= readKey[u]
          /\ IF marked[u] THEN Journal(To({u}, OwnRow("draft"))) ELSE UNCHANGED journalVars
       \/ /\ key > readKey[u]
          /\ Journal(To({v \in Users : v = u \/ <<u, v>> \notin blocks}, OwnRow("read")))
    /\ readKey' = [readKey EXCEPT ![u] = IF key > @ THEN key ELSE @]
    /\ marked' = [marked EXCEPT ![u] = FALSE]
    /\ UNCHANGED <<msgs, archived, pins, blockVars>>

\* The last part of the POST: "sent, so read up to it".
ReadOwn(r) ==
    /\ req[r].stage = "sent"
    /\ Read(req[r].user, req[r].key)
    /\ req' = [req EXCEPT ![r] = Idle]

\* The process dies, or the request does, between the parts.
Abort(r) ==
    /\ req[r] # Idle
    /\ req' = [req EXCEPT ![r] = Idle]
    /\ UNCHANGED <<convVars, blockVars, journalVars>>

MarkRead(u, key) ==
    /\ "read" \in Ops
    /\ Read(u, key)
    /\ UNCHANGED req

\* Wrong: the lists of pins that show the message are forgotten.
EditTellsNoPins(u, k) ==
    /\ "edit" \in Ops
    /\ ~ msgs[k].deleted /\ msgs[k].author = u /\ ~ msgs[k].service
    /\ msgs[k].ver < MaxVer
    /\ msgs' = [msgs EXCEPT ![k].ver = @ + 1]
    /\ Journal(To(Audience(msgs[k]), MsgRow(k)))
    /\ UNCHANGED <<readKey, marked, archived, pins, blockVars, req>>

\* editMessage: the author only, not what is deleted, not a service line.
Edit(u, k) ==
    /\ "edit" \in Ops
    /\ ~ msgs[k].deleted /\ msgs[k].author = u /\ ~ msgs[k].service
    /\ msgs[k].ver < MaxVer
    /\ msgs' = [msgs EXCEPT ![k].ver = @ + 1]
    /\ LET told == Audience(msgs[k])
       IN  Journal(Then(To(told, MsgRow(k)), To(PinHolders(k) \cap told, PinRow)))
    /\ UNCHANGED <<readKey, marked, archived, pins, blockVars, req>>

\* Wrong: what is hidden stays pinned.
HideKeepsPin(u, k) ==
    /\ "delete" \in Ops
    /\ Visible(msgs[k], u)
    /\ msgs' = [msgs EXCEPT ![k].hidden = @ \cup {u}]
    /\ Journal(Then(To({u}, MsgRow(k)), To({u} \cap PinHolders(k), PinRow)))
    /\ UNCHANGED <<readKey, marked, archived, pins, blockVars, req>>

\* deleteDecision = 'hide': the message goes for me alone, and my pin with it.
Hide(u, k) ==
    /\ "delete" \in Ops
    /\ Visible(msgs[k], u)
    /\ msgs' = [msgs EXCEPT ![k].hidden = @ \cup {u}]
    /\ pins' = {p \in pins : ~ (p.user = u /\ p.msg = k)}
    /\ Journal(Then(To({u}, MsgRow(k)), To({u} \cap PinHolders(k), PinRow)))
    /\ UNCHANGED <<readKey, marked, archived, blockVars, req>>

\* deleteDecision = 'tombstone': my own message, or one of my peer's that I see.
DeleteForBoth(u, k) ==
    /\ "delete" \in Ops
    /\ ~ msgs[k].deleted
    /\ msgs[k].author = u \/ Visible(msgs[k], u)
    /\ msgs' = [msgs EXCEPT ![k].deleted = TRUE]
    /\ pins' = {p \in pins : p.msg # k}
    /\ Journal(Then(To(Audience(msgs[k]), MsgRow(k)), To(PinHolders(k), PinRow)))
    /\ UNCHANGED <<readKey, marked, archived, blockVars, req>>

\* setConversationUnreadMark.
SetUnreadMark(u) ==
    /\ "mark" \in Ops
    /\ marked' = [marked EXCEPT ![u] = ~ @]
    /\ Journal(To({u}, OwnRow("draft")))
    /\ UNCHANGED <<msgs, readKey, archived, pins, blockVars, req>>

\* setConversationArchived.
SetArchived(u) ==
    /\ "archive" \in Ops
    /\ archived' = [archived EXCEPT ![u] = ~ @]
    /\ Journal(To({u}, OwnRow("draft")))
    /\ UNCHANGED <<msgs, readKey, marked, pins, blockVars, req>>

----------------------------------------------------------------------------
\* pinAudience.
PinTargets(u, k, scope) ==
    {v \in Users : v = u \/ (scope = "both" /\ v \notin BlockersOf(u) /\ Visible(msgs[k], v))}

SeenPins(u) == {p \in pins : p.user = u /\ Visible(msgs[p.msg], u)}

PinsFull(u) == Cardinality(SeenPins(u)) >= PinsMax

(***************************************************************************)
(* pinMessage: a new pin where there is none and the list is not full      *)
(* (mine full: refused), "for me" becomes "for both" where it is pinned    *)
(* already; when that changed the peer's list, a service line follows in   *)
(* the same transaction (sendMessage with the outer tx).                   *)
(***************************************************************************)
Pin(u, k, scope) ==
    /\ "pin" \in Ops
    /\ Visible(msgs[k], u)
    /\ LET targets == PinTargets(u, k, scope)
           insert  == {v \in targets : ~ HasPin(v, k) /\ ~ PinsFull(v)}
           share   == {v \in targets : scope = "both" /\ \E p \in pins : p.user = v /\ p.msg = k /\ ~ p.both}
           changed == insert \cup share
           line    == NewMessage(u, NoClient, FALSE, TRUE)
           lineKey == Len(msgs) + 1
       IN  /\ ~ HasPin(u, k) => ~ PinsFull(u)
           /\ changed # {}
           /\ pins' = {p \in pins : ~ (p.msg = k /\ p.user \in changed)}
                        \cup [user : changed, msg : {k}, both : {scope = "both"}]
           /\ \/ /\ changed \subseteq {u}
                 /\ Journal(To(changed, PinRow))
                 /\ UNCHANGED <<msgs, archived>>
              \/ /\ ~ (changed \subseteq {u})
                 /\ Len(msgs) < MaxMsgs
                 /\ msgs' = Append(msgs, line)
                 /\ \E muting \in SUBSET Users : Unarchive(u, Users, muting)
                 /\ Journal(Then(To(changed, PinRow), To(Users, MsgRow(lineKey))))
    /\ UNCHANGED <<readKey, marked, blockVars, req>>

\* unpinMessage: mine; "both": also the pins for both of those who do not
\* block me.  A message that is gone for me gives no right to the pins on it.
Unpin(u, k, scope) ==
    /\ "pin" \in Ops
    /\ Visible(msgs[k], u)
    /\ LET out == {p \in pins : /\ p.msg = k
                                /\ \/ p.user = u
                                   \/ scope = "both" /\ p.both /\ p.user \notin BlockersOf(u)}
       IN  /\ out # {}
           /\ pins' = pins \ out
           /\ Journal(To({p.user : p \in out}, PinRow))
    /\ UNCHANGED <<msgs, readKey, marked, archived, blockVars, req>>

----------------------------------------------------------------------------
\* blockUser: a repeated block keeps the time of the first (onConflictDoNothing);
\* unblockUser deletes the row, and its time with it.
Block(u) ==
    /\ "block" \in Ops
    /\ LET b == <<u, Peer(u)>>
       IN  /\ blocks' = blocks \cup {b}
           /\ blockedAt' = IF b \in blocks THEN blockedAt ELSE [blockedAt EXCEPT ![b] = Len(msgs)]
    /\ UNCHANGED <<convVars, journalVars, req>>

Unblock(u) ==
    /\ "block" \in Ops
    /\ blocks' = blocks \ {<<u, Peer(u)>>}
    /\ blockedAt' = [blockedAt EXCEPT ![<<u, Peer(u)>>] = 0]
    /\ UNCHANGED <<convVars, journalVars, req>>

\* Wrong: min_pts is raised to the first number deleted, not to the last.
PruneJournalToFirst(u) ==
    /\ "prune" \in Ops
    /\ \E old \in SUBSET DOMAIN rows[u] : \E first \in old :
         /\ \A p \in old : first <= p
         /\ rows' = [rows EXCEPT ![u] = [p \in DOMAIN rows[u] \ old |-> rows[u][p]]]
         /\ minPts' = [minPts EXCEPT ![u] = IF first > @ THEN first ELSE @]
    /\ UNCHANGED <<pts, convVars, blockVars, req>>

(***************************************************************************)
(* pruneJournal.  Rows go by the time their transaction BEGAN, which need  *)
(* not follow their numbers: any of them may be the old ones.              *)
(***************************************************************************)
PruneJournal(u) ==
    /\ "prune" \in Ops
    /\ \E old \in SUBSET DOMAIN rows[u] :
         /\ old # {}
         /\ rows' = [rows EXCEPT ![u] = [p \in DOMAIN rows[u] \ old |-> rows[u][p]]]
         /\ \E last \in old :
              /\ \A p \in old : p <= last
              /\ minPts' = [minPts EXCEPT ![u] = IF last > @ THEN last ELSE @]
    /\ UNCHANGED <<pts, convVars, blockVars, req>>

Next ==
    \/ \E r \in Requests :
         \/ \E u \in Users, c \in Clients : Decide(r, u, c)
         \/ Replay(r)
         \/ Create(r)
         \/ ReadOwn(r)
         \/ Abort(r)
    \/ \E u \in Users, k \in Keys :
         \/ MarkRead(u, k)
         \/ Edit(u, k)
         \/ Hide(u, k)
         \/ DeleteForBoth(u, k)
         \/ \E scope \in {"me", "both"} : Pin(u, k, scope) \/ Unpin(u, k, scope)
    \/ \E u \in Users :
         \/ SetUnreadMark(u)
         \/ SetArchived(u)
         \/ Block(u)
         \/ Unblock(u)
         \/ PruneJournal(u)

Spec == Init /\ [][Next]_vars

----------------------------------------------------------------------------
(***************************************************************************)
(* What a member is shown (the view the journal is about), every look as a *)
(* set of tuples of numbers.                                               *)
(***************************************************************************)
Flag(b) == IF b THEN 1 ELSE 0

SeenBy(u) == {k \in Keys : Visible(msgs[k], u)}

MessageLook(u, k) ==
    IF k \in SeenBy(u) THEN {<<msgs[k].ver>>} ELSE {}

PinsLook(u) == {<<p.msg, msgs[p.msg].ver, Flag(p.both)>> : p \in SeenPins(u)}

\* unreadSql (countsAsUnread).
Unread(u) == Cardinality({k \in SeenBy(u) : msgs[k].author # u /\ k > readKey[u]})

\* summariesFor: the last message, the unread count and my own marks; its
\* "read by peer" (PeerRead) is looked at apart from them.
SummaryLook(u) ==
    {<<k, msgs[k].ver>> : k \in {k \in SeenBy(u) : \A j \in SeenBy(u) : j <= k}}
      \cup {<<Unread(u), readKey[u], Flag(marked[u]), Flag(archived[u])>>}

\* Wrong: what was withheld in an earlier block still holds the mark back.
PeerReadOfAnyBlock(u) ==
    LET p    == Peer(u)
        kept == {k \in Keys : <<p, u>> \in blocks /\ msgs[k].author = u /\ msgs[k].withheld}
    IN  IF \E k \in kept : k <= readKey[p]
        THEN (CHOOSE k \in kept : \A j \in kept : k <= j) - 1
        ELSE readKey[p]

\* peerReadKeys: how far my peer has read, as I see it.  While he blocks me
\* it stays below the first message withheld from him since he does.
PeerRead(u) ==
    LET p    == Peer(u)
        kept == {k \in Keys : /\ <<p, u>> \in blocks
                              /\ msgs[k].author = u /\ msgs[k].withheld
                              /\ k > blockedAt[<<p, u>>]}
    IN  IF \E k \in kept : k <= readKey[p]
        THEN (CHOOSE k \in kept : \A j \in kept : k <= j) - 1
        ELSE readKey[p]

TicksLook(u) == {<<PeerRead(u)>>}

Summary == <<"summary", 0>>
Ticks == <<"ticks", 0>>
PinList == <<"pins", 0>>
Message(k) == <<"message", k>>

ConvEntities == {Summary, Ticks, PinList} \cup {Message(k) : k \in 1 .. MaxMsgs}

ConvView(u) ==
    [e \in ConvEntities |-> CASE e = Summary -> SummaryLook(u)
                              [] e = Ticks   -> TicksLook(u)
                              [] e = PinList -> PinsLook(u)
                              [] OTHER       -> MessageLook(u, e[2])]

\* What syncSince sends for a row: always the summary of its conversation.
Refreshes(row) ==
    {Summary, Ticks} \cup (IF row.kind = "pin" THEN {PinList} ELSE {})
                     \cup (IF row.kind = "msg" THEN {Message(row.msg)} ELSE {})

Log(u) == INSTANCE ConvLog WITH
    Entities <- ConvEntities,
    Values   <- SUBSET Seq(Nat),
    Numbers  <- Nat,
    view     <- ConvView(u),
    pts      <- pts[u],
    minPts   <- minPts[u],
    changes  <- [p \in DOMAIN rows[u] |-> Refreshes(rows[u][p])]

\* His peer, who blocks `u`, reads on or ends the block: "read by peer" moves
\* forward, and neither readAudience nor unblockUser has a row for `u`.
TicksUntold(u) ==
    /\ <<Peer(u), u>> \in blocks
    /\ PeerRead(u)' > PeerRead(u)
    /\ \A e \in ConvEntities \ {Ticks} : ConvView(u)'[e] = ConvView(u)[e]
    /\ pts'[u] = pts[u] /\ minPts'[u] = minPts[u] /\ rows'[u] = rows[u]

----------------------------------------------------------------------------
RequestStates ==
    {Idle}
      \cup [stage : {"decided"}, user : Users, client : Clients, withheld : BOOLEAN]
      \cup [stage : {"sent"}, user : Users, key : Nat]

TypeOK ==
    /\ msgs \in Seq([author : Users, client : Clients \cup {NoClient}, ver : 0 .. MaxVer,
                     deleted : BOOLEAN, hidden : SUBSET Users, withheld : BOOLEAN,
                     service : BOOLEAN])
    /\ readKey \in [Users -> Nat]
    /\ marked \in [Users -> BOOLEAN]
    /\ archived \in [Users -> BOOLEAN]
    /\ pins \subseteq [user : Users, msg : Nat, both : BOOLEAN]
    /\ blocks \subseteq Users \X Users
    /\ blockedAt \in [Users \X Users -> Nat]
    /\ pts \in [Users -> Nat]
    /\ minPts \in [Users -> Nat]
    /\ DOMAIN rows = Users
    /\ \A u \in Users :
         rows[u] \in [DOMAIN rows[u] -> [kind : {"msg", "read", "draft", "pin"}, msg : Nat]]
    /\ req \in [Requests -> RequestStates]

\* REF: every change of what a member is shown (his own and his peer's
\* actions alike) is a row of HIS journal, numbered without gaps, and no row
\* is forgotten without min_pts saying so.  The one exception is "read by peer"
\* while the peer blocks him: it moves, only forward and alone, without a row.
JournalTellsEverything ==
    /\ \A u \in Users : Log(u)!LogInit
    /\ [][\A u \in Users : UNCHANGED Log(u)!logVars \/ Log(u)!LogNext \/ TicksUntold(u)
          ]_<<convVars, blockVars, journalVars>>

\* INV: no row of a person's journal names a message withheld from him: the
\* blocked author's editing, deleting and pinning it stays between him and
\* the server.
NoRowTellsOfWithheld ==
    \A u \in Users : \A p \in DOMAIN rows[u] :
        LET k == rows[u][p].msg
        IN  k # 0 => ~ (msgs[k].withheld /\ msgs[k].author # u)

\* INV: a pin never outlives the message for the one who pinned it, whoever
\* deletes the message, for whom, and whatever was pinned "for both" before.
PinsAreVisible == \A p \in pins : Visible(msgs[p.msg], p.user)

\* INV: one client_id of one author is one message, however often the
\* device sends it and however the requests interleave.
NoDuplicateSend ==
    \A j, k \in Keys :
        (msgs[j].author = msgs[k].author /\ msgs[j].client = msgs[k].client
           /\ msgs[j].client # NoClient) => j = k

\* PROP: "read by peer" never goes back, through any sequence of blocking and
\* unblocking (peerReadKey's comment: the cap counts from the CURRENT block).
ReadTicksNeverGoBack == [][\A u \in Users : PeerRead(u)' >= PeerRead(u)]_vars

\* PROP: when a member's "read by peer" advances because the peer read (he does
\* not block him, and this step changes no block), the member's devices are told.
ReadReceiptTold ==
    [][\A u \in Users :
         (PeerRead(u)' > PeerRead(u) /\ blocks' = blocks /\ <<Peer(u), u>> \notin blocks)
            => pts'[u] > pts[u]]_vars

\* PROP: a reader who blocks his peer reads unnoticed.
BlockedSeesNoReading ==
    [][\A u \in Users :
         (readKey'[u] # readKey[u] /\ <<u, Peer(u)>> \in blocks) => pts'[Peer(u)] = pts[Peer(u)]]_vars
=============================================================================
