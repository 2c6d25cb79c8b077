----------------------------- MODULE ConvWindow -----------------------------
(***************************************************************************)
(* The feed of one conversation in the memory of a device (apps/client     *)
(* convSyncRules.ts, convStore.ts, feedWindowRules.ts): a window of the    *)
(* history, filled by pages that answer HTTP requests, by the changes the  *)
(* device takes from its journal, and by answers to its own sendings, each *)
(* a snapshot of another moment that may land at any later one.            *)
(*                                                                         *)
(* Messages are numbered in the order of their sort keys.  The journal is  *)
(* a sequence of changes of messages; a view is known by the time it was   *)
(* taken.  What ConvSync does with events and catch-up pages is one action *)
(* here, Advance: the number moves to `to`, and every message the rows up  *)
(* to it name is taken as it was at a time t >= to.                        *)
(***************************************************************************)
EXTENDS Integers, Sequences, FiniteSets

CONSTANTS
    Slots,      \* HTTP requests in flight at once
    PageSize,   \* HISTORY_PAGE
    WindowMax,  \* WINDOW_MAX
    Ops,        \* which of the optional steps this instance exercises
    MaxMsgs,    \* bound: messages
    MaxPts      \* bound: changes

Msgs == 1 .. MaxMsgs
AllOps == {"edit", "delete", "send", "scroll", "jump", "reset", "token"}

ASSUME WindowAssumption ==
    /\ PageSize \in Nat \ {0} /\ WindowMax \in Nat /\ PageSize <= WindowMax
    /\ MaxMsgs \in Nat /\ MaxPts \in Nat
    /\ Ops \subseteq AllOps

VARIABLES
    hist,       \* the changes: [msg, kind]
    cursor,     \* ConvState.pts
    win,        \* ConvState.windows: base, before, after, stale; or NoWindow
    list,       \* dmMessages: message -> the time its view was taken
    fresh,      \* ConvState.msgPts; Never: no entry
    gone,       \* ConvState.gone
    req,        \* the requests for pages
    sends,      \* own messages whose answer is on its way: [msg, at]
    missed,     \* history: messages the device gave up a view of, or the number
                \* of one, while an older snapshot was on its way
    torn        \* history: the window was glued over a gap, or where the device cannot
                \* tell of one, or its tail is older than its base

vars == <<hist, cursor, win, list, fresh, gone, req, sends, missed, torn>>

Never == -1
NoWindow == [base |-> Never]
Idle == [stage |-> "idle"]

Now == Len(hist)
Held == DOMAIN list
MinOf(S) == CHOOSE m \in S : \A n \in S : m <= n
MaxOf(S) == CHOOSE m \in S : \A n \in S : n <= m

Created(t) == {hist[p].msg : p \in 1 .. t}
GoneBy(t) == {hist[p].msg : p \in {p \in 1 .. t : hist[p].kind = "gone"}}
Alive(t) == Created(t) \ GoneBy(t)

\* Messages some change of which has a number above n, up to n2.
Touched(n, n2) == {hist[p].msg : p \in (n + 1) .. n2}

Init ==
    /\ hist = <<>>
    /\ cursor = 0
    /\ win = NoWindow
    /\ list = [m \in {} |-> 0]
    /\ fresh = [m \in Msgs |-> Never]
    /\ gone = {}
    /\ req = [s \in Slots |-> Idle]
    /\ sends = {}
    /\ missed = {}
    /\ torn = FALSE

----------------------------------------------------------------------------
(* The server.                                                             *)

\* Somebody writes, edits or deletes; a message of my own is answered too.
Happen ==
    /\ Now < MaxPts
    /\ \/ /\ Cardinality(Created(Now)) < MaxMsgs
          /\ LET m == Cardinality(Created(Now)) + 1
             IN  /\ hist' = Append(hist, [msg |-> m, kind |-> "new"])
                 /\ \/ UNCHANGED sends
                    \/ "send" \in Ops /\ sends' = sends \cup {[msg |-> m, at |-> Now + 1]}
       \/ \E m \in Alive(Now), k \in {"edit", "gone"} :
             /\ k = "edit" => "edit" \in Ops
             /\ k = "gone" => "delete" \in Ops
             /\ hist' = Append(hist, [msg |-> m, kind |-> k])
             /\ UNCHANGED sends
    /\ UNCHANGED <<cursor, win, list, fresh, gone, req, missed, torn>>

\* At most n of the messages S, the ones next to the edge.
Last(n, S) == {m \in S : Cardinality({k \in S : k > m}) < n}
First(n, S) == {m \in S : Cardinality({k \in S : k < m}) < n}

Around(key) ==
    LET older == Last(PageSize \div 2, {m \in Alive(Now) : m < key})
    IN  older \cup First(PageSize - Cardinality(older), {m \in Alive(Now) : m >= key})

PageOf(q) ==
    CASE q.from = "end"    -> Last(PageSize, Alive(Now))
      [] q.from = "before" -> Last(PageSize, {m \in Alive(Now) : m < q.key})
      [] q.from = "after"  -> First(PageSize, {m \in Alive(Now) : m > q.key})
      [] q.from = "around" -> Around(q.key)

\* history: the page, and what lies beyond its ends, from one snapshot.  An
\* anchor that is gone for me is 404.
Answer(s) ==
    /\ req[s].stage = "asked"
    /\ LET q == req[s]
           page == PageOf(q)
           beyond(low) ==
               \E m \in Alive(Now) :
                  IF page # {}
                  THEN IF low THEN m < MinOf(page) ELSE m > MaxOf(page)
                  ELSE \/ low /\ q.from = "after" /\ m <= q.key
                       \/ ~ low /\ q.from = "before" /\ m >= q.key
       IN  req' = [req EXCEPT ![s] =
                     IF q.from = "around" /\ q.key \notin Alive(Now) THEN Idle
                     ELSE [stage |-> "answered", kind |-> q.kind, key |-> q.key, pts |-> Now,
                           page |-> page, before |-> beyond(TRUE), after |-> beyond(FALSE)]]
    /\ UNCHANGED <<hist, cursor, win, list, fresh, gone, sends, missed, torn>>

----------------------------------------------------------------------------
(* The device asks.                                                        *)

Asked(kind, from, key) == [stage |-> "asked", kind |-> kind, from |-> from, key |-> key]
LatestAsked == Asked("latest", "end", 0)

Ask(s, question) ==
    /\ req[s] = Idle
    /\ req' = [req EXCEPT ![s] = question]
    /\ UNCHANGED <<hist, cursor, win, list, fresh, gone, sends, missed, torn>>

\* openLatest.
OpenLatest(s) == Ask(s, LatestAsked)

\* openJump: at the first unread message, or around a place or a quotation.
OpenJump(s) ==
    /\ "jump" \in Ops
    /\ \E key \in 0 .. MaxMsgs : Ask(s, Asked("jump", "after", key)) \/ Ask(s, Asked("jump", "around", key))

\* convLoadOlder and convLoadNewer, from the edges of what is held, where the
\* window says there is more (DmChatView hasOlder, hasNewer).
LoadOlder(s) ==
    /\ "scroll" \in Ops /\ Held # {} /\ win.before
    /\ Ask(s, Asked("older", "before", MinOf(Held)))

LoadNewer(s) ==
    /\ "scroll" \in Ops /\ Held # {} /\ win.after
    /\ Ask(s, Asked("newer", "after", MaxOf(Held)))

\* The request or its answer is lost.
Fail(s) ==
    /\ req[s] # Idle
    /\ req' = [req EXCEPT ![s] = Idle]
    /\ UNCHANGED <<hist, cursor, win, list, fresh, gone, sends, missed, torn>>

----------------------------------------------------------------------------
(* What lands.                                                             *)

Without(f, S) == [m \in (DOMAIN f) \ S |-> f[m]]

\* Messages changed, up to number n, after some snapshot on its way was taken.
Overtaken(n) ==
    UNION {Touched(req[s].pts, n) : s \in {s \in Slots : req[s].stage = "answered"}}

\* Wrong: any message fits.
InsideWindowAlways(held, m) == TRUE

\* insideWindow.
InsideWindow(held, m) ==
    IF held = {} THEN ~ win.before /\ ~ win.after
    ELSE /\ win.before => m >= MinOf(held)
         /\ win.after => m <= MaxOf(held)

\* Wrong: what the last snapshot of the tail left out comes back.
StoresBelowBase(m, to, held) ==
    /\ win # NoWindow
    /\ fresh[m] < to
    /\ m \in held \/ InsideWindow(held, m)

\* applyMessage, for all the rows of an event or a page: message m of number
\* `to` is stored where it is held already, or is new and within the window.
Stores(m, to, held) ==
    /\ win # NoWindow
    /\ fresh[m] < to
    /\ m \in held \/ (to > win.base /\ InsideWindow(held, m))

(***************************************************************************)
(* The device's number goes to `to`: with one event (to = cursor + 1), or  *)
(* with a page of a catch-up.  The server puts the views that are gone     *)
(* before the others.                                                      *)
(***************************************************************************)
Advance(to, t) ==
    LET named == Touched(cursor, to)
        dead  == named \cap GoneBy(t)
        held  == Held \ dead
        stored == {m \in named \ (dead \cup gone) : Stores(m, to, held)}
    IN  /\ cursor' = to
        /\ gone' = gone \cup dead
        /\ list' = [m \in held \cup stored |-> IF m \in stored THEN t ELSE list[m]]
        /\ fresh' = [m \in Msgs |-> IF m \in stored THEN to ELSE fresh[m]]
        /\ missed' = (missed \ stored) \cup ((named \cap Overtaken(to)) \ (stored \cup held \cup dead))
        /\ UNCHANGED <<hist, win, req, sends, torn>>

\* Wrong: the windows go and the messages stay.
ResetKeepsMessages ==
    /\ "reset" \in Ops
    /\ cursor < Now
    /\ cursor' = Now
    /\ win' = NoWindow
    /\ UNCHANGED <<hist, list, fresh, gone, req, sends, missed, torn>>

\* resetAll: the journal was pruned past the device's number.  What the list
\* says is newer than every page on its way; `gone` alone is kept, and the
\* feed is asked for again where it is the open one.
Reset ==
    /\ "reset" \in Ops
    /\ cursor < Now
    /\ cursor' = Now
    /\ win' = NoWindow
    /\ list' = [m \in {} |-> 0]
    /\ fresh' = [m \in Msgs |-> Never]
    /\ missed' = missed \cup Overtaken(Now)
    /\ torn' = FALSE
    /\ \/ UNCHANGED req
       \/ \E s \in Slots :
            /\ req[s] = Idle
            /\ req' = [req EXCEPT ![s] = LatestAsked]
    /\ UNCHANGED <<hist, gone, sends>>

\* trimWindow: the far edge goes, and its freshness with it.
Trimmed(held, side) ==
    IF Cardinality(held) <= WindowMax THEN {}
    ELSE LET n == Cardinality(held) - WindowMax
         IN  IF side = "top" THEN First(n, held) ELSE Last(n, held)

\* The window w holding the views in l, after trimming.
Show(w, l, side, f) ==
    LET cut == Trimmed(DOMAIN l, side)
    IN  /\ list' = Without(l, cut)
        /\ fresh' = [m \in Msgs |-> IF m \in cut THEN Never ELSE f[m]]
        /\ win' = [w EXCEPT !.before = @ \/ (cut # {} /\ side = "top"),
                            !.after = @ \/ (cut # {} /\ side = "bottom")]

\* Wrong: a page brings back the deleted; a page overwrites what is newer.
IncomingWithGone(q) == {m \in q.page : fresh[m] <= q.pts \/ m \in Held}
IncomingViewOfPage(q, m) == q.pts

(***************************************************************************)
(* applyPage.  A view the device has from a later number stays; one it had *)
(* and no longer holds is not taken from an older page.                    *)
(***************************************************************************)
Incoming(q) == {m \in q.page \ gone : fresh[m] <= q.pts \/ m \in Held}
IncomingView(q, m) == IF fresh[m] > q.pts THEN list[m] ELSE q.pts
FreshAfter(q) ==
    [m \in Msgs |-> IF m \in q.page \ gone /\ fresh[m] <= q.pts THEN q.pts ELSE fresh[m]]

\* Wrong: the page is all there is.
NewerThanForgotten(q) == {}

\* Messages newer than the snapshot, which came as events during the request.
NewerThan(q) == {m \in Held \ Incoming(q) : fresh[m] > q.pts}

\* The older part of the window stays if it reaches the page.
Joined(q) ==
    LET in == Incoming(q)
        joins == in # {} /\ \E m \in Held : fresh[m] <= q.pts /\ m >= MinOf(in)
    IN  IF joins /\ q.before /\ ~ win.stale THEN {m \in Held : m < MinOf(in)} ELSE {}

\* Shown from a page or an event, not from the answer to a sending alone: what
\* lies below it is known too.
Known(m) == fresh[m] > 0 /\ m \notin missed

\* What is shown of the set S, pages first.
Views(q, S) == [m \in S |-> IF m \in Incoming(q) THEN IncomingView(q, m) ELSE list[m]]

\* The tail of the feed, or (jump) a place in it, instead of the window.
TakeTail(q) ==
    LET newer == IF q.kind = "jump" /\ q.after THEN {} ELSE NewerThan(q)
        older == IF q.kind = "jump" \/ win = NoWindow THEN {} ELSE Joined(q)
        w == [base |-> IF q.kind = "latest" /\ win.base > q.pts THEN win.base ELSE q.pts,
              before |-> IF older # {} THEN win.before ELSE q.before,
              after |-> q.after, stale |-> FALSE]
        l == Views(q, older \cup Incoming(q) \cup newer)
    IN  /\ IF q.kind = "latest" THEN Show(w, l, "top", FreshAfter(q))
           ELSE list' = l /\ win' = w /\ fresh' = FreshAfter(q)
        /\ torn' = \/ older # {} /\ (torn \/ \A m \in Held : m < MinOf(Incoming(q)) \/ ~ Known(m))
                   \/ \E m \in newer : fresh[m] > cursor \/ \A k \in Incoming(q) : m < k
                   \/ q.kind = "latest" /\ win.base > q.pts

\* A piece above or below.
TakeOlder(q) ==
    /\ LET l == [m \in Held \cup Incoming(q) |-> IF m \in Held THEN list[m] ELSE IncomingView(q, m)]
       IN  Show([win EXCEPT !.before = q.before], l, "bottom", FreshAfter(q))
    /\ UNCHANGED torn

TakeNewer(q) ==
    /\ Show([win EXCEPT !.after = q.after, !.base = IF q.after \/ @ > q.pts THEN @ ELSE q.pts],
            Views(q, Held \cup Incoming(q)), "top", FreshAfter(q))
    /\ torn' = (torn \/ (~ q.after /\ win.base > q.pts) \/ ~ Known(MaxOf(Held)))

\* A window that changed its edge meanwhile does not take a piece.
Fits(q) ==
    \/ q.kind \in {"latest", "jump"}
    \/ win # NoWindow /\ Held # {} /\ q.key = IF q.kind = "older" THEN MinOf(Held) ELSE MaxOf(Held)

\* The messages the page brought up to date ...
Renewed(q) ==
    {m \in Held' \cap q.page : fresh[m] <= q.pts /\ list'[m] = q.pts /\ m \notin Touched(q.pts, cursor)}

\* ... and those given up: one the page has and the device neither holds nor
\* takes; one that leaves the window, or whose number is forgotten, while an
\* older snapshot is on its way.
GivenUp(q, others) ==
    {m \in q.page \ (gone \cup Held) : fresh[m] > q.pts}
        \cup {m \in Msgs : /\ m \in Held \ Held' \/ fresh'[m] < fresh[m]
                        /\ \E o \in others : req[o].stage = "answered" /\ req[o].pts < fresh[m]}

TakePage(s) ==
    /\ req[s].stage = "answered"
    /\ LET q == req[s]
       IN  IF Fits(q)
           THEN /\ CASE q.kind \in {"latest", "jump"} -> TakeTail(q)
                     [] q.kind = "older" -> TakeOlder(q)
                     [] q.kind = "newer" -> TakeNewer(q)
                /\ missed' = (missed \ Renewed(q)) \cup GivenUp(q, Slots \ {s})
           ELSE UNCHANGED <<win, list, fresh, missed, torn>>
    /\ req' = [req EXCEPT ![s] = Idle]
    /\ UNCHANGED <<hist, cursor, gone, sends>>

\* applySent, which does not look at insideWindow.
TakeSent(x) ==
    /\ sends' = sends \ {x}
    /\ IF win = NoWindow \/ x.msg \in gone \cup Held
       THEN UNCHANGED <<list, fresh, missed, torn>>
       ELSE /\ list' = [m \in Held \cup {x.msg} |-> IF m = x.msg THEN x.at ELSE list[m]]
            /\ fresh' = [fresh EXCEPT ![x.msg] = IF @ = Never THEN 0 ELSE @]
            /\ missed' = IF x.msg \in Touched(x.at, cursor) \/ fresh[x.msg] > x.at
                         THEN missed \cup {x.msg} ELSE missed
            /\ torn' = (torn \/ ~ InsideWindow(Held, x.msg) \/ fresh[x.msg] > 0)
    /\ UNCHANGED <<hist, cursor, win, gone, req>>

\* The answer to a deletion of my own (applyRemoved), at any time after it.
TakeRemoved(m) ==
    /\ m \in GoneBy(Now) \ gone
    /\ gone' = gone \cup {m}
    /\ list' = Without(list, {m})
    /\ UNCHANGED <<hist, cursor, win, fresh, req, sends, missed, torn>>

\* The edit of the view in the feed is older than the one made at `at`.
EditIsNewer(m, at) == \E p \in (list[m] + 1) .. at : hist[p] = [msg |-> m, kind |-> "edit"]

\* The answer to an edit of my own made at `at` (applyEdited), at any time
\* after it.
TakeEdited(at) ==
    /\ hist[at].kind = "edit"
    /\ LET m == hist[at].msg
       IN  /\ m \in Held /\ EditIsNewer(m, at)
           /\ list' = [list EXCEPT ![m] = at]
    /\ UNCHANGED <<hist, cursor, win, fresh, gone, req, sends, missed, torn>>

\* convTokenChanged: the open feed's links went out; the next page replaces it.
TokenChanged ==
    /\ "token" \in Ops
    /\ win # NoWindow
    /\ win' = [win EXCEPT !.stale = TRUE]
    /\ UNCHANGED <<hist, cursor, list, fresh, gone, req, sends, missed, torn>>

Next ==
    \/ Happen
    \/ \E to \in (cursor + 1) .. Now : \E t \in to .. Now : Advance(to, t)
    \/ Reset
    \/ TokenChanged
    \/ \E x \in sends : TakeSent(x)
    \/ \E m \in Msgs : TakeRemoved(m)
    \/ \E at \in 1 .. Now : TakeEdited(at)
    \/ \E s \in Slots :
         \/ OpenLatest(s) \/ OpenJump(s) \/ LoadOlder(s) \/ LoadNewer(s)
         \/ Answer(s) \/ Fail(s) \/ TakePage(s)

Spec == Init /\ [][Next]_vars

----------------------------------------------------------------------------
Windows == [base : 0 .. MaxPts, before : BOOLEAN, after : BOOLEAN, stale : BOOLEAN]

Questions ==
    [stage : {"asked"}, kind : {"latest", "older", "newer", "jump"},
     from : {"end", "before", "after", "around"}, key : 0 .. MaxMsgs]

Answers ==
    [stage : {"answered"}, kind : {"latest", "older", "newer", "jump"}, key : 0 .. MaxMsgs,
     pts : 0 .. MaxPts, page : SUBSET Msgs, before : BOOLEAN, after : BOOLEAN]

TypeOK ==
    /\ hist \in Seq([msg : Msgs, kind : {"new", "edit", "gone"}]) /\ Now <= MaxPts
    /\ cursor \in 0 .. Now
    /\ win \in {NoWindow} \cup Windows
    /\ Held \subseteq Msgs /\ list \in [Held -> 0 .. MaxPts]
    /\ win = NoWindow => Held = {}
    /\ fresh \in [Msgs -> Never .. MaxPts]
    /\ gone \subseteq Msgs /\ missed \subseteq Msgs
    /\ req \in [Slots -> {Idle} \cup Questions \cup Answers]
    /\ sends \subseteq [msg : Msgs, at : 1 .. MaxPts]
    /\ torn \in BOOLEAN

\* m is shown as the device's number has it.
Right(m) == m \notin Touched(list[m], cursor)

\* Messages the device must have: its number has seen them created, and
\* nobody has deleted them since.
Expected == Created(cursor) \cap Alive(Now)

\* Above the window or below it, where it says there is more.
Outside(m) ==
    /\ Held # {}
    /\ \/ win.before /\ m < MinOf(Held)
       \/ win.after /\ m > MaxOf(Held)

\* INV: a message in the feed is as the device's number has it, neither
\* outdated nor deleted, in whatever order pages, events and answers landed;
\* but for one of which the device gave up a view under an older snapshot.
FeedIsRight ==
    \A m \in Held \ missed : Right(m) /\ m \notin GoneBy(cursor)

\* INV: what is shown side by side is side by side in the history, and what is
\* not shown lies where the window says there is more.
FeedHasNoHoles ==
    (win # NoWindow /\ Held # {} /\ ~ torn) =>
        \A m \in Expected \ (Held \cup missed) : Outside(m)

\* PROP: a message the device has been told is gone never comes back.
GoneStaysGone == [][gone \subseteq gone' /\ gone' \cap Held' = {}]_vars

\* PROP: a late event does not put back a message that the last snapshot of
\* the tail already had deleted (basePts).
NoGhostFromLateEvent ==
    [][cursor' # cursor =>
         \A m \in Held' \ Held : m \notin GoneBy(win.base)]_vars

----------------------------------------------------------------------------
(* What comments of the code say, and the code does not keep.              *)

\* CLAIM (applyPage): "messages newer than the snapshot, which came as events
\* during the request, are not lost": a page that reaches the tail leaves the
\* window with every message the device's number has seen created since.
NewerThanSnapshotKept ==
    [][\A s \in Slots :
         (req[s].stage = "answered" /\ req'[s] = Idle /\ win' # win /\ ~ win'.after) =>
            Expected \ Created(req[s].pts) \subseteq Held']_vars
=============================================================================
