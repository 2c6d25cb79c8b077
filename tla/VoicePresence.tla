--------------------------- MODULE VoicePresence ---------------------------
(***************************************************************************)
(* Who sits in a voice channel (packages/presence/src/index.ts).  Each     *)
(* webhook of LiveKit, and a poll of the channels in presence:channels,    *)
(* rebuilds the channel's list in Redis by a pass of several awaits, and   *)
(* passes overlap.  The list has a time to live that every pass extends.   *)
(* One channel.  LiveKit, Redis and the clients' sockets are external.     *)
(* Left out: server mutes, which client may see the channel, and that the  *)
(* clock, too, runs out (later than the list).                             *)
(***************************************************************************)
EXTENDS Integers

CONSTANTS
    People,
    Hooks,      \* webhooks answered at the same time
    MaxMoves,   \* bound: people coming and going, rooms closed
    MaxFaults   \* bound: failed lists, lost webhooks, restarts

VARIABLES
    \* LiveKit
    room,       \* who is there
    posts,      \* webhooks to be delivered
    \* Redis
    shown,      \* presence:ch, the list; an empty one is not kept
    polled,     \* the channel is in presence:channels
    clock,      \* voice:since is set
    \* the service
    up,
    pass,       \* the passes at work
    news,       \* presence:update has a message to be handled
    late,       \* the list last read by the handler and not yet sent
    \* the clients
    view,       \* what they show
    \* history
    moves,
    faults,
    failed,     \* a list of LiveKit failed
    lost,       \* a webhook or a pass was lost
    raced,      \* a pass that another had overtaken changed the list or the set
    wiped,      \* room_finished came late: it emptied the list of a channel with people in it
    outrun      \* an older list was sent to the clients after a newer one

livekit == <<room, posts, moves>>
redis == <<shown, polled, clock>>
history == <<faults, failed, lost, raced, wiped, outrun>>
vars == <<livekit, redis, up, pass, news, late, view, history>>

ASSUME PresenceAssumption == MaxMoves \in Nat /\ MaxFaults \in Nat

Idle == [at |-> "idle"]
Passes == Hooks \cup {"poll"}

Init ==
    /\ room = {} /\ posts = {}
    /\ shown = {} /\ polled = FALSE /\ clock = FALSE
    /\ up = TRUE
    /\ pass = [w \in Passes |-> Idle]
    /\ news = FALSE /\ late = {} /\ view = {}
    /\ moves = 0 /\ faults = 0
    /\ failed = FALSE /\ lost = FALSE /\ raced = FALSE /\ wiped = FALSE /\ outrun = FALSE

----------------------------------------------------------------------------
(* LiveKit (external): people come and go, and each time a webhook is to   *)
(* be delivered, in any order.                                             *)

Post(kind, own) ==
    /\ moves < MaxMoves
    /\ moves' = moves + 1
    /\ posts' = posts \cup {[n |-> moves, kind |-> kind, own |-> own]}
    /\ UNCHANGED <<redis, up, news, late, view, history>>

Join(p) == p \notin room /\ room' = room \cup {p} /\ Post("joined", FALSE) /\ UNCHANGED pass

\* own: the client said good-bye (CLIENT_INITIATED).  A pass can no longer
\* count on the person having sat there all the time.
Leave(p, own) ==
    /\ p \in room
    /\ room' = room \ {p}
    /\ pass' = [w \in Passes |-> IF "saw" \in DOMAIN pass[w]
                                 THEN [pass[w] EXCEPT !.saw = @ \ {p}] ELSE pass[w]]
    /\ Post("left", own)

Finish == room = {} /\ room' = room /\ Post("finished", FALSE) /\ UNCHANGED pass

----------------------------------------------------------------------------
(* A pass.                                                                 *)

Go(w, at) == pass' = [pass EXCEPT ![w].at = at]
End(w) == pass' = [pass EXCEPT ![w] = Idle]
NewPass(at, goodbye) == [at |-> at, goodbye |-> goodbye, list |-> {}, saw |-> {}, old |-> FALSE]

\* Pass w goes on as r with newer knowledge: the others are overtaken.
Overtake(w, r) ==
    pass' = [v \in Passes |-> IF v = w THEN r
                              ELSE IF pass[v].at \in {"idle", "list", "after", "stop"} THEN pass[v]
                              ELSE [pass[v] EXCEPT !.old = TRUE]]

\* The end of reconcile; the webhook's handler goes on after a good-bye.
EndReconcile(w) ==
    pass' = [pass EXCEPT ![w] = IF @.goodbye THEN [@ EXCEPT !.at = "after", !.list = {}, !.old = FALSE] ELSE Idle]

\* The timer of the poll.
Poll ==
    /\ up /\ polled
    /\ pass["poll"] = Idle
    /\ pass' = [pass EXCEPT !["poll"] = NewPass("list", FALSE)]
    /\ UNCHANGED <<livekit, redis, up, news, late, view, history>>

\* The webhook's handler: clearChannel for a finished room, else reconcile.
TakePost(w, h) ==
    /\ up
    /\ pass[w] = Idle
    /\ h \in posts
    /\ posts' = posts \ {h}
    /\ IF h.kind = "finished" THEN Overtake(w, NewPass("clear", FALSE))
       ELSE pass' = [pass EXCEPT ![w] = NewPass("list", h.kind = "left" /\ h.own)]
    /\ UNCHANGED <<room, moves, redis, up, news, late, view, history>>

\* reconcile: listParticipants; an error is an empty list.
List(w) ==
    /\ pass[w].at = "list"
    /\ \E ok \in BOOLEAN :
         /\ ~ ok => faults < MaxFaults
         /\ faults' = faults + IF ok THEN 0 ELSE 1
         /\ failed' = (failed \/ ~ ok)
         /\ LET list == IF ok THEN room ELSE {}
            IN  Overtake(w, [pass[w] EXCEPT !.at = IF list = {} THEN "del" ELSE "get", !.list = list,
                                            !.saw = IF pass[w].goodbye THEN room ELSE {}])
    /\ UNCHANGED <<livekit, redis, up, news, late, view, lost, raced, wiped, outrun>>

\* The list is empty, or the room is finished: the key goes ...
Del(w) ==
    /\ pass[w].at \in {"del", "clear"}
    /\ shown' = {}
    /\ Go(w, IF pass[w].at = "clear" \/ shown # {} THEN "srem, tell" ELSE "srem")
    /\ raced' = (raced \/ pass[w].old)
    /\ wiped' = (wiped \/ (pass[w].at = "clear" /\ room # {}))
    /\ UNCHANGED <<livekit, polled, clock, up, news, late, view, faults, failed, lost, outrun>>

\* ... then the channel leaves the set that is polled, and the clients are
\* told if there was a key.
Srem(w) ==
    /\ pass[w].at \in {"srem", "srem, tell"}
    /\ polled' = FALSE
    /\ raced' = (raced \/ pass[w].old)
    /\ news' = (news \/ pass[w].at # "srem")
    /\ EndReconcile(w)
    /\ UNCHANGED <<livekit, shown, clock, up, late, view, faults, failed, lost, wiped, outrun>>

\* SET NX and EXPIRE of voice:since, and GET of the list.  When it is as
\* before, only its time to live is extended.
Get(w) ==
    /\ pass[w].at = "get"
    /\ clock' = TRUE
    /\ IF shown = pass[w].list THEN EndReconcile(w) ELSE Go(w, "set")
    /\ UNCHANGED <<livekit, shown, polled, up, news, late, view, history>>

Set(w) ==
    /\ pass[w].at = "set"
    /\ shown' = pass[w].list
    /\ raced' = (raced \/ pass[w].old)
    /\ Go(w, "sadd")
    /\ UNCHANGED <<livekit, polled, clock, up, news, late, view, faults, failed, lost, wiped, outrun>>

\* Wrong: the channel is not put into the set.
SaddForgotten(w) ==
    /\ pass[w].at = "sadd"
    /\ news' = TRUE
    /\ EndReconcile(w)
    /\ UNCHANGED <<livekit, redis, up, late, view, history>>

\* Wrong: nobody is told.
SaddQuiet(w) ==
    /\ pass[w].at = "sadd"
    /\ polled' = TRUE
    /\ EndReconcile(w)
    /\ UNCHANGED <<livekit, shown, clock, up, news, late, view, history>>

\* SADD and PUBLISH.
Sadd(w) ==
    /\ pass[w].at = "sadd"
    /\ polled' = TRUE
    /\ news' = TRUE
    /\ EndReconcile(w)
    /\ UNCHANGED <<livekit, shown, clock, up, late, view, history>>

\* Wrong: whoever says good-bye stops the clock.
AfterGoodbye(w) ==
    /\ pass[w].at = "after"
    /\ Go(w, "stop")
    /\ UNCHANGED <<livekit, redis, up, news, late, view, history>>

\* The rest of the webhook's handler: the good-bye of the last one stops the
\* clock.
After(w) ==
    /\ pass[w].at = "after"
    /\ IF shown = {} THEN Go(w, "stop") ELSE End(w)
    /\ UNCHANGED <<livekit, redis, up, news, late, view, history>>

Stop(w) ==
    /\ pass[w].at = "stop"
    /\ clock' = FALSE
    /\ End(w)
    /\ UNCHANGED <<livekit, shown, polled, up, news, late, view, history>>

----------------------------------------------------------------------------
(* The clients.                                                            *)

\* sub.on('message'): an empty list is sent at once, another after one more
\* read.  Messages that wait together all read the list as it is then.
Handle ==
    /\ up /\ news
    /\ news' = FALSE
    /\ IF shown = {}
       THEN view' = {} /\ outrun' = (outrun \/ late # {}) /\ UNCHANGED late
       ELSE late' = shown /\ UNCHANGED <<view, outrun>>
    /\ UNCHANGED <<livekit, redis, up, pass, faults, failed, lost, raced, wiped>>

SendLate ==
    /\ up /\ late # {}
    /\ view' = late
    /\ late' = {}
    /\ UNCHANGED <<livekit, redis, up, pass, news, history>>

----------------------------------------------------------------------------
(* Faults and time.                                                        *)

LosePost(h) ==
    /\ h \in posts
    /\ faults < MaxFaults
    /\ faults' = faults + 1
    /\ posts' = posts \ {h}
    /\ lost' = TRUE
    /\ UNCHANGED <<room, moves, redis, up, pass, news, late, view, failed, raced, wiped, outrun>>

Crash ==
    /\ up
    /\ faults < MaxFaults
    /\ faults' = faults + 1
    /\ up' = FALSE
    /\ pass' = [w \in Passes |-> Idle]
    /\ news' = FALSE /\ late' = {}
    /\ lost' = (lost \/ \E w \in Passes : pass[w] # Idle)
    /\ UNCHANGED <<livekit, redis, view, failed, raced, wiped, outrun>>

\* The clients come back and get a snapshot of the channels in the set.
Restart ==
    /\ ~ up
    /\ up' = TRUE
    /\ view' = IF polled THEN shown ELSE {}
    /\ UNCHANGED <<livekit, redis, pass, news, late, history>>

\* Wrong: the list has no time to live.
KeptForever == FALSE /\ UNCHANGED vars

\* KEY_TTL_S: nobody has extended the list for that long.  A channel that is
\* polled is extended every two seconds.
Expire ==
    /\ shown # {}
    /\ ~ up \/ (~ polled /\ \A w \in Passes : pass[w] = Idle)
    /\ shown' = {}
    /\ UNCHANGED <<livekit, polled, clock, up, pass, news, late, view, history>>

----------------------------------------------------------------------------
PassStep(w) ==
    \/ List(w) \/ Del(w) \/ Srem(w) \/ Get(w) \/ Set(w) \/ Sadd(w)
    \/ After(w) \/ Stop(w)

Next ==
    \/ \E p \in People : Join(p) \/ \E own \in BOOLEAN : Leave(p, own)
    \/ Finish
    \/ Poll
    \/ \E w \in Hooks, h \in posts : TakePost(w, h)
    \/ \E w \in Passes : PassStep(w)
    \/ Handle \/ SendLate
    \/ \E h \in posts : LosePost(h)
    \/ Crash \/ Restart \/ Expire

\* The timers run, requests and replies of Redis and LiveKit end, LiveKit
\* delivers, a process that died is started again, a key that nobody extends
\* expires.
Fairness ==
    /\ WF_vars(Poll) /\ WF_vars(\E w \in Hooks, h \in posts : TakePost(w, h))
    /\ \A w \in Passes : WF_vars(PassStep(w))
    /\ WF_vars(Handle) /\ WF_vars(SendLate) /\ WF_vars(Restart) /\ WF_vars(Expire)

Spec == Init /\ [][Next]_vars
FairSpec == Spec /\ Fairness

----------------------------------------------------------------------------
\* INV: a channel with people in it is in the set that is polled as soon as
\* nothing is under way, unless a list of LiveKit failed, a webhook or a pass was
\* lost, a pass that another had overtaken changed the list or the set, or a
\* room_finished was handled when people were there again (clearChannel looks
\* at no list).
OccupiedIsWatched ==
    room # {} /\ posts = {} /\ up /\ (\A w \in Passes : pass[w] = Idle)
    => polled \/ failed \/ lost \/ raced \/ wiped

\* ACT: one who says good-bye does not stop the clock of those who sat there
\* when the channel was read and have not left since, unless a list of LiveKit
\* failed, a pass that another had overtaken changed the list, or a late
\* room_finished emptied it (index.ts: only when the channel is really empty).
ClockKept ==
    [][\A w \in Hooks : pass[w] # Idle /\ pass[w].goodbye /\ pass[w].saw # {} /\ pass'[w] = Idle /\ clock /\ ~ clock'
         => failed \/ raced \/ wiped \/ ~ up']_vars

\* LIVE: a list of people who have gone does not stay: it becomes right, or
\* it expires, whatever was lost, failed, raced or restarted (KEY_TTL_S).
GhostsExpire == <>[](shown \in {{}, room})

\* LIVE: the clients come to show who is there; nobody at all only after a
\* failed list, a lost webhook or a late room_finished; wrong people only after
\* one of the two races.
ClientsFollow ==
    <>[](view = room \/ (view = {} /\ (failed \/ lost \/ wiped)) \/ raced \/ outrun)
=============================================================================
