---------------------------- MODULE TeamMessages -----------------------------
(***************************************************************************)
(* Text messages of one member between the page and the database:          *)
(* Frontend/components/team_realtime_provider.jsx (the socket, the durable *)
(* outbox, the replay), Frontend/app/team/page.js (what is shown, and its  *)
(* own retry) and backend/team_communications.py (storing, publishing).    *)
(*                                                                         *)
(* A message that is written while the connection is ready goes over the   *)
(* socket and is kept in localStorage until something says that it was     *)
(* stored; 6 seconds later the provider posts it, 8 seconds later so does  *)
(* the page, and every new connection posts what is still kept.  What      *)
(* other members write arrives over the socket, or by a replay that begins *)
(* at a cursor kept in localStorage.                                       *)
(*                                                                         *)
(* Abstracted: one open conversation, one tab, texts, and the times of     *)
(* timers (the provider's goes off before the page's).                     *)
(***************************************************************************)
EXTENDS Naturals, Sequences, FiniteSets, SequencesExt

CONSTANTS Mine,        \* what this member writes: client_message_id's
          Theirs,      \* what other members write
          PageLimit,   \* how many messages a replay returns at once: 200
          MaxPages,    \* how many pages a replay reads at most: 10
          MaxKept,     \* how many messages the outbox keeps at most: 200
          MaxBreaks,   \* bound: connections lost, effects run anew, pages reloaded
          MaxFaults    \* bound: requests that fail, events published late or twice

ASSUME MessagesAssumption == Mine \intersect Theirs = {}
ASSUME LimitsAssumption == {PageLimit, MaxPages, MaxKept} \subseteq Nat \ {0}
ASSUME BoundsAssumption == MaxBreaks \in Nat /\ MaxFaults \in Nat

VARIABLES
    rows,      \* conversation_messages: what is committed, with its ids
    begun,     \* rows of other members that are inserted and not committed
    nextId,    \* the sequence of ids: they are taken when a row is inserted
    due,       \* committed messages whose event is not published yet
    link,      \* the socket; "opened": registered by the server and not greeted
               \* yet; "dead": broken, and this side has not noticed
    ready,     \* connectionState is `open'
    wire,      \* message.send's on their way to the server
    inbox,     \* events on their way to this side
    outbox,    \* localStorage: messages kept until they are stored, oldest first
    cursor,    \* localStorage: the id up to which nothing is replayed
    ackTimers, pageTimers,  \* messages the provider and the page will post
    posts,     \* POST requests: by whom, of what, and what came of it
    flush,     \* what flushDurableOutbox posts: the first is under way
    replays,   \* replays under way: the page they ask for, and its rows
    view,      \* what the page shows of each message this member wrote
    load,      \* loadMessages: how far it is, and which of these the answer has
    handed,    \* history: messages given to sendRealtimeMessage
    dropped,   \* history: messages that newer ones pushed out of the outbox
    told,      \* history: messages whose failure the member was told
    given,     \* history: messages of others that an event or a replay brought
    passed,    \* history: rows the cursor was past when the connection got ready
    halted,    \* history: since then a replay failed or read its last page in full
    breaks, faults

server   == <<rows, begun, nextId, due>>
socket   == <<link, ready, wire, inbox>>
storage  == <<outbox, cursor>>
waiting  == <<ackTimers, pageTimers, posts, flush, replays>>
page     == <<view, load>>
history  == <<handed, dropped, told, given, passed, halted>>
counters == <<breaks, faults>>
vars     == <<server, socket, storage, waiting, page, history, counters>>
-----------------------------------------------------------------------------
Messages == Mine \union Theirs

Rows    == [id : Nat, msg : Messages]
Events  == [type : {"created"}, msg : Messages] \union [type : {"ack", "failed"}, msg : Mine]
             \union [type : {"connected"}]
Posts   == [by : {"timer", "flush", "page"}, msg : Mine, state : {"asked", "stored", "failed"}]
Replays == [from : Nat, page : 1 .. MaxPages, answered : BOOLEAN, rows : SUBSET Rows]
Loads   == [state : {"none", "asked", "answered", "failed"}, shows : SUBSET Mine]

TypeOK ==
    /\ rows \subseteq Rows /\ begun \subseteq Rows /\ nextId \in Nat /\ due \subseteq Messages
    /\ link \in {"down", "opened", "up", "dead"} /\ ready \in BOOLEAN
    /\ wire \in Seq(Mine) /\ inbox \in Seq(Events)
    /\ outbox \in Seq(Mine) /\ cursor \in Nat
    /\ ackTimers \subseteq Mine /\ pageTimers \subseteq Mine
    /\ posts \subseteq Posts /\ flush \in Seq(Mine) /\ replays \subseteq Replays
    /\ view \in [Mine -> {"none", "pending", "sent", "failed"}] /\ load \in Loads
    /\ handed \subseteq Mine /\ dropped \subseteq Mine /\ told \subseteq Mine
    /\ given \subseteq Theirs /\ passed \subseteq Rows /\ halted \in BOOLEAN
    /\ breaks \in 0 .. MaxBreaks /\ faults \in 0 .. MaxFaults

Init ==
    /\ rows = {} /\ begun = {} /\ nextId = 1 /\ due = {}
    /\ link = "down" /\ ready = FALSE /\ wire = <<>> /\ inbox = <<>>
    /\ outbox = <<>> /\ cursor = 0
    /\ ackTimers = {} /\ pageTimers = {} /\ posts = {} /\ flush = <<>> /\ replays = {}
    /\ view = [m \in Mine |-> "none"] /\ load = [state |-> "none", shows |-> {}]
    /\ handed = {} /\ dropped = {} /\ told = {} /\ given = {}
    /\ passed = {} /\ halted = FALSE
    /\ breaks = 0 /\ faults = 0

Break == breaks < MaxBreaks /\ breaks' = breaks + 1 /\ UNCHANGED faults
Fault == faults < MaxFaults /\ faults' = faults + 1 /\ UNCHANGED breaks

Stored(m)   == \E r \in rows : r.msg = m
Id(m)       == (CHOOSE r \in rows : r.msg = m).id
Event(t, m) == [type |-> t, msg |-> m]
Post(by, m) == [by |-> by, msg |-> m, state |-> "asked"]
Larger(i, j) == IF i > j THEN i ELSE j
-----------------------------------------------------------------------------
(* The server. *)

\* Events for this member, which reach nobody while no socket is registered.
Sent(events) == inbox' = IF link \in {"opened", "up"} THEN inbox \o events ELSE inbox

\* Bug: a client_message_id that is stored already is inserted once more.
Persist_Again(m, late) ==
    /\ rows' = rows \union {[id |-> nextId, msg |-> m]}
    /\ nextId' = nextId + 1
    /\ due' = IF late THEN due \union {m} ELSE due

\* persist_text_message_sync, and what the handler publishes of a new row.  The
\* dispatcher publishes it, or once more, if the handler was cut short (late).
Persist(m, late) ==
    IF Stored(m)
      THEN UNCHANGED <<rows, nextId, due>>
      ELSE /\ rows' = rows \union {[id |-> nextId, msg |-> m]}
           /\ nextId' = nextId + 1
           /\ due' = IF late THEN due \union {m} ELSE due

Published(m, late) == IF Stored(m) \/ late THEN <<>> ELSE <<Event("created", m)>>

\* The handler that stored a message publishes it, or the dispatcher does; or both.
Publish(m) ==
    /\ Sent(<<Event("created", m)>>)
    /\ \/ due' = due \ {m} /\ UNCHANGED counters
       \/ Fault /\ UNCHANGED due
    /\ UNCHANGED <<rows, begun, nextId, link, ready, wire, storage, waiting, page, history>>

\* Another member's message: the row takes its id, then it is committed, and only
\* then published.
Insert(m) ==
    /\ \A r \in rows \union begun : r.msg # m
    /\ begun' = begun \union {[id |-> nextId, msg |-> m]}
    /\ nextId' = nextId + 1
    /\ UNCHANGED <<rows, due, socket, storage, waiting, page, history, counters>>

Commit(r) ==
    /\ begun' = begun \ {r}
    /\ rows' = rows \union {r}
    /\ due' = due \union {r.msg}
    /\ UNCHANGED <<nextId, socket, storage, waiting, page, history, counters>>

\* message.send: stored, or the sender is told that it is not.
HandleSend ==
    LET m == Head(wire) IN
    /\ link = "up" /\ wire # <<>>
    /\ wire' = Tail(wire)
    /\ \/ /\ Persist(m, FALSE)
          /\ Sent(Published(m, FALSE) \o <<Event("ack", m)>>)
          /\ UNCHANGED counters
       \/ /\ Fault
          /\ Sent(<<Event("failed", m)>>)
          /\ UNCHANGED <<rows, nextId, due>>
    /\ UNCHANGED <<begun, link, ready, storage, waiting, page, history>>

Becomes(p, state) == posts' = (posts \ {p}) \union {[p EXCEPT !.state = state]}

\* A POST is answered, late to publish or not; or it fails, stored or not.
HandlePost(p) ==
    /\ p.state = "asked"
    /\ \/ /\ Persist(p.msg, FALSE) /\ Sent(Published(p.msg, FALSE))
          /\ Becomes(p, "stored") /\ UNCHANGED counters
       \/ /\ Fault /\ Persist(p.msg, TRUE) /\ UNCHANGED inbox
          /\ Becomes(p, "stored")
       \/ /\ Fault /\ Persist(p.msg, FALSE) /\ Sent(Published(p.msg, FALSE))
          /\ Becomes(p, "failed")
       \/ /\ Fault /\ UNCHANGED <<rows, nextId, due, inbox>>
          /\ Becomes(p, "failed")
    /\ UNCHANGED <<begun, link, ready, wire, storage, ackTimers, pageTimers, flush, replays,
                   page, history>>
-----------------------------------------------------------------------------
(* The connection. *)

\* The server registers the socket: events may come from now on ...
Connect ==
    /\ link = "down"
    /\ link' = "opened"
    /\ UNCHANGED <<server, ready, wire, inbox, storage, waiting, page, history, counters>>

\* ... before the one that says so.
Greet ==
    /\ link = "opened"
    /\ link' = "up"
    /\ inbox' = Append(inbox, [type |-> "connected"])
    /\ UNCHANGED <<server, ready, wire, storage, waiting, page, history, counters>>

\* What is on its way is lost; this side notices later.
LinkBreaks ==
    /\ link \in {"opened", "up"}
    /\ Break
    /\ link' = "dead" /\ wire' = <<>> /\ inbox' = <<>>
    /\ UNCHANGED <<server, ready, storage, waiting, page, history>>

\* onclose
Closed ==
    /\ link = "dead"
    /\ link' = "down" /\ ready' = FALSE
    /\ UNCHANGED <<server, wire, inbox, storage, waiting, page, history, counters>>

Disconnected == link' = "down" /\ ready' = FALSE /\ wire' = <<>> /\ inbox' = <<>>

\* The effect runs anew, as when the language changes: its cleanup closes the
\* socket and forgets the provider's timers.
Rerun ==
    /\ Break
    /\ Disconnected
    /\ ackTimers' = {}
    /\ UNCHANGED <<server, storage, pageTimers, posts, flush, replays, page, history>>

\* The page is reloaded: localStorage stays, and for two minutes sessionStorage
\* still has what was shown, pending messages included.
ReloadPage ==
    /\ Break
    /\ Disconnected
    /\ ackTimers' = {} /\ pageTimers' = {} /\ posts' = {} /\ flush' = <<>> /\ replays' = {}
    /\ view' \in {view, [m \in Mine |-> "none"]}
    /\ load' = [state |-> "asked", shows |-> {}]
    /\ UNCHANGED <<server, storage, history>>
-----------------------------------------------------------------------------
(* Writing, and what answers it. *)

\* saveRealtimeOutbox
Newest(items) == IF Len(items) <= MaxKept THEN items
                 ELSE SubSeq(items, Len(items) - MaxKept + 1, Len(items))

\* handleSendMessage, when the connection is not ready or the message cannot be
\* kept: the page posts it.
WriteByPost(m) ==
    /\ \/ ~ready /\ UNCHANGED counters
       \/ ready /\ Fault
    /\ posts' = posts \union {Post("page", m)}
    /\ UNCHANGED <<outbox, handed, dropped, wire, ackTimers, pageTimers>>

\* sendRealtimeMessage, and the page's timer.  A socket that is closing is not
\* ready to send, and the provider posts at once.
WriteToSocket(m) ==
    /\ ready
    /\ outbox' = Newest(Append(outbox, m))
    /\ handed' = handed \union {m}
    /\ dropped' = dropped \union (Range(outbox) \ Range(outbox'))
    /\ pageTimers' = pageTimers \union {m}
    /\ \/ /\ wire' = IF link = "up" THEN Append(wire, m) ELSE wire
          /\ ackTimers' = ackTimers \union {m}
          /\ UNCHANGED posts
       \/ /\ link = "dead"
          /\ posts' = posts \union {Post("timer", m)}
          /\ UNCHANGED <<wire, ackTimers>>
    /\ UNCHANGED counters

Write(m) ==
    /\ ~Stored(m) /\ view[m] = "none" /\ m \notin handed \union told
    /\ \A p \in posts : p.msg # m
    /\ view' = [view EXCEPT ![m] = "pending"]
    /\ WriteByPost(m) \/ WriteToSocket(m)
    /\ UNCHANGED <<server, link, ready, inbox, cursor, flush, replays, load, told, given, passed,
                   halted>>

AckTimeout(m) ==
    /\ m \in ackTimers
    /\ ackTimers' = ackTimers \ {m}
    /\ posts' = posts \union {Post("timer", m)}
    /\ UNCHANGED <<server, socket, storage, pageTimers, flush, replays, page, history, counters>>

PageTimeout(m) ==
    /\ m \in pageTimers \ ackTimers
    /\ pageTimers' = pageTimers \ {m}
    /\ posts' = posts \union {Post("page", m)}
    /\ UNCHANGED <<server, socket, storage, ackTimers, flush, replays, page, history, counters>>

\* removePendingMessage
NotKept(m) ==
    /\ outbox' = IF m \in Range(outbox)
                   THEN RemoveAt(outbox, CHOOSE i \in DOMAIN outbox : outbox[i] = m)
                   ELSE outbox
    /\ ackTimers' = ackTimers \ {m}

\* upsertMessage
Shown(m) == /\ view' = [x \in Mine |-> IF x = m THEN "sent" ELSE view[x]]
            /\ pageTimers' = pageTimers \ {m}

\* markMessageFailed, and the notice
ShownFailed(m) == /\ view' = [view EXCEPT ![m] = IF @ = "none" THEN @ ELSE "failed"]
                  /\ told' = told \union {m}

\* Bug: the member's own messages are counted as given to the page.
Given_Own(ms) == given' = given \union ms

Given(ms) == given' = given \union (ms \intersect Theirs)

\* Bug: the message is kept no more although the POST failed.
TimerPosted_Forgets(p) ==
    /\ p.by = "timer" /\ p.state # "asked"
    /\ posts' = posts \ {p}
    /\ NotKept(p.msg)
    /\ IF p.state = "stored" THEN Shown(p.msg) /\ cursor' = Larger(cursor, Id(p.msg))
                             ELSE UNCHANGED <<view, pageTimers, cursor>>
    /\ UNCHANGED <<server, socket, flush, replays, load, history, counters>>

\* The provider's POST of a timer is answered.  Nobody listens to its failure.
TimerPosted(p) ==
    /\ p.by = "timer" /\ p.state # "asked"
    /\ posts' = posts \ {p}
    /\ IF p.state = "stored"
         THEN NotKept(p.msg) /\ Shown(p.msg) /\ cursor' = Larger(cursor, Id(p.msg))
         ELSE UNCHANGED <<outbox, ackTimers, view, pageTimers, cursor>>
    /\ UNCHANGED <<server, socket, flush, replays, load, history, counters>>

\* flushDurableOutbox posts the messages it read, one after the other.
FirstPost(items) == IF items = <<>> THEN {} ELSE {Post("flush", Head(items))}

FlushPosted(p) ==
    /\ p.by = "flush" /\ p.state # "asked" /\ flush # <<>>
    /\ flush' = Tail(flush)
    /\ posts' = (posts \ {p}) \union FirstPost(flush')
    /\ IF p.state = "stored"
         THEN NotKept(p.msg) /\ Shown(p.msg) /\ cursor' = Larger(cursor, Id(p.msg))
         ELSE UNCHANGED <<outbox, ackTimers, view, pageTimers, cursor>>
    /\ UNCHANGED <<server, socket, replays, load, history, counters>>

\* persistPendingTextMessage: the page shows the outcome and does not touch what
\* the provider keeps.
PagePosted(p) ==
    /\ p.by = "page" /\ p.state # "asked"
    /\ posts' = posts \ {p}
    /\ IF p.state = "stored" THEN Shown(p.msg) /\ UNCHANGED told
                             ELSE ShownFailed(p.msg) /\ UNCHANGED pageTimers
    /\ UNCHANGED <<server, socket, storage, ackTimers, flush, replays, load, handed, dropped,
                   given, passed, halted, counters>>
-----------------------------------------------------------------------------
(* Events. *)

Receive == inbox # <<>> /\ inbox' = Tail(inbox) /\ UNCHANGED <<link, wire>>

Replay(i, n) == [from |-> i, page |-> n, answered |-> FALSE, rows |-> {}]

\* Bug: like a flush, a replay does not begin while another is under way.
ReplayBegins_Once ==
    /\ replays' = IF replays = {} THEN {Replay(cursor, 1)} ELSE replays
    /\ passed' = {r \in rows : r.id <= cursor}
    /\ halted' = FALSE

\* replayMissedMessages, and what the cursor is past when it reads it.
ReplayBegins ==
    /\ replays' = replays \union {Replay(cursor, 1)}
    /\ passed' = {r \in rows : r.id <= cursor}
    /\ halted' = FALSE

\* realtime.connected: replay what was missed and post what is kept, unless an
\* earlier flush is still under way.
ReceiveConnected ==
    /\ Receive /\ Head(inbox).type = "connected"
    /\ ready' = TRUE
    /\ ReplayBegins
    /\ IF flush # <<>> THEN UNCHANGED <<flush, posts>>
         ELSE flush' = outbox /\ posts' = posts \union FirstPost(outbox)
    /\ UNCHANGED <<server, storage, ackTimers, pageTimers, page, handed, dropped, told, given,
                   counters>>

\* message.created and message.ack, of a row that is committed.
ReceiveMessage ==
    LET m == Head(inbox).msg IN
    /\ Receive /\ Head(inbox).type \in {"created", "ack"}
    /\ NotKept(m)
    /\ cursor' = Larger(cursor, Id(m))
    /\ Shown(m)
    /\ Given({m})
    /\ UNCHANGED <<server, ready, posts, flush, replays, load, handed, dropped, told, passed,
                   halted, counters>>

\* message.failed
ReceiveFailed ==
    LET m == Head(inbox).msg IN
    /\ Receive /\ Head(inbox).type = "failed"
    /\ NotKept(m)
    /\ pageTimers' = pageTimers \ {m}
    /\ ShownFailed(m)
    /\ UNCHANGED <<server, ready, cursor, posts, flush, replays, load, handed, dropped, given,
                   passed, halted, counters>>

\* The first rows after an id, as many as a replay returns.
IsPage(found, i) ==
    LET later == {r \in rows : r.id > i} IN
    /\ \A s \in found, r \in later \ found : s.id < r.id
    /\ \/ found \subseteq later /\ Cardinality(found) = PageLimit
       \/ found = later /\ Cardinality(found) < PageLimit

HandleReplay(q) ==
    /\ ~q.answered
    /\ \E found \in SUBSET rows :
         /\ IsPage(found, q.from)
         /\ replays' = (replays \ {q}) \union {[q EXCEPT !.answered = TRUE, !.rows = found]}
    /\ UNCHANGED <<server, socket, storage, ackTimers, pageTimers, posts, flush, page, history,
                   counters>>

\* `replayMissedMessages().catch(() => {})'
ReplayFails(q) ==
    /\ Fault
    /\ replays' = replays \ {q}
    /\ halted' = TRUE
    /\ UNCHANGED <<server, socket, storage, ackTimers, pageTimers, posts, flush, page, handed,
                   dropped, told, given, passed>>

Full(q) == Cardinality(q.rows) = PageLimit

NextPage(q, last) ==
    IF Full(q) /\ q.page < MaxPages THEN {Replay(last, q.page + 1)} ELSE {}

\* A page of the replay; a full one is followed by the next, up to the last.
Replayed(q) ==
    LET ids == {q.from} \union {r.id : r \in q.rows}
        ms  == {r.msg : r \in q.rows}
    IN  /\ q.answered
        /\ \E last \in ids :
             /\ \A i \in ids : i <= last
             /\ cursor' = Larger(cursor, last)
             /\ replays' = (replays \ {q}) \union NextPage(q, last)
        /\ halted' = (halted \/ (Full(q) /\ q.page = MaxPages))
        /\ view' = [m \in Mine |-> IF m \in ms THEN "sent" ELSE view[m]]
        /\ pageTimers' = pageTimers \ ms
        /\ Given(ms)
        /\ UNCHANGED <<server, socket, outbox, ackTimers, posts, flush, load, handed, dropped,
                       told, passed, counters>>

\* refreshCurrentConversation, of a page that is focused.
Focus ==
    /\ load.state \in {"none", "failed"}
    /\ Break
    /\ load' = [state |-> "asked", shows |-> {}]
    /\ UNCHANGED <<server, socket, storage, waiting, view, history>>

HandleLoad ==
    /\ load.state = "asked"
    /\ \/ load' = [state |-> "answered", shows |-> {m \in Mine : Stored(m)}] /\ UNCHANGED counters
       \/ Fault /\ load' = [load EXCEPT !.state = "failed"]
    /\ UNCHANGED <<server, socket, storage, waiting, view, history>>


\* loadMessages: what was stored when the server answered replaces what is shown.
Loaded ==
    /\ load.state = "answered"
    /\ view' = [m \in Mine |-> IF m \in load.shows THEN "sent" ELSE "none"]
    /\ load' = [state |-> "none", shows |-> {}]
    /\ UNCHANGED <<server, socket, storage, waiting, history, counters>>

Next ==
    \/ \E m \in Theirs : Insert(m)
    \/ \E r \in begun : Commit(r)
    \/ \E m \in due : Publish(m)
    \/ HandleSend \/ \E p \in posts : HandlePost(p)
    \/ Connect \/ Greet \/ LinkBreaks \/ Closed \/ Rerun \/ ReloadPage
    \/ \E m \in Mine : Write(m) \/ AckTimeout(m) \/ PageTimeout(m)
    \/ \E p \in posts : TimerPosted(p) \/ FlushPosted(p) \/ PagePosted(p)
    \/ ReceiveConnected \/ ReceiveMessage \/ ReceiveFailed
    \/ \E q \in replays : HandleReplay(q) \/ ReplayFails(q) \/ Replayed(q)
    \/ Focus \/ HandleLoad \/ Loaded

Spec == Init /\ [][Next]_vars

\* What goes on by itself: all but the members, whose writing and focus are free,
\* and what breaks.
Progress ==
    \/ \E r \in begun : Commit(r)
    \/ \E m \in due : Publish(m)
    \/ HandleSend \/ \E p \in posts : HandlePost(p)
    \/ Connect \/ Greet \/ Closed
    \/ \E m \in Mine : AckTimeout(m) \/ PageTimeout(m)
    \/ \E p \in posts : TimerPosted(p) \/ FlushPosted(p) \/ PagePosted(p)
    \/ ReceiveConnected \/ ReceiveMessage \/ ReceiveFailed
    \/ \E q \in replays : HandleReplay(q) \/ Replayed(q)
    \/ HandleLoad \/ Loaded

\* Breaks and requests are finitely many, so it is enough that something goes on
\* for as long as anything can.
Fairness == WF_vars(Progress)

FairSpec == Spec /\ Fairness
-----------------------------------------------------------------------------
\* Safety: a message that was handed over is stored, still kept, or the member was
\* told that it failed: whatever breaks, times out, is repeated or reloaded.  Only
\* newer messages that are kept themselves can push it out.
NothingIsLost ==
    \A m \in handed : Stored(m) \/ m \in Range(outbox) \/ m \in told \/ m \in dropped

\* Safety: a message is stored once, although the socket, two timers and every new
\* connection may send it.
StoredOnce == \A q, r \in rows \union begun : q.msg = r.msg => q = r

\* A replay has the row, or its next page may.
Covers(q, r) ==
    /\ q.from < r.id
    /\ q.answered => r \in q.rows \/ (Full(q) /\ \A s \in q.rows : s.id < r.id)

\* A message of others that was not brought to the page will be, unless the
\* connection breaks or the replay fails or ends.
OnItsWay(r) ==
    \/ r.msg \in due
    \/ \E i \in DOMAIN inbox : inbox[i] = Event("created", r.msg)
    \/ \E q \in replays : Covers(q, r)

\* What the replay is for (Frontend/lib/api_client.js 1690): "Replay committed
\* messages missed while organization realtime was unavailable."  It begins at the
\* cursor, so nothing but a replay may take the cursor past a committed message
\* that has not reached the page.  The answer to one's own POST does, even of a
\* page that was ready.
NothingIsSkipped ==
    [][\A r \in rows :
         /\ r.msg \in Theirs /\ cursor < r.id /\ r.id <= cursor'
         /\ ready /\ replays = {}
         => (r.msg \in given \/ OnItsWay(r))']_vars

\* Safety: a connection misses nothing while it lasts, however many broke before it.
\* What the cursor was not past when it got ready, or was committed since, was brought
\* to the page or is on its way, although events, pages of several replays and
\* answers to posts move one cursor, ids are not committed in order, and events come
\* late or twice; unless a replay failed or had more than MaxPages pages.
ConnectionIsComplete ==
    link = "up" /\ ready /\ ~halted =>
        \A r \in rows \ passed : r.msg \in Theirs => r.msg \in given \/ OnItsWay(r)

\* The page shows no message as pending, unless the conversation could not be loaded
\* (of what a reloaded page shows as pending no timer of the page is left).
PendingEnds == \A m \in Mine : view[m] = "pending" => load.state = "failed"

\* What is kept is stored, unless newer messages pushed it out, or a request failed
\* (it then waits for another connection).
KeptIsStored == \A m \in Range(outbox) : Stored(m) \/ m \in dropped \/ faults > 0

=============================================================================
