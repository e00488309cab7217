------------------------- MODULE TeamMessagesProofs --------------------------
(***************************************************************************)
(* What TeamMessages guarantees for all messages, page sizes and bounds.   *)
(*                                                                         *)
(* Whatever says that a message was stored (the answer to a POST, an event *)
(* in the inbox or due) says so after it was committed, and rows stay: so  *)
(* removing a message from the outbox on such evidence loses nothing.      *)
(*                                                                         *)
(* For the replay, a connection gets ready only by realtime.connected,     *)
(* which is in the inbox only while the connection is up.  What is         *)
(* committed by then has an id the cursor is past, or the replay that      *)
(* begins covers it: an answer that is not full holds every row after its  *)
(* cursor, and one that is full is followed by the next.  What is          *)
(* committed later is due until its event is in the inbox.                 *)
(***************************************************************************)
EXTENDS TeamMessages, SequenceTheorems, TLAPS

StoredMessages == {r.msg : r \in rows}

\* Evidence that a message was stored is true.
PostsTrue  == \A p \in posts : p.state = "stored" => p.msg \in StoredMessages
EventsTrue == \A i \in DOMAIN inbox :
                 inbox[i].type \in {"created", "ack"} => inbox[i].msg \in StoredMessages
DueTrue    == due \subseteq StoredMessages
BegunTheirs == \A r \in begun : r.msg \in Theirs

Known == PostsTrue /\ EventsTrue /\ DueTrue /\ BegunTheirs /\ StoredOnce /\ NothingIsLost
-----------------------------------------------------------------------------
(* Types. *)

LEMMA EventTyped ==
    /\ \A m \in Messages : Event("created", m) \in Events
    /\ \A m \in Mine : Event("ack", m) \in Events /\ Event("failed", m) \in Events
    /\ [type |-> "connected"] \in Events
BY DEF Event, Events

LEMMA EventsRead ==
    ASSUME NEW e \in Events
    PROVE  /\ e.type \in {"created", "ack"} => e.msg \in Messages
           /\ e.type \in {"ack", "failed"} => e.msg \in Mine
BY DEF Events, Messages

LEMMA SentTyped ==
    ASSUME inbox \in Seq(Events), NEW events \in Seq(Events), Sent(events)
    PROVE  inbox' \in Seq(Events)
BY ConcatProperties DEF Sent

LEMMA PublishedTyped ==
    ASSUME NEW m \in Mine, NEW late
    PROVE  Published(m, late) \in Seq(Events)
<1>1. <<>> \in Seq(Events) /\ <<Event("created", m)>> \in Seq(Events)
  BY EventTyped, EmptySeq DEF Messages
<1> QED
  BY <1>1 DEF Published

LEMMA PersistTyped ==
    ASSUME rows \subseteq Rows, nextId \in Nat, due \subseteq Messages,
           NEW m \in Mine, NEW late, Persist(m, late)
    PROVE  rows' \subseteq Rows /\ nextId' \in Nat /\ due' \subseteq Messages
BY DEF Persist, Rows, Messages

LEMMA PostTyped ==
    ASSUME NEW m \in Mine, NEW by \in {"timer", "flush", "page"}
    PROVE  Post(by, m) \in Posts
BY DEF Post, Posts

LEMMA BecomesTyped ==
    ASSUME posts \subseteq Posts, NEW p \in posts, NEW state \in {"stored", "failed"},
           Becomes(p, state)
    PROVE  posts' \subseteq Posts
BY DEF Becomes, Posts

LEMMA IdTyped ==
    ASSUME rows \subseteq Rows, NEW m \in StoredMessages
    PROVE  Id(m) \in Nat
BY DEF Id, StoredMessages, Rows

LEMMA LargerTyped ==
    ASSUME NEW i \in Nat, NEW j \in Nat
    PROVE  Larger(i, j) \in Nat
BY DEF Larger

LEMMA ShownTyped ==
    ASSUME view \in [Mine -> {"none", "pending", "sent", "failed"}], pageTimers \subseteq Mine,
           NEW m, Shown(m)
    PROVE  /\ view' \in [Mine -> {"none", "pending", "sent", "failed"}]
           /\ pageTimers' \subseteq Mine
BY DEF Shown

LEMMA ShownFailedTyped ==
    ASSUME view \in [Mine -> {"none", "pending", "sent", "failed"}], told \subseteq Mine,
           NEW m \in Mine, ShownFailed(m)
    PROVE  /\ view' \in [Mine -> {"none", "pending", "sent", "failed"}]
           /\ told' \subseteq Mine
BY DEF ShownFailed

LEMMA ReceiveTyped ==
    ASSUME inbox \in Seq(Events), Receive
    PROVE  inbox' \in Seq(Events) /\ Head(inbox) \in Events
BY HeadTailProperties DEF Receive

LEMMA ReplayTyped ==
    ASSUME NEW i \in Nat, NEW n \in 1 .. MaxPages
    PROVE  Replay(i, n) \in Replays
BY DEF Replay, Replays

LEMMA NextPageTyped ==
    ASSUME NEW q \in Replays, NEW last \in Nat
    PROVE  NextPage(q, last) \subseteq Replays
<1>1. CASE Full(q) /\ q.page < MaxPages
  <2>1. q.page + 1 \in 1 .. MaxPages
    BY <1>1, LimitsAssumption DEF Replays
  <2> QED
    BY <1>1, <2>1, ReplayTyped DEF NextPage
<1>2. CASE ~(Full(q) /\ q.page < MaxPages)
  BY <1>2 DEF NextPage
<1> QED
  BY <1>1, <1>2

LEMMA FirstPostTyped ==
    ASSUME NEW items \in Seq(Mine)
    PROVE  FirstPost(items) \subseteq Posts
<1>1. CASE items = <<>>
  BY <1>1 DEF FirstPost
<1>2. CASE items # <<>>
  <2>1. Head(items) \in Mine
    BY <1>2, HeadTailProperties
  <2> QED
    BY <1>2, <2>1, PostTyped DEF FirstPost
<1> QED
  BY <1>1, <1>2

\* The sequence without one message: the others stay.
LEMMA NotKeptRemoves ==
    ASSUME outbox \in Seq(Mine), NEW m, NotKept(m)
    PROVE  /\ outbox' \in Seq(Mine)
           /\ \A x \in Range(outbox) : x = m \/ x \in Range(outbox')
<1>1. CASE m \in Range(outbox)
  <2> DEFINE k == CHOOSE i \in DOMAIN outbox : outbox[i] = m
             before == SubSeq(outbox, 1, k - 1)
             after  == SubSeq(outbox, k + 1, Len(outbox))
  <2>1. k \in DOMAIN outbox /\ outbox[k] = m
    BY <1>1 DEF Range
  <2>2. outbox' = before \o after
    BY <1>1 DEF NotKept, RemoveAt
  <2> HIDE DEF k
  <2>3. k \in 1 .. Len(outbox) /\ Len(outbox) \in Nat
    BY <2>1, LenProperties
  <2>4. /\ before \in Seq(Mine) /\ Len(before) = k - 1
        /\ \A i \in 1 .. k - 1 : before[i] = outbox[i]
    BY <2>3, SubSeqProperties
  <2>5. /\ after \in Seq(Mine) /\ Len(after) = Len(outbox) - k
        /\ \A i \in 1 .. Len(outbox) - k : after[i] = outbox[k + i]
    BY <2>3, SubSeqProperties
  <2> HIDE DEF before, after
  <2>6. /\ outbox' \in Seq(Mine) /\ Len(outbox') = Len(outbox) - 1
        /\ \A i \in 1 .. Len(outbox) - 1 :
              outbox'[i] = IF i <= k - 1 THEN before[i] ELSE after[i - (k - 1)]
    <3>1. /\ outbox' \in Seq(Mine) /\ Len(outbox') = Len(before) + Len(after)
          /\ \A i \in 1 .. Len(before) + Len(after) :
                outbox'[i] = IF i <= Len(before) THEN before[i] ELSE after[i - Len(before)]
      BY <2>2, <2>4, <2>5, ConcatProperties
    <3>2. Len(before) = k - 1 /\ Len(before) + Len(after) = Len(outbox) - 1
      BY <2>3, <2>4, <2>5
    <3> QED
      BY <3>1, <3>2
  <2>7. \A i \in 1 .. Len(outbox) : i = k \/ \E j \in 1 .. Len(outbox) - 1 : outbox'[j] = outbox[i]
    <3> SUFFICES ASSUME NEW i \in 1 .. Len(outbox), i # k
                 PROVE  \E j \in 1 .. Len(outbox) - 1 : outbox'[j] = outbox[i]
      OBVIOUS
    <3>1. CASE i < k
      <4>1. i \in 1 .. Len(outbox) - 1 /\ i <= k - 1 /\ i \in 1 .. k - 1
        BY <2>3, <3>1
      <4> QED
        BY <2>4, <2>6, <4>1
    <3>2. CASE i > k
      <4>1. /\ i - 1 \in 1 .. Len(outbox) - 1 /\ ~(i - 1 <= k - 1)
            /\ i - k \in 1 .. Len(outbox) - k
            /\ (i - 1) - (k - 1) = i - k /\ k + (i - k) = i
        BY <2>3, <3>2
      <4> QED
        BY <2>5, <2>6, <4>1
    <3> QED
      BY <2>3, <3>1, <3>2
  <2>8. DOMAIN outbox = 1 .. Len(outbox) /\ DOMAIN outbox' = 1 .. Len(outbox) - 1
    BY <2>6, LenProperties
  <2>9. ASSUME NEW x \in Range(outbox), x # m
        PROVE  x \in Range(outbox')
    <3>1. PICK i \in DOMAIN outbox : outbox[i] = x
      BY <2>9 DEF Range
    <3>2. PICK j \in DOMAIN outbox' : outbox'[j] = x
      BY <2>1, <2>7, <2>8, <2>9, <3>1
    <3> QED
      BY <3>2 DEF Range
  <2> QED
    BY <2>6, <2>9
<1>2. CASE m \notin Range(outbox)
  BY <1>2 DEF NotKept
<1> QED
  BY <1>1, <1>2

\* The newest messages are messages, and the last one is among them.
LEMMA NewestKeepsLast ==
    ASSUME NEW items \in Seq(Mine), items # <<>>
    PROVE  Newest(items) \in Seq(Mine) /\ items[Len(items)] \in Range(Newest(items))
<1>1. Len(items) \in Nat \ {0} /\ MaxKept \in Nat \ {0} /\ DOMAIN items = 1 .. Len(items)
  BY LenProperties, EmptySeq, LimitsAssumption
<1>2. CASE Len(items) <= MaxKept
  <2>1. Newest(items) = items /\ Len(items) \in DOMAIN items
    BY <1>1, <1>2 DEF Newest
  <2> QED
    BY <2>1 DEF Range
<1>3. CASE ~(Len(items) <= MaxKept)
  <2> DEFINE from == Len(items) - MaxKept + 1
             kept == SubSeq(items, from, Len(items))
  <2>1. from \in 1 .. Len(items) /\ Len(items) - from + 1 = MaxKept
    BY <1>1, <1>3
  <2>2. /\ kept \in Seq(Mine) /\ Len(kept) = MaxKept
        /\ \A i \in 1 .. MaxKept : kept[i] = items[from + i - 1]
    BY <1>1, <2>1, SubSeqProperties
  <2>3. from + MaxKept - 1 = Len(items) /\ MaxKept \in 1 .. MaxKept
    BY <1>1, <2>1
  <2>4. DOMAIN kept = 1 .. MaxKept /\ kept[MaxKept] = items[Len(items)]
    BY <2>2, <2>3, LenProperties
  <2>5. Newest(items) = kept
    BY <1>3 DEF Newest
  <2> HIDE DEF kept
  <2> QED
    BY <2>2, <2>3, <2>4, <2>5 DEF Range
<1> QED
  BY <1>2, <1>3

ServerTyped  == rows \subseteq Rows /\ begun \subseteq Rows /\ nextId \in Nat /\ due \subseteq Messages
SocketTyped  == /\ link \in {"down", "opened", "up", "dead"} /\ ready \in BOOLEAN
                /\ wire \in Seq(Mine) /\ inbox \in Seq(Events)
StorageTyped == outbox \in Seq(Mine) /\ cursor \in Nat
WaitingTyped == /\ ackTimers \subseteq Mine /\ pageTimers \subseteq Mine
                /\ posts \subseteq Posts /\ flush \in Seq(Mine) /\ replays \subseteq Replays
PageTyped    == /\ view \in [Mine -> {"none", "pending", "sent", "failed"}]
                /\ load \in Loads
HistoryTyped == /\ handed \subseteq Mine /\ dropped \subseteq Mine /\ told \subseteq Mine
                /\ given \subseteq Theirs /\ passed \subseteq Rows /\ halted \in BOOLEAN
CountersTyped == breaks \in 0 .. MaxBreaks /\ faults \in 0 .. MaxFaults

LEMMA Parts ==
    /\ TypeOK => /\ ServerTyped /\ SocketTyped /\ StorageTyped /\ WaitingTyped
                 /\ PageTyped /\ HistoryTyped /\ CountersTyped
    /\ /\ ServerTyped' /\ SocketTyped' /\ StorageTyped' /\ WaitingTyped'
       /\ PageTyped' /\ HistoryTyped' /\ CountersTyped'
       => TypeOK'
BY DEF TypeOK, ServerTyped, SocketTyped, StorageTyped, WaitingTyped, PageTyped, HistoryTyped,
       CountersTyped

LEMMA Unchanged ==
    /\ ServerTyped /\ UNCHANGED server => ServerTyped'
    /\ SocketTyped /\ UNCHANGED socket => SocketTyped'
    /\ StorageTyped /\ UNCHANGED storage => StorageTyped'
    /\ WaitingTyped /\ UNCHANGED waiting => WaitingTyped'
    /\ PageTyped /\ UNCHANGED page => PageTyped'
    /\ HistoryTyped /\ UNCHANGED history => HistoryTyped'
    /\ CountersTyped /\ UNCHANGED counters => CountersTyped'
BY DEF server, socket, storage, waiting, page, history, counters, ServerTyped, SocketTyped,
       StorageTyped, WaitingTyped, PageTyped, HistoryTyped, CountersTyped

LEMMA Counted ==
    ASSUME CountersTyped, Break \/ Fault \/ UNCHANGED counters
    PROVE  CountersTyped'
BY BoundsAssumption DEF CountersTyped, Break, Fault, counters
-----------------------------------------------------------------------------
(* Every step keeps the types. *)

LEMMA PublishTyped ==
    ASSUME TypeOK, NEW m \in due, Publish(m)
    PROVE  TypeOK'
<1>1. m \in Messages /\ <<Event("created", m)>> \in Seq(Events)
  BY EventTyped DEF TypeOK
<1>2. inbox' \in Seq(Events)
  BY <1>1, SentTyped DEF TypeOK, Publish
<1>3. ServerTyped' /\ SocketTyped'
  BY <1>2, Parts DEF Publish, ServerTyped, SocketTyped
<1>4. CountersTyped'
  BY Parts, Counted DEF Publish
<1> QED
  BY <1>3, <1>4, Parts, Unchanged DEF Publish

LEMMA InsertTyped ==
    ASSUME TypeOK, NEW m \in Theirs, Insert(m)
    PROVE  TypeOK'
<1>1. [id |-> nextId, msg |-> m] \in Rows
  BY DEF TypeOK, Rows, Messages
<1> QED
  BY <1>1, Parts, Unchanged DEF Insert, ServerTyped

LEMMA CommitTyped ==
    ASSUME TypeOK, NEW r \in begun, Commit(r)
    PROVE  TypeOK'
<1>1. r \in Rows /\ r.msg \in Messages
  BY DEF TypeOK, Rows
<1> QED
  BY <1>1, Parts, Unchanged DEF Commit, ServerTyped

LEMMA HandleSendTyped ==
    ASSUME TypeOK, HandleSend
    PROVE  TypeOK'
<1> DEFINE m == Head(wire)
<1>1. m \in Mine /\ wire' \in Seq(Mine)
  BY HeadTailProperties DEF TypeOK, HandleSend
<1>2. /\ Published(m, FALSE) \o <<Event("ack", m)>> \in Seq(Events)
      /\ <<Event("failed", m)>> \in Seq(Events)
  <2>1. Published(m, FALSE) \in Seq(Events)
    BY <1>1, PublishedTyped
  <2>2. <<Event("ack", m)>> \in Seq(Events) /\ <<Event("failed", m)>> \in Seq(Events)
    BY <1>1, EventTyped
  <2> HIDE DEF m
  <2> QED
    BY <2>1, <2>2, ConcatProperties
<1>3. inbox' \in Seq(Events)
  BY <1>2, SentTyped DEF TypeOK, HandleSend
<1>4. rows' \subseteq Rows /\ nextId' \in Nat /\ due' \subseteq Messages
  BY <1>1, PersistTyped DEF TypeOK, HandleSend
<1>5. CountersTyped'
  BY Parts, Counted DEF HandleSend
<1> QED
  BY <1>1, <1>3, <1>4, <1>5, Parts, Unchanged DEF HandleSend, ServerTyped, SocketTyped

LEMMA HandlePostTyped ==
    ASSUME TypeOK, NEW p \in posts, HandlePost(p)
    PROVE  TypeOK'
<1>1. p.msg \in Mine
  BY DEF TypeOK, Posts
<1>2. inbox' \in Seq(Events)
  BY <1>1, PublishedTyped, SentTyped DEF TypeOK, HandlePost
<1>3. rows' \subseteq Rows /\ nextId' \in Nat /\ due' \subseteq Messages
  BY <1>1, PersistTyped DEF TypeOK, HandlePost
<1>4. posts' \subseteq Posts
  BY BecomesTyped DEF TypeOK, HandlePost
<1>5. CountersTyped'
  BY Parts, Counted DEF HandlePost
<1> QED
  BY <1>2, <1>3, <1>4, <1>5, Parts, Unchanged
     DEF HandlePost, ServerTyped, SocketTyped, WaitingTyped

LEMMA ConnectionTyped ==
    ASSUME TypeOK, Connect \/ Greet \/ LinkBreaks \/ Closed \/ Rerun \/ ReloadPage
    PROVE  TypeOK'
<1>1. <<>> \in Seq(Events) /\ <<>> \in Seq(Mine)
  BY EmptySeq
<1>2. CASE Connect
  BY <1>2, Parts, Unchanged DEF Connect, SocketTyped
<1>7. CASE Greet
  <2>1. inbox' \in Seq(Events)
    BY <1>7, EventTyped, AppendProperties DEF TypeOK, Greet
  <2> QED
    BY <1>7, <2>1, Parts, Unchanged DEF Greet, SocketTyped
<1>3. CASE LinkBreaks
  BY <1>1, <1>3, Parts, Unchanged, Counted DEF LinkBreaks, SocketTyped
<1>4. CASE Closed
  BY <1>4, Parts, Unchanged DEF Closed, SocketTyped
<1>5. CASE Rerun
  <2>1. SocketTyped'
    BY <1>1, <1>5 DEF Rerun, Disconnected, SocketTyped
  <2>2. WaitingTyped'
    BY <1>5, Parts DEF Rerun, WaitingTyped
  <2>3. CountersTyped'
    BY <1>5, Parts, Counted DEF Rerun
  <2> QED
    BY <1>5, <2>1, <2>2, <2>3, Parts, Unchanged DEF Rerun
<1>6. CASE ReloadPage
  <2>1. SocketTyped'
    BY <1>1, <1>6 DEF ReloadPage, Disconnected, SocketTyped
  <2>2. WaitingTyped'
    BY <1>1, <1>6 DEF ReloadPage, WaitingTyped
  <2>3. PageTyped'
    BY <1>6, Parts DEF ReloadPage, PageTyped, Loads
  <2>4. CountersTyped'
    BY <1>6, Parts, Counted DEF ReloadPage
  <2> QED
    BY <1>6, <2>1, <2>2, <2>3, <2>4, Parts, Unchanged DEF ReloadPage
<1> QED
  BY <1>2, <1>3, <1>4, <1>5, <1>6, <1>7

LEMMA WritingTyped ==
    ASSUME TypeOK, NEW m \in Mine, Write(m) \/ AckTimeout(m) \/ PageTimeout(m)
    PROVE  TypeOK'
<1>1. Post("page", m) \in Posts /\ Post("timer", m) \in Posts
  BY PostTyped
<1>2. CASE Write(m)
  <2>1. view' \in [Mine -> {"none", "pending", "sent", "failed"}]
    BY <1>2 DEF TypeOK, Write
  <2>2. CASE WriteByPost(m)
    <3>1. posts' \subseteq Posts /\ CountersTyped'
      BY <1>1, <2>2, Parts, Counted DEF TypeOK, WriteByPost
    <3> QED
      BY <1>2, <2>1, <2>2, <3>1, Parts, Unchanged
         DEF Write, WriteByPost, SocketTyped, StorageTyped, WaitingTyped, PageTyped, HistoryTyped
  <2>3. CASE WriteToSocket(m)
    <3>1. Append(wire, m) \in Seq(Mine) /\ Append(outbox, m) \in Seq(Mine)
          /\ Append(outbox, m) # <<>>
      <4>1. Append(wire, m) \in Seq(Mine)
        BY AppendProperties DEF TypeOK
      <4>2. Append(outbox, m) \in Seq(Mine) /\ Append(outbox, m) # <<>>
        BY AppendProperties DEF TypeOK
      <4> QED
        BY <4>1, <4>2
    <3>2. outbox' \in Seq(Mine)
      BY <2>3, <3>1, NewestKeepsLast DEF WriteToSocket
    <3>3. wire' \in Seq(Mine) /\ posts' \subseteq Posts /\ ackTimers' \subseteq Mine
          /\ pageTimers' \subseteq Mine
      BY <1>1, <2>3, <3>1 DEF TypeOK, WriteToSocket
    <3>4. handed' \subseteq Mine /\ dropped' \subseteq Mine
      <4>1. Range(outbox) \subseteq Mine
        BY DEF TypeOK, Range
      <4> QED
        BY <2>3, <4>1 DEF TypeOK, WriteToSocket
    <3>5. CountersTyped'
      BY <2>3, Parts, Counted DEF WriteToSocket
    <3> QED
      BY <1>2, <2>1, <3>2, <3>3, <3>4, <3>5, Parts, Unchanged
         DEF Write, SocketTyped, StorageTyped, WaitingTyped, PageTyped, HistoryTyped
  <2> QED
    BY <1>2, <2>2, <2>3 DEF Write
<1>3. CASE AckTimeout(m)
  BY <1>1, <1>3, Parts, Unchanged DEF AckTimeout, WaitingTyped
<1>4. CASE PageTimeout(m)
  BY <1>1, <1>4, Parts, Unchanged DEF PageTimeout, WaitingTyped
<1> QED
  BY <1>2, <1>3, <1>4

LEMMA PostedTyped ==
    ASSUME TypeOK, PostsTrue, NEW p \in posts, TimerPosted(p) \/ FlushPosted(p) \/ PagePosted(p)
    PROVE  TypeOK'
<1>1. p.msg \in Mine /\ (p.state = "stored" => Larger(cursor, Id(p.msg)) \in Nat)
  BY IdTyped, LargerTyped DEF TypeOK, PostsTrue, Posts
<1>2. /\ view' \in [Mine -> {"none", "pending", "sent", "failed"}]
      /\ pageTimers' \subseteq Mine
  BY <1>1, ShownTyped, ShownFailedTyped DEF TypeOK, TimerPosted, FlushPosted, PagePosted
<1>3. told' \subseteq Mine
  BY <1>1, ShownFailedTyped DEF TypeOK, TimerPosted, FlushPosted, PagePosted, history
<1>4. CASE TimerPosted(p)
  <2>1. outbox' \in Seq(Mine) /\ ackTimers' \subseteq Mine
    BY <1>4, NotKeptRemoves DEF TypeOK, TimerPosted, NotKept
  <2> QED
    BY <1>1, <1>2, <1>4, <2>1, Parts, Unchanged
       DEF TimerPosted, StorageTyped, WaitingTyped, PageTyped
<1>5. CASE FlushPosted(p)
  <2>1. flush' \in Seq(Mine)
    BY <1>5, HeadTailProperties DEF TypeOK, FlushPosted
  <2>2. posts' \subseteq Posts
    BY <1>5, <2>1, FirstPostTyped DEF TypeOK, FlushPosted
  <2>3. outbox' \in Seq(Mine) /\ ackTimers' \subseteq Mine
    BY <1>5, NotKeptRemoves DEF TypeOK, FlushPosted, NotKept
  <2> QED
    BY <1>1, <1>2, <1>5, <2>1, <2>2, <2>3, Parts, Unchanged
       DEF FlushPosted, StorageTyped, WaitingTyped, PageTyped
<1>6. CASE PagePosted(p)
  BY <1>2, <1>3, <1>6, Parts, Unchanged DEF PagePosted, WaitingTyped, PageTyped, HistoryTyped
<1> QED
  BY <1>4, <1>5, <1>6

LEMMA ReceivingTyped ==
    ASSUME TypeOK, EventsTrue, ReceiveConnected \/ ReceiveMessage \/ ReceiveFailed
    PROVE  TypeOK'
<1>1. inbox' \in Seq(Events) /\ Head(inbox) \in Events
  BY ReceiveTyped DEF TypeOK, ReceiveConnected, ReceiveMessage, ReceiveFailed
<1>2. CASE ReceiveConnected
  <2>1. Replay(cursor, 1) \in Replays /\ replays' \subseteq Replays
    <3>1. 1 \in 1 .. MaxPages
      BY LimitsAssumption
    <3>2. Replay(cursor, 1) \in Replays
      BY <3>1, ReplayTyped DEF TypeOK
    <3> QED
      BY <1>2, <3>2 DEF TypeOK, ReceiveConnected, ReplayBegins
  <2>2. flush' \in Seq(Mine) /\ posts' \subseteq Posts
    BY <1>2, FirstPostTyped DEF TypeOK, ReceiveConnected
  <2>3. HistoryTyped'
    BY <1>2 DEF TypeOK, ReceiveConnected, ReplayBegins, HistoryTyped
  <2> QED
    BY <1>1, <1>2, <2>1, <2>2, <2>3, Parts, Unchanged
       DEF ReceiveConnected, Receive, SocketTyped, WaitingTyped
<1>3. CASE ReceiveMessage
  <2>1. Head(inbox).msg \in StoredMessages
    BY <1>3, HeadTailProperties DEF TypeOK, EventsTrue, ReceiveMessage, Receive
  <2>2. cursor' \in Nat
    BY <1>3, <2>1, IdTyped, LargerTyped DEF TypeOK, ReceiveMessage
  <2>3. /\ view' \in [Mine -> {"none", "pending", "sent", "failed"}]
        /\ pageTimers' \subseteq Mine
    BY <1>3, ShownTyped DEF TypeOK, ReceiveMessage
  <2>4. outbox' \in Seq(Mine) /\ ackTimers' \subseteq Mine
    BY <1>3, NotKeptRemoves DEF TypeOK, ReceiveMessage, NotKept
  <2>5. SocketTyped' /\ StorageTyped'
    BY <1>1, <1>3, <2>2, <2>4, Parts DEF ReceiveMessage, Receive, SocketTyped, StorageTyped
  <2>6. WaitingTyped' /\ PageTyped' /\ HistoryTyped'
    BY <1>3, <2>3, <2>4, Parts DEF ReceiveMessage, Given, WaitingTyped, PageTyped, HistoryTyped
  <2> QED
    BY <1>3, <2>5, <2>6, Parts, Unchanged DEF ReceiveMessage
<1>4. CASE ReceiveFailed
  <2>1. Head(inbox).msg \in Mine
    BY <1>1, <1>4, EventsRead DEF ReceiveFailed
  <2>2. /\ view' \in [Mine -> {"none", "pending", "sent", "failed"}]
        /\ told' \subseteq Mine
    BY <1>4, <2>1, ShownFailedTyped DEF TypeOK, ReceiveFailed
  <2>3. outbox' \in Seq(Mine) /\ ackTimers' \subseteq Mine /\ pageTimers' \subseteq Mine
    BY <1>4, NotKeptRemoves DEF TypeOK, ReceiveFailed, NotKept
  <2>4. SocketTyped' /\ StorageTyped'
    BY <1>1, <1>4, <2>3, Parts DEF ReceiveFailed, Receive, SocketTyped, StorageTyped
  <2>5. WaitingTyped' /\ PageTyped' /\ HistoryTyped'
    BY <1>4, <2>2, <2>3, Parts DEF ReceiveFailed, WaitingTyped, PageTyped, HistoryTyped
  <2> QED
    BY <1>4, <2>4, <2>5, Parts, Unchanged DEF ReceiveFailed
<1> QED
  BY <1>2, <1>3, <1>4

LEMMA ReplayingTyped ==
    ASSUME TypeOK, NEW q \in replays, HandleReplay(q) \/ ReplayFails(q) \/ Replayed(q)
    PROVE  TypeOK'
<1>1. q.from \in Nat /\ q.rows \subseteq Rows
  BY DEF TypeOK, Replays
<1>2. CASE HandleReplay(q)
  <2>1. replays' \subseteq Replays
    <3>1. PICK found \in SUBSET rows :
            replays' = (replays \ {q}) \union {[q EXCEPT !.answered = TRUE, !.rows = found]}
      BY <1>2 DEF HandleReplay
    <3>2. [q EXCEPT !.answered = TRUE, !.rows = found] \in Replays
      BY DEF TypeOK, Replays
    <3> QED
      BY <3>1, <3>2 DEF TypeOK
  <2> QED
    BY <1>2, <2>1, Parts, Unchanged DEF HandleReplay, WaitingTyped
<1>3. CASE ReplayFails(q)
  <2>1. CountersTyped'
    BY <1>3, Parts, Counted DEF ReplayFails
  <2> QED
    BY <1>3, <2>1, Parts, Unchanged DEF ReplayFails, WaitingTyped, HistoryTyped
<1>4. CASE Replayed(q)
  <2>1. PICK last \in {q.from} \union {r.id : r \in q.rows} :
          /\ cursor' = Larger(cursor, last)
          /\ replays' = (replays \ {q}) \union NextPage(q, last)
    BY <1>4 DEF Replayed
  <2>2. last \in Nat
    BY <1>1, <2>1 DEF Rows
  <2>3. cursor' \in Nat /\ replays' \subseteq Replays
    BY <2>1, <2>2, LargerTyped, NextPageTyped DEF TypeOK
  <2>4. view' \in [Mine -> {"none", "pending", "sent", "failed"}] /\ pageTimers' \subseteq Mine
    BY <1>4 DEF TypeOK, Replayed
  <2>5. given' \subseteq Theirs /\ halted' \in BOOLEAN
    BY <1>4 DEF TypeOK, Replayed, Given
  <2> QED
    BY <1>4, <2>3, <2>4, <2>5, Parts, Unchanged
       DEF Replayed, StorageTyped, WaitingTyped, PageTyped, HistoryTyped
<1> QED
  BY <1>2, <1>3, <1>4

LEMMA LoadingTyped ==
    ASSUME TypeOK, Focus \/ HandleLoad \/ Loaded
    PROVE  TypeOK'
<1>1. PageTyped'
  BY Parts DEF Focus, HandleLoad, Loaded, PageTyped, Loads
<1>2. CountersTyped'
  BY Parts, Counted DEF Focus, HandleLoad, Loaded
<1> QED
  BY <1>1, <1>2, Parts, Unchanged DEF Focus, HandleLoad, Loaded
-----------------------------------------------------------------------------
(* Every step keeps what is known of stored messages. *)

LEMMA StoredMeans == \A m : (Stored(m) <=> m \in StoredMessages) /\ (Stored(m)' <=> m \in StoredMessages')
BY DEF Stored, StoredMessages

LEMMA StoredStays == rows \subseteq rows' => StoredMessages \subseteq StoredMessages'
BY DEF StoredMessages

\* Steps that store nothing, remove nothing from the outbox and prove nothing new.
LEMMA CalmKnown ==
    ASSUME Known, UNCHANGED <<rows, begun, due, outbox, handed, dropped, told>>,
           \A p \in posts' : p \in posts \/ p.state = "asked",
           \A i \in DOMAIN inbox' : \/ inbox'[i].type = "connected"
                                    \/ \E j \in DOMAIN inbox : inbox'[i] = inbox[j]
    PROVE  Known'
<1>1. StoredMessages' = StoredMessages
  BY DEF StoredMessages
<1>2. PostsTrue'
  BY <1>1 DEF Known, PostsTrue
<1>3. EventsTrue'
  BY <1>1 DEF Known, EventsTrue
<1>4. DueTrue' /\ BegunTheirs' /\ StoredOnce' /\ NothingIsLost'
  BY <1>1, StoredMeans DEF Known, DueTrue, BegunTheirs, StoredOnce, NothingIsLost
<1> QED
  BY <1>2, <1>3, <1>4 DEF Known

\* What Sent adds to the inbox.
LEMMA SentKnown ==
    ASSUME inbox \in Seq(Events), NEW events \in Seq(Events), Sent(events), EventsTrue,
           rows \subseteq rows',
           \A i \in DOMAIN events : events[i].type \in {"created", "ack"} =>
                                        events[i].msg \in StoredMessages'
    PROVE  EventsTrue'
<1>1. SUFFICES ASSUME NEW i \in DOMAIN inbox', inbox'[i].type \in {"created", "ack"}
               PROVE  inbox'[i].msg \in StoredMessages'
  BY DEF EventsTrue
<1>2. CASE inbox' = inbox
  BY <1>1, <1>2, StoredStays DEF EventsTrue
<1>3. CASE inbox' = inbox \o events
  <2>1. /\ DOMAIN inbox = 1 .. Len(inbox) /\ DOMAIN events = 1 .. Len(events)
        /\ i \in 1 .. Len(inbox) + Len(events)
        /\ Len(inbox) \in Nat /\ Len(events) \in Nat
    BY <1>1, <1>3
  <2>2. CASE i <= Len(inbox)
    <3>1. i \in DOMAIN inbox /\ inbox'[i] = inbox[i]
      BY <1>3, <2>1, <2>2
    <3> QED
      BY <1>1, <3>1, StoredStays DEF EventsTrue
  <2>3. CASE i > Len(inbox)
    <3>1. i - Len(inbox) \in DOMAIN events /\ inbox'[i] = events[i - Len(inbox)]
      BY <1>3, <2>1, <2>3
    <3> QED
      BY <1>1, <3>1
  <2> QED
    BY <2>1, <2>2, <2>3
<1> QED
  BY <1>2, <1>3 DEF Sent

\* What storing a message of the member's own changes.
LEMMA PersistKnown ==
    ASSUME TypeOK, Known, NEW m \in Mine, NEW late, Persist(m, late), UNCHANGED begun
    PROVE  /\ rows \subseteq rows' /\ m \in StoredMessages'
           /\ StoredOnce' /\ DueTrue' /\ BegunTheirs'
<1>1. rows \subseteq rows' /\ m \in StoredMessages'
  BY DEF Persist, Stored, StoredMessages
<1>2. StoredOnce'
  <2>1. \A r \in rows \union begun : Stored(m) \/ r.msg # m
    BY MessagesAssumption DEF Known, BegunTheirs, Stored
  <2> QED
    BY <2>1 DEF Persist, Known, StoredOnce
<1>3. DueTrue'
  BY <1>1, StoredStays DEF Persist, Known, DueTrue
<1> QED
  BY <1>1, <1>2, <1>3 DEF Known, BegunTheirs

LEMMA PublishedKnown ==
    ASSUME NEW m \in Mine, NEW late, m \in StoredMessages'
    PROVE  \A i \in DOMAIN Published(m, late) :
               Published(m, late)[i].type \in {"created", "ack"} =>
                   Published(m, late)[i].msg \in StoredMessages'
<1>1. CASE Published(m, late) = <<>>
  BY <1>1
<1>2. CASE Published(m, late) = <<Event("created", m)>>
  BY <1>2 DEF Event
<1> QED
  BY <1>1, <1>2 DEF Published

\* What stays known when rows are added.
LEMMA GrownKnown ==
    ASSUME Known, rows \subseteq rows'
    PROVE  /\ UNCHANGED inbox => EventsTrue'
           /\ UNCHANGED posts => PostsTrue'
           /\ UNCHANGED <<outbox, handed, dropped, told>> => NothingIsLost'
<1>1. StoredMessages \subseteq StoredMessages'
  BY StoredStays
<1> QED
  BY <1>1, StoredMeans DEF Known, EventsTrue, PostsTrue, NothingIsLost

LEMMA PublishKnown ==
    ASSUME TypeOK, Known, NEW m \in due, Publish(m)
    PROVE  Known'
<1>1. m \in Messages /\ m \in StoredMessages /\ rows' = rows /\ StoredMessages' = StoredMessages
  BY DEF TypeOK, Known, DueTrue, Publish, StoredMessages
<1>2. EventsTrue'
  <2>1. <<Event("created", m)>> \in Seq(Events)
    BY <1>1, EventTyped
  <2>2. \A i \in DOMAIN <<Event("created", m)>> : <<Event("created", m)>>[i].msg \in StoredMessages'
    BY <1>1 DEF Event
  <2> QED
    BY <1>1, <2>1, <2>2, SentKnown DEF TypeOK, Known, Publish
<1>3. PostsTrue' /\ NothingIsLost'
  BY <1>1, GrownKnown DEF Publish, waiting, storage, history
<1>4. DueTrue' /\ BegunTheirs' /\ StoredOnce'
  BY <1>1 DEF Publish, Known, DueTrue, BegunTheirs, StoredOnce
<1> QED
  BY <1>2, <1>3, <1>4 DEF Known

LEMMA InsertKnown ==
    ASSUME TypeOK, Known, NEW m \in Theirs, Insert(m)
    PROVE  Known'
<1>1. rows' = rows /\ StoredMessages' = StoredMessages
  BY DEF Insert, StoredMessages
<1>2. EventsTrue' /\ PostsTrue' /\ NothingIsLost'
  BY <1>1, GrownKnown DEF Insert, socket, waiting, storage, history
<1>3. DueTrue' /\ BegunTheirs'
  BY <1>1 DEF Insert, Known, DueTrue, BegunTheirs
<1>4. StoredOnce'
  BY DEF Insert, Known, StoredOnce
<1> QED
  BY <1>2, <1>3, <1>4 DEF Known

LEMMA CommitKnown ==
    ASSUME TypeOK, Known, NEW r \in begun, Commit(r)
    PROVE  Known'
<1>1. rows \subseteq rows' /\ r.msg \in StoredMessages'
  BY DEF Commit, StoredMessages
<1>2. EventsTrue' /\ PostsTrue' /\ NothingIsLost'
  BY <1>1, GrownKnown DEF Commit, socket, waiting, storage, history
<1>3. DueTrue'
  BY <1>1, StoredStays DEF Commit, Known, DueTrue
<1>4. BegunTheirs' /\ StoredOnce'
  BY DEF Commit, Known, BegunTheirs, StoredOnce
<1> QED
  BY <1>2, <1>3, <1>4 DEF Known

LEMMA HandleSendKnown ==
    ASSUME TypeOK, Known, HandleSend
    PROVE  Known'
<1> DEFINE m == Head(wire)
<1>1. m \in Mine
  BY HeadTailProperties DEF TypeOK, HandleSend
<1>2. CASE Persist(m, FALSE) /\ Sent(Published(m, FALSE) \o <<Event("ack", m)>>)
  <2> DEFINE published == Published(m, FALSE)
             answer    == <<Event("ack", m)>>
  <2>1. /\ rows \subseteq rows' /\ m \in StoredMessages'
        /\ StoredOnce' /\ DueTrue' /\ BegunTheirs'
    BY <1>1, <1>2, PersistKnown DEF HandleSend
  <2>2. published \in Seq(Events) /\ answer \in Seq(Events)
    <3>1. published \in Seq(Events)
      BY <1>1, PublishedTyped
    <3>2. answer \in Seq(Events)
      BY <1>1, EventTyped
    <3> QED
      BY <3>1, <3>2
  <2>3. \A i \in DOMAIN published : published[i].type \in {"created", "ack"} =>
                                        published[i].msg \in StoredMessages'
    BY <1>1, <2>1, PublishedKnown
  <2>4. \A i \in DOMAIN answer : answer[i].msg \in StoredMessages'
    BY <2>1 DEF Event
  <2>5. Sent(published \o answer)
    BY <1>2
  <2> HIDE DEF published, answer
  <2>6. /\ published \o answer \in Seq(Events)
        /\ \A i \in DOMAIN (published \o answer) :
             (published \o answer)[i].type \in {"created", "ack"} =>
               (published \o answer)[i].msg \in StoredMessages'
    <3>1. /\ published \o answer \in Seq(Events)
          /\ Len(published \o answer) = Len(published) + Len(answer)
          /\ \A i \in 1 .. Len(published) + Len(answer) : (published \o answer)[i] =
               IF i <= Len(published) THEN published[i] ELSE answer[i - Len(published)]
      BY <2>2, ConcatProperties
    <3>2. \A i \in 1 .. Len(published) + Len(answer) :
             i > Len(published) => i - Len(published) \in DOMAIN answer
      BY <2>2
    <3> QED
      BY <2>2, <2>3, <2>4, <3>1, <3>2
  <2>7. EventsTrue'
    BY <2>1, <2>5, <2>6, SentKnown DEF TypeOK, Known
  <2>8. PostsTrue' /\ NothingIsLost'
    BY <2>1, GrownKnown DEF HandleSend, waiting, storage, history
  <2> QED
    BY <2>1, <2>7, <2>8 DEF Known
<1>3. CASE Sent(<<Event("failed", m)>>) /\ UNCHANGED <<rows, nextId, due>>
  <2>1. /\ <<Event("failed", m)>> \in Seq(Events)
        /\ \A i \in DOMAIN <<Event("failed", m)>> :
              <<Event("failed", m)>>[i].type \notin {"created", "ack"}
    <3>1. <<Event("failed", m)>> \in Seq(Events)
      BY <1>1, EventTyped
    <3>2. \A i \in DOMAIN <<Event("failed", m)>> :
              <<Event("failed", m)>>[i].type \notin {"created", "ack"}
      BY DEF Event
    <3> QED
      BY <3>1, <3>2
  <2>2. rows' = rows /\ StoredMessages' = StoredMessages
    BY <1>3 DEF StoredMessages
  <2>3. EventsTrue'
    BY <1>3, <2>1, <2>2, SentKnown DEF TypeOK, Known
  <2>4. PostsTrue' /\ NothingIsLost'
    BY <2>2, GrownKnown DEF HandleSend, waiting, storage, history
  <2>5. DueTrue' /\ BegunTheirs' /\ StoredOnce'
    BY <1>3, <2>2 DEF HandleSend, Known, DueTrue, BegunTheirs, StoredOnce
  <2> QED
    BY <2>3, <2>4, <2>5 DEF Known
<1> QED
  BY <1>2, <1>3 DEF HandleSend

LEMMA HandlePostKnown ==
    ASSUME TypeOK, Known, NEW p \in posts, HandlePost(p)
    PROVE  Known'
<1>1. p.msg \in Mine
  BY DEF TypeOK, Posts
<1>2. ASSUME NEW late \in BOOLEAN, NEW state \in {"stored", "failed"},
             Persist(p.msg, late), Becomes(p, state),
             UNCHANGED inbox \/ Sent(Published(p.msg, late))
      PROVE  Known'
  <2>1. /\ rows \subseteq rows' /\ p.msg \in StoredMessages'
        /\ StoredOnce' /\ DueTrue' /\ BegunTheirs'
    BY <1>1, <1>2, PersistKnown DEF HandlePost
  <2>2. EventsTrue'
    <3>1. CASE UNCHANGED inbox
      BY <2>1, <3>1, GrownKnown
    <3>2. CASE Sent(Published(p.msg, late))
      BY <1>1, <2>1, <3>2, PublishedTyped, PublishedKnown, SentKnown DEF TypeOK, Known
    <3> QED
      BY <1>2, <3>1, <3>2
  <2>3. PostsTrue'
    <3>1. StoredMessages \subseteq StoredMessages'
      BY <2>1, StoredStays
    <3> QED
      BY <1>2, <2>1, <3>1 DEF Known, PostsTrue, Becomes, TypeOK, Posts
  <2>4. NothingIsLost'
    BY <2>1, GrownKnown DEF HandlePost, storage, history
  <2> QED
    BY <2>1, <2>2, <2>3, <2>4 DEF Known
<1>3. CASE UNCHANGED <<rows, nextId, due, inbox>> /\ Becomes(p, "failed")
  <2>1. rows' = rows /\ StoredMessages' = StoredMessages
    BY <1>3 DEF StoredMessages
  <2>2. EventsTrue' /\ NothingIsLost'
    BY <1>3, <2>1, GrownKnown DEF HandlePost, storage, history
  <2>3. PostsTrue'
    BY <1>3, <2>1 DEF Known, PostsTrue, Becomes, TypeOK, Posts
  <2>4. DueTrue' /\ BegunTheirs' /\ StoredOnce'
    BY <1>3, <2>1 DEF HandlePost, Known, DueTrue, BegunTheirs, StoredOnce
  <2> QED
    BY <2>2, <2>3, <2>4 DEF Known
<1> QED
  BY <1>2, <1>3 DEF HandlePost

LEMMA WriteKnown ==
    ASSUME TypeOK, Known, NEW m \in Mine, Write(m)
    PROVE  Known'
<1>1. rows' = rows /\ StoredMessages' = StoredMessages
  BY DEF Write, server, StoredMessages
<1>2. EventsTrue'
  BY <1>1, GrownKnown DEF Write
<1>3. PostsTrue'
  <2>1. \A p \in posts' : p \in posts \/ p.state = "asked"
    BY DEF Write, WriteByPost, WriteToSocket, Post
  <2> QED
    BY <1>1, <2>1 DEF Known, PostsTrue
<1>4. NothingIsLost'
  <2>1. CASE WriteByPost(m)
    BY <1>1, <2>1, StoredMeans DEF Write, WriteByPost, Known, NothingIsLost
  <2>2. CASE WriteToSocket(m)
    <3>1. /\ Append(outbox, m) \in Seq(Mine) /\ Append(outbox, m) # <<>>
          /\ Append(outbox, m)[Len(Append(outbox, m))] = m
      BY AppendProperties DEF TypeOK
    <3>2. m \in Range(outbox')
      BY <2>2, <3>1, NewestKeepsLast DEF WriteToSocket
    <3>3. \A x \in Range(outbox) : x \in Range(outbox') \union dropped'
      BY <2>2 DEF WriteToSocket
    <3>4. handed' = handed \union {m} /\ dropped \subseteq dropped' /\ told' = told
      BY <2>2 DEF Write, WriteToSocket
    <3> QED
      BY <1>1, <3>2, <3>3, <3>4, StoredMeans DEF Known, NothingIsLost
  <2> QED
    BY <2>1, <2>2 DEF Write
<1>5. DueTrue' /\ BegunTheirs' /\ StoredOnce'
  BY <1>1 DEF Write, server, Known, DueTrue, BegunTheirs, StoredOnce
<1> QED
  BY <1>2, <1>3, <1>4, <1>5 DEF Known

\* What is kept no more is stored, or its failure is told.
LEMMA NotKeptKnown ==
    ASSUME TypeOK, Known, NEW m, NotKept(m), m \in StoredMessages \union told',
           UNCHANGED <<server, handed, dropped>>, told \subseteq told',
           \A p \in posts' : p \in posts \/ p.state = "asked",
           \A i \in DOMAIN inbox' : \E j \in DOMAIN inbox : inbox'[i] = inbox[j]
    PROVE  Known'
<1>1. rows' = rows /\ StoredMessages' = StoredMessages
  BY DEF server, StoredMessages
<1>2. EventsTrue' /\ PostsTrue'
  BY <1>1 DEF Known, EventsTrue, PostsTrue
<1>3. NothingIsLost'
  <2>1. \A x \in Range(outbox) : x = m \/ x \in Range(outbox')
    BY NotKeptRemoves DEF TypeOK
  <2> QED
    BY <1>1, <2>1, StoredMeans DEF Known, NothingIsLost
<1>4. DueTrue' /\ BegunTheirs' /\ StoredOnce'
  BY <1>1 DEF server, Known, DueTrue, BegunTheirs, StoredOnce
<1> QED
  BY <1>2, <1>3, <1>4 DEF Known

LEMMA PostedKnown ==
    ASSUME TypeOK, Known, NEW p \in posts, TimerPosted(p) \/ FlushPosted(p) \/ PagePosted(p)
    PROVE  Known'
<1>1. /\ UNCHANGED <<server, handed, dropped, inbox>> /\ told \subseteq told'
      /\ \A q \in posts' : q \in posts \/ q.state = "asked"
  BY DEF TimerPosted, FlushPosted, PagePosted, FirstPost, ShownFailed, socket, history, Post
<1>2. CASE outbox' = outbox
  <2>1. rows' = rows /\ StoredMessages' = StoredMessages
    BY <1>1 DEF server, StoredMessages
  <2>2. EventsTrue' /\ PostsTrue'
    BY <1>1, <2>1 DEF Known, EventsTrue, PostsTrue
  <2>3. NothingIsLost'
    BY <1>1, <1>2, <2>1, StoredMeans DEF Known, NothingIsLost
  <2>4. DueTrue' /\ BegunTheirs' /\ StoredOnce'
    BY <1>1, <2>1 DEF server, Known, DueTrue, BegunTheirs, StoredOnce
  <2> QED
    BY <2>2, <2>3, <2>4 DEF Known
<1>3. CASE p.state = "stored" /\ NotKept(p.msg)
  <2>1. p.msg \in StoredMessages
    BY <1>3 DEF Known, PostsTrue
  <2> QED
    BY <1>1, <1>3, <2>1, NotKeptKnown
<1> QED
  BY <1>2, <1>3 DEF TimerPosted, FlushPosted, PagePosted, storage

\* Reading an event leaves the others in the inbox.
LEMMA TailRead ==
    ASSUME TypeOK, Receive
    PROVE  /\ \A i \in DOMAIN inbox' : \E j \in DOMAIN inbox : inbox'[i] = inbox[j]
           /\ 1 \in DOMAIN inbox /\ Head(inbox) = inbox[1]
<1>1. inbox \in Seq(Events) /\ inbox # <<>> /\ inbox' = Tail(inbox)
  BY DEF TypeOK, Receive
<1>2. /\ \A i \in DOMAIN inbox' : i + 1 \in DOMAIN inbox /\ inbox'[i] = inbox[i + 1]
  BY <1>1
<1> QED
  BY <1>1, <1>2

LEMMA ReceivingKnown ==
    ASSUME TypeOK, Known, ReceiveConnected \/ ReceiveMessage \/ ReceiveFailed
    PROVE  Known'
<1>1. /\ \A i \in DOMAIN inbox' : \E j \in DOMAIN inbox : inbox'[i] = inbox[j]
      /\ 1 \in DOMAIN inbox /\ Head(inbox) = inbox[1]
  BY TailRead DEF ReceiveConnected, ReceiveMessage, ReceiveFailed
<1>2. CASE ReceiveConnected
  BY <1>1, <1>2, CalmKnown DEF ReceiveConnected, FirstPost, server, storage, Post
<1>3. CASE ReceiveMessage
  <2>1. Head(inbox).msg \in StoredMessages
    BY <1>1, <1>3 DEF ReceiveMessage, Known, EventsTrue
  <2> QED
    BY <1>1, <1>3, <2>1, NotKeptKnown DEF ReceiveMessage
<1>4. CASE ReceiveFailed
  BY <1>1, <1>4, NotKeptKnown DEF ReceiveFailed, ShownFailed
<1> QED
  BY <1>2, <1>3, <1>4

LEMMA ConnectionKnown ==
    ASSUME TypeOK, Known, Connect \/ Greet \/ LinkBreaks \/ Closed \/ Rerun \/ ReloadPage
    PROVE  Known'
<1>1. CASE Greet
  <2>1. \A i \in DOMAIN inbox' : \/ inbox'[i].type = "connected"
                                 \/ \E j \in DOMAIN inbox : inbox'[i] = inbox[j]
    <3>1. inbox \in Seq(Events) /\ inbox' = Append(inbox, [type |-> "connected"])
      BY <1>1 DEF TypeOK, Greet
    <3> QED
      BY <3>1
  <2> QED
    BY <1>1, <2>1, CalmKnown DEF Greet, server, storage, waiting, history
<1>2. CASE Connect \/ LinkBreaks \/ Closed \/ Rerun \/ ReloadPage
  BY <1>2, CalmKnown
     DEF Connect, LinkBreaks, Closed, Rerun, ReloadPage, Disconnected, server, storage, waiting,
         history
<1> QED
  BY <1>1, <1>2

LEMMA TimeoutKnown ==
    ASSUME TypeOK, Known, NEW m \in Mine, AckTimeout(m) \/ PageTimeout(m)
    PROVE  Known'
BY CalmKnown DEF AckTimeout, PageTimeout, server, socket, storage, history, Post

LEMMA ReplayingKnown ==
    ASSUME TypeOK, Known, NEW q \in replays, HandleReplay(q) \/ ReplayFails(q) \/ Replayed(q)
    PROVE  Known'
BY CalmKnown DEF HandleReplay, ReplayFails, Replayed, server, socket, storage, history

LEMMA LoadingKnown ==
    ASSUME TypeOK, Known, Focus \/ HandleLoad \/ Loaded
    PROVE  Known'
BY CalmKnown DEF Focus, HandleLoad, Loaded, server, socket, storage, waiting, history
-----------------------------------------------------------------------------
(* The theorems. *)

Sound == TypeOK /\ Known

LEMMA SoundInit == Init => Sound
<1> SUFFICES ASSUME Init
             PROVE  Sound
  OBVIOUS
<1>1. ServerTyped /\ StorageTyped /\ WaitingTyped /\ PageTyped /\ HistoryTyped
  <2>1. <<>> \in Seq(Mine)
    BY EmptySeq
  <2> QED
    BY <2>1 DEF Init, ServerTyped, StorageTyped, WaitingTyped, PageTyped, HistoryTyped, Loads
<1>2. SocketTyped
  <2>1. <<>> \in Seq(Events) /\ <<>> \in Seq(Mine)
    BY EmptySeq
  <2> QED
    BY <2>1 DEF Init, SocketTyped
<1>3. CountersTyped
  BY BoundsAssumption DEF Init, CountersTyped
<1>4. TypeOK
  BY <1>1, <1>2, <1>3
     DEF TypeOK, ServerTyped, SocketTyped, StorageTyped, WaitingTyped, PageTyped, HistoryTyped,
         CountersTyped
<1>5. PostsTrue /\ EventsTrue /\ DueTrue
  BY DEF Init, PostsTrue, EventsTrue, DueTrue
<1>6. BegunTheirs /\ StoredOnce /\ NothingIsLost
  BY DEF Init, BegunTheirs, StoredOnce, NothingIsLost
<1> QED
  BY <1>4, <1>5, <1>6 DEF Sound, Known

LEMMA SoundNext == Sound /\ [Next]_vars => Sound'
<1>1. ASSUME Sound, UNCHANGED vars
      PROVE  Sound'
  <2>1. TypeOK'
    BY <1>1, Parts, Unchanged DEF Sound, vars
  <2>2. Known'
    BY <1>1, CalmKnown DEF Sound, vars, server, socket, storage, waiting, history
  <2> QED
    BY <2>1, <2>2 DEF Sound
<1>2. ASSUME TypeOK, Known, Next
      PROVE  TypeOK' /\ Known'
  <2>1. ASSUME NEW m \in Theirs, Insert(m)
        PROVE  TypeOK' /\ Known'
    BY <1>2, <2>1, InsertTyped, InsertKnown
  <2>2. ASSUME NEW r \in begun, Commit(r)
        PROVE  TypeOK' /\ Known'
    BY <1>2, <2>2, CommitTyped, CommitKnown
  <2>3. ASSUME NEW m \in due, Publish(m)
        PROVE  TypeOK' /\ Known'
    BY <1>2, <2>3, PublishTyped, PublishKnown
  <2>4. CASE HandleSend
    BY <1>2, <2>4, HandleSendTyped, HandleSendKnown
  <2>5. ASSUME NEW p \in posts, HandlePost(p)
        PROVE  TypeOK' /\ Known'
    BY <1>2, <2>5, HandlePostTyped, HandlePostKnown
  <2>6. CASE Connect \/ Greet \/ LinkBreaks \/ Closed \/ Rerun \/ ReloadPage
    BY <1>2, <2>6, ConnectionTyped, ConnectionKnown
  <2>7. ASSUME NEW m \in Mine, Write(m) \/ AckTimeout(m) \/ PageTimeout(m)
        PROVE  TypeOK' /\ Known'
    BY <1>2, <2>7, WritingTyped, WriteKnown, TimeoutKnown
  <2>8. ASSUME NEW p \in posts, TimerPosted(p) \/ FlushPosted(p) \/ PagePosted(p)
        PROVE  TypeOK' /\ Known'
    BY <1>2, <2>8, PostedTyped, PostedKnown DEF Known
  <2>9. CASE ReceiveConnected \/ ReceiveMessage \/ ReceiveFailed
    BY <1>2, <2>9, ReceivingTyped, ReceivingKnown DEF Known
  <2>10. ASSUME NEW q \in replays, HandleReplay(q) \/ ReplayFails(q) \/ Replayed(q)
         PROVE  TypeOK' /\ Known'
    BY <1>2, <2>10, ReplayingTyped, ReplayingKnown
  <2>11. CASE Focus \/ HandleLoad \/ Loaded
    BY <1>2, <2>11, LoadingTyped, LoadingKnown
  <2> QED
    BY <1>2, <2>1, <2>2, <2>3, <2>4, <2>5, <2>6, <2>7, <2>8, <2>9, <2>10, <2>11 DEF Next
<1> QED
  BY <1>1, <1>2 DEF Sound

LEMMA SoundAlways == Spec => []Sound
BY SoundInit, SoundNext, PTL DEF Spec

\* Every reachable state is well typed.
THEOREM MessagesTypeCorrectness == Spec => []TypeOK
BY SoundAlways, PTL DEF Sound

\* A message handed to sendRealtimeMessage is stored, kept, its failure told, or it
\* was pushed out by newer ones, whatever breaks, times out, is repeated or reloaded.
THEOREM MessagesAreKept == Spec => []NothingIsLost
BY SoundAlways, PTL DEF Sound, Known

\* No message is stored twice, however many of its senders race.
THEOREM MessagesAreStoredOnce == Spec => []StoredOnce
BY SoundAlways, PTL DEF Sound, Known
-----------------------------------------------------------------------------
(* What others write while a connection lasts. *)

\* A connection is ready only after realtime.connected, which is in the inbox only
\* while the connection is up.
Greeted ==
    /\ link \in {"down", "opened"} => ~ready
    /\ link # "up" => \A i \in DOMAIN inbox : inbox[i].type # "connected"

Whole == Greeted /\ ConnectionIsComplete

LEMMA StillOnItsWay ==
    ASSUME NEW r, OnItsWay(r), due \subseteq due', replays \subseteq replays',
           \A i \in DOMAIN inbox : \E j \in DOMAIN inbox' : inbox'[j] = inbox[i]
    PROVE  OnItsWay(r)'
<1>1. CASE \E i \in DOMAIN inbox : inbox[i] = Event("created", r.msg)
  BY <1>1 DEF OnItsWay
<1>2. CASE r.msg \in due
  BY <1>2 DEF OnItsWay
<1>3. CASE \E q \in replays : Covers(q, r)
  BY <1>3 DEF OnItsWay, Covers, Full
<1> QED
  BY <1>1, <1>2, <1>3 DEF OnItsWay

\* Steps of an unchanged connection that only add to what is on its way: a new row
\* of others is due.
LEMMA AddingWhole ==
    ASSUME Whole, UNCHANGED <<link, ready, passed, halted>>,
           given \subseteq given', due \subseteq due', replays \subseteq replays',
           \A r \in rows' : r.msg \in Theirs => r \in rows \/ r.msg \in due',
           \A i \in DOMAIN inbox : \E j \in DOMAIN inbox' : inbox'[j] = inbox[i],
           \A j \in DOMAIN inbox' : \/ inbox'[j].type # "connected"
                                    \/ \E i \in DOMAIN inbox : inbox'[j] = inbox[i]
    PROVE  Whole'
<1>1. Greeted'
  BY DEF Whole, Greeted
<1>2. ConnectionIsComplete'
  <2>1. \A r \in rows : OnItsWay(r) => OnItsWay(r)'
    BY StillOnItsWay
  <2>2. \A r : r.msg \in due' => OnItsWay(r)'
    BY DEF OnItsWay
  <2> QED
    BY <2>1, <2>2 DEF Whole, ConnectionIsComplete
<1> QED
  BY <1>1, <1>2 DEF Whole

\* What Sent adds is added at the end, while a socket is registered.
LEMMA SentAdds ==
    ASSUME inbox \in Seq(Events), NEW events \in Seq(Events), Sent(events),
           \A i \in DOMAIN events : events[i].type # "connected"
    PROVE  /\ \A i \in DOMAIN inbox : \E j \in DOMAIN inbox' : inbox'[j] = inbox[i]
           /\ \A j \in DOMAIN inbox' : \/ inbox'[j].type # "connected"
                                       \/ \E i \in DOMAIN inbox : inbox'[j] = inbox[i]
           /\ link = "up" => \A i \in DOMAIN events : \E j \in DOMAIN inbox' : inbox'[j] = events[i]
<1>1. CASE inbox' = inbox /\ link # "up"
  BY <1>1
<1>2. CASE inbox' = inbox \o events
  <2>1. /\ DOMAIN inbox = 1 .. Len(inbox) /\ DOMAIN events = 1 .. Len(events)
        /\ Len(inbox) \in Nat /\ Len(events) \in Nat
        /\ DOMAIN inbox' = 1 .. Len(inbox) + Len(events)
    BY <1>2
  <2>2. \A i \in DOMAIN inbox : i \in DOMAIN inbox' /\ inbox'[i] = inbox[i]
    BY <1>2, <2>1
  <2>3. \A i \in DOMAIN events : /\ Len(inbox) + i \in DOMAIN inbox'
                                 /\ inbox'[Len(inbox) + i] = events[i]
    BY <1>2, <2>1
  <2>4. \A j \in DOMAIN inbox' : \/ j \in DOMAIN inbox
                                 \/ /\ j - Len(inbox) \in DOMAIN events
                                    /\ inbox'[j] = events[j - Len(inbox)]
    BY <1>2, <2>1
  <2> QED
    BY <2>2, <2>3, <2>4
<1> QED
  BY <1>1, <1>2 DEF Sent

\* Storing a message of the member's own adds no row of others.
LEMMA PersistAdds ==
    ASSUME NEW m \in Mine, NEW late, Persist(m, late)
    PROVE  due \subseteq due' /\ \A r \in rows' : r.msg \in Theirs => r \in rows
<1>1. m \notin Theirs
  BY MessagesAssumption
<1> QED
  BY <1>1 DEF Persist

LEMMA PublishedEvents ==
    ASSUME NEW m \in Mine, NEW late
    PROVE  \A i \in DOMAIN Published(m, late) : Published(m, late)[i].type # "connected"
<1>1. CASE Published(m, late) = <<>>
  BY <1>1
<1>2. CASE Published(m, late) = <<Event("created", m)>>
  BY <1>2 DEF Event
<1> QED
  BY <1>1, <1>2 DEF Published

LEMMA PublishWhole ==
    ASSUME TypeOK, Whole, NEW m \in due, Publish(m)
    PROVE  Whole'
<1> DEFINE events == <<Event("created", m)>>
<1>1. events \in Seq(Events) /\ \A i \in DOMAIN events : events[i].type # "connected"
  <2>1. m \in Messages
    BY DEF TypeOK
  <2>2. events \in Seq(Events)
    BY <2>1, EventTyped
  <2>3. \A i \in DOMAIN events : events[i].type # "connected"
    BY DEF Event
  <2> QED
    BY <2>2, <2>3
<1>2. 1 \in DOMAIN events /\ events[1] = Event("created", m)
  OBVIOUS
<1>3. Sent(events) /\ UNCHANGED <<rows, link, ready, passed, halted, given, replays>>
  BY DEF Publish, waiting, history
<1> HIDE DEF events
<1>4. /\ \A i \in DOMAIN inbox : \E j \in DOMAIN inbox' : inbox'[j] = inbox[i]
      /\ \A j \in DOMAIN inbox' : \/ inbox'[j].type # "connected"
                                  \/ \E i \in DOMAIN inbox : inbox'[j] = inbox[i]
      /\ link = "up" => \E j \in DOMAIN inbox' : inbox'[j] = Event("created", m)
  BY <1>1, <1>2, <1>3, SentAdds DEF TypeOK
<1>5. CASE UNCHANGED due
  BY <1>3, <1>4, <1>5, AddingWhole
<1>6. CASE due' = due \ {m}
  <2>1. Greeted'
    BY <1>3, <1>4 DEF Whole, Greeted
  <2>2. ASSUME link = "up", NEW r \in rows, OnItsWay(r)
        PROVE  OnItsWay(r)'
    <3>1. CASE r.msg = m
      BY <1>4, <2>2, <3>1 DEF OnItsWay, Event
    <3>2. CASE r.msg \in due /\ r.msg # m
      BY <1>6, <3>2 DEF OnItsWay
    <3>3. CASE \E i \in DOMAIN inbox : inbox[i] = Event("created", r.msg)
      BY <1>4, <3>3 DEF OnItsWay, Event
    <3>4. CASE \E q \in replays : Covers(q, r)
      BY <1>3, <3>4 DEF OnItsWay, Covers, Full
    <3> QED
      BY <2>2, <3>1, <3>2, <3>3, <3>4 DEF OnItsWay
  <2>3. ConnectionIsComplete'
    BY <1>3, <2>2 DEF Whole, ConnectionIsComplete
  <2> QED
    BY <2>1, <2>3 DEF Whole
<1> QED
  BY <1>5, <1>6 DEF Publish

LEMMA ConcatEvents ==
    ASSUME NEW a \in Seq(Events), NEW b \in Seq(Events),
           \A i \in DOMAIN a : a[i].type # "connected",
           \A i \in DOMAIN b : b[i].type # "connected"
    PROVE  a \o b \in Seq(Events) /\ \A i \in DOMAIN (a \o b) : (a \o b)[i].type # "connected"
<1>1. /\ a \o b \in Seq(Events)
      /\ DOMAIN a = 1 .. Len(a) /\ DOMAIN b = 1 .. Len(b) /\ Len(a) \in Nat /\ Len(b) \in Nat
      /\ DOMAIN (a \o b) = 1 .. Len(a) + Len(b)
  BY ConcatProperties
<1>2. \A i \in DOMAIN (a \o b) : \/ i \in DOMAIN a /\ (a \o b)[i] = a[i]
                                 \/ i - Len(a) \in DOMAIN b /\ (a \o b)[i] = b[i - Len(a)]
  BY <1>1
<1> QED
  BY <1>1, <1>2

LEMMA StoringWhole ==
    ASSUME TypeOK, Whole,
           \/ \E m \in Theirs : Insert(m)
           \/ \E r \in begun : Commit(r)
           \/ HandleSend
           \/ \E p \in posts : HandlePost(p)
    PROVE  Whole'
<1>1. CASE \E m \in Theirs : Insert(m)
  BY <1>1, AddingWhole DEF Insert, socket, waiting, history
<1>2. CASE \E r \in begun : Commit(r)
  BY <1>2, AddingWhole DEF Commit, socket, waiting, history
<1>3. CASE HandleSend
  <2> DEFINE m == Head(wire)
  <2>1. m \in Mine
    BY <1>3, HeadTailProperties DEF TypeOK, HandleSend
  <2>2. PICK events \in Seq(Events) : /\ Sent(events)
                                      /\ \A i \in DOMAIN events : events[i].type # "connected"
    <3>1. <<Event("ack", m)>> \in Seq(Events) /\ <<Event("failed", m)>> \in Seq(Events)
      BY <2>1, EventTyped
    <3>2. /\ \A i \in DOMAIN <<Event("failed", m)>> : <<Event("failed", m)>>[i].type # "connected"
          /\ \A i \in DOMAIN <<Event("ack", m)>> : <<Event("ack", m)>>[i].type # "connected"
      BY DEF Event
    <3>3. Published(m, FALSE) \in Seq(Events)
      BY <2>1, PublishedTyped
    <3>4. \A i \in DOMAIN Published(m, FALSE) : Published(m, FALSE)[i].type # "connected"
      BY <2>1, PublishedEvents
    <3> DEFINE both == Published(m, FALSE) \o <<Event("ack", m)>>
    <3>5. both \in Seq(Events) /\ \A i \in DOMAIN both : both[i].type # "connected"
      BY <3>1, <3>2, <3>3, <3>4, ConcatEvents
    <3>6. Sent(both) \/ Sent(<<Event("failed", m)>>)
      BY <1>3 DEF HandleSend
    <3> HIDE DEF both
    <3> QED
      BY <3>1, <3>2, <3>5, <3>6
  <2>3. due \subseteq due' /\ \A r \in rows' : r.msg \in Theirs => r \in rows
    BY <1>3, <2>1, PersistAdds DEF HandleSend
  <2>4. UNCHANGED <<link, ready, passed, halted, given, replays>>
    BY <1>3 DEF HandleSend, waiting, history
  <2>5. /\ \A i \in DOMAIN inbox : \E j \in DOMAIN inbox' : inbox'[j] = inbox[i]
        /\ \A j \in DOMAIN inbox' : \/ inbox'[j].type # "connected"
                                    \/ \E i \in DOMAIN inbox : inbox'[j] = inbox[i]
    BY <2>2, SentAdds DEF TypeOK
  <2> QED
    BY <2>3, <2>4, <2>5, AddingWhole
<1>4. ASSUME NEW p \in posts, HandlePost(p)
      PROVE  Whole'
  <2>1. p.msg \in Mine
    BY DEF TypeOK, Posts
  <2>2. due \subseteq due' /\ \A r \in rows' : r.msg \in Theirs => r \in rows
    BY <1>4, <2>1, PersistAdds DEF HandlePost
  <2>3. UNCHANGED <<link, ready, passed, halted, given, replays>>
    BY <1>4 DEF HandlePost, history
  <2>4. CASE UNCHANGED inbox
    BY <2>2, <2>3, <2>4, AddingWhole
  <2>5. CASE Sent(Published(p.msg, FALSE))
    <3>1. /\ \A i \in DOMAIN inbox : \E j \in DOMAIN inbox' : inbox'[j] = inbox[i]
          /\ \A j \in DOMAIN inbox' : \/ inbox'[j].type # "connected"
                                      \/ \E i \in DOMAIN inbox : inbox'[j] = inbox[i]
      BY <2>1, <2>5, PublishedTyped, PublishedEvents, SentAdds DEF TypeOK
    <3> QED
      BY <2>2, <2>3, <3>1, AddingWhole
  <2> QED
    BY <1>4, <2>4, <2>5 DEF HandlePost
<1> QED
  BY <1>1, <1>2, <1>3, <1>4

LEMMA ConnectionWhole ==
    ASSUME TypeOK, Whole, Connect \/ Greet \/ LinkBreaks \/ Closed \/ Rerun \/ ReloadPage
    PROVE  Whole'
<1>1. ~(link' = "up" /\ ready')
  BY DEF Connect, Greet, LinkBreaks, Closed, Rerun, ReloadPage, Disconnected, Whole, Greeted
<1>2. Greeted'
  BY DEF Connect, Greet, LinkBreaks, Closed, Rerun, ReloadPage, Disconnected, Whole, Greeted
<1> QED
  BY <1>1, <1>2 DEF Whole, ConnectionIsComplete

LEMMA WritingWhole ==
    ASSUME Whole, NEW m \in Mine, Write(m) \/ AckTimeout(m) \/ PageTimeout(m)
    PROVE  Whole'
<1>1. UNCHANGED <<rows, due, link, ready, inbox, replays, given, passed, halted>>
  BY DEF Write, AckTimeout, PageTimeout, server, socket, history
<1> QED
  BY <1>1, AddingWhole

LEMMA PostedWhole ==
    ASSUME Whole, NEW p \in posts, TimerPosted(p) \/ FlushPosted(p) \/ PagePosted(p)
    PROVE  Whole'
<1>1. UNCHANGED <<rows, due, link, ready, inbox, replays, given, passed, halted>>
  BY DEF TimerPosted, FlushPosted, PagePosted, server, socket, history
<1> QED
  BY <1>1, AddingWhole

LEMMA LoadingWhole ==
    ASSUME Whole, Focus \/ HandleLoad \/ Loaded
    PROVE  Whole'
<1>1. UNCHANGED <<rows, due, link, ready, inbox, replays, given, passed, halted>>
  BY DEF Focus, HandleLoad, Loaded, server, socket, waiting, history
<1> QED
  BY <1>1, AddingWhole

\* The event that is read was not the one waited for.
LEMMA ReadingKeeps ==
    ASSUME TypeOK, Receive, NEW r, OnItsWay(r), due \subseteq due', replays \subseteq replays'
    PROVE  Head(inbox) = Event("created", r.msg) \/ OnItsWay(r)'
<1>1. inbox \in Seq(Events) /\ inbox # <<>> /\ inbox' = Tail(inbox)
  BY DEF TypeOK, Receive
<1>2. CASE \E i \in DOMAIN inbox : inbox[i] = Event("created", r.msg)
  <2>1. PICK i \in DOMAIN inbox : inbox[i] = Event("created", r.msg)
    BY <1>2
  <2>2. CASE i = 1
    BY <1>1, <2>1, <2>2
  <2>3. CASE i # 1
    <3>1. i - 1 \in DOMAIN inbox' /\ inbox'[i - 1] = inbox[i]
      BY <1>1, <2>3
    <3> QED
      BY <2>1, <3>1 DEF OnItsWay
  <2> QED
    BY <2>2, <2>3
<1>3. CASE r.msg \in due
  BY <1>3 DEF OnItsWay
<1>4. CASE \E q \in replays : Covers(q, r)
  BY <1>4 DEF OnItsWay, Covers, Full
<1> QED
  BY <1>2, <1>3, <1>4 DEF OnItsWay

LEMMA ReceivingWhole ==
    ASSUME TypeOK, Whole, ReceiveConnected \/ ReceiveMessage \/ ReceiveFailed
    PROVE  Whole'
<1>1. UNCHANGED <<rows, due, link>> /\ Receive
  BY DEF ReceiveConnected, ReceiveMessage, ReceiveFailed, Receive, server
<1>2. /\ \A i \in DOMAIN inbox' : \E j \in DOMAIN inbox : inbox'[i] = inbox[j]
      /\ 1 \in DOMAIN inbox /\ Head(inbox) = inbox[1]
  BY <1>1, TailRead
<1>3. CASE ReceiveConnected
  <2> DEFINE q == Replay(cursor, 1)
  <2>1. link = "up"
    BY <1>2, <1>3 DEF ReceiveConnected, Whole, Greeted
  <2>2. Greeted'
    BY <1>1, <2>1 DEF Greeted
  <2>3. q \in replays' /\ passed' = {r \in rows : r.id <= cursor}
    BY <1>3 DEF ReceiveConnected, ReplayBegins
  <2>4. q.from = cursor /\ q.answered = FALSE
    BY DEF Replay
  <2> HIDE DEF q
  <2>5. ASSUME NEW r \in rows \ passed'
        PROVE  OnItsWay(r)'
    <3>1. cursor < r.id
      BY <2>3, <2>5 DEF TypeOK, Rows
    <3>2. Covers(q, r)
      BY <2>4, <3>1 DEF Covers
    <3> QED
      BY <2>3, <3>2 DEF OnItsWay, Covers, Full
  <2> QED
    BY <1>1, <2>2, <2>5 DEF Whole, ConnectionIsComplete
<1>4. CASE ReceiveMessage \/ ReceiveFailed
  <2>1. /\ UNCHANGED <<ready, passed, halted, replays>> /\ given \subseteq given'
        /\ \A r \in rows : r.msg \in Theirs /\ Head(inbox) = Event("created", r.msg)
                            => r.msg \in given'
    BY <1>4 DEF ReceiveMessage, ReceiveFailed, Given, Event
  <2>2. Greeted'
    BY <1>1, <1>2, <2>1 DEF Whole, Greeted
  <2>3. \A r \in rows : OnItsWay(r) => Head(inbox) = Event("created", r.msg) \/ OnItsWay(r)'
    BY <1>1, <2>1, ReadingKeeps
  <2> QED
    BY <1>1, <2>1, <2>2, <2>3 DEF Whole, ConnectionIsComplete
<1> QED
  BY <1>3, <1>4

LEMMA ReplayingWhole ==
    ASSUME TypeOK, Whole, NEW q \in replays, HandleReplay(q) \/ ReplayFails(q) \/ Replayed(q)
    PROVE  Whole'
<1>1. UNCHANGED <<rows, due, link, ready, inbox, passed>> /\ given \subseteq given'
  BY DEF HandleReplay, ReplayFails, Replayed, Given, server, socket, history
<1>2. Greeted'
  BY <1>1 DEF Whole, Greeted
<1>3. replays \ {q} \subseteq replays'
  BY DEF HandleReplay, ReplayFails, Replayed
<1>4. ~halted' => ~halted
  BY DEF HandleReplay, ReplayFails, Replayed, history
<1>5. ASSUME NEW r \in rows, r.msg \in Theirs, OnItsWay(r), ~halted'
      PROVE  r.msg \in given' \/ OnItsWay(r)'
  <2>1. CASE r.msg \in due \/ \E i \in DOMAIN inbox : inbox[i] = Event("created", r.msg)
    BY <1>1, <2>1 DEF OnItsWay
  <2>2. CASE \E x \in replays \ {q} : Covers(x, r)
    BY <1>3, <2>2 DEF OnItsWay, Covers, Full
  <2>3. CASE Covers(q, r) /\ HandleReplay(q)
    <3>1. PICK found \in SUBSET rows :
            /\ IsPage(found, q.from)
            /\ [q EXCEPT !.answered = TRUE, !.rows = found] \in replays'
      BY <2>3 DEF HandleReplay
    <3> DEFINE x == [q EXCEPT !.answered = TRUE, !.rows = found]
    <3>2. x.from = q.from /\ x.rows = found
      BY DEF TypeOK, Replays
    <3>3. q.from < r.id
      BY <2>3 DEF Covers
    <3>4. r \in found \/ (Cardinality(found) = PageLimit /\ \A s \in found : s.id < r.id)
      BY <3>1, <3>3 DEF IsPage
    <3>5. Covers(x, r)
      BY <3>2, <3>3, <3>4 DEF Covers, Full
    <3> QED
      BY <3>1, <3>5 DEF OnItsWay, Covers, Full
  <2>4. CASE Covers(q, r) /\ Replayed(q)
    <3>1. q.answered /\ q.from < r.id
      BY <2>4 DEF Replayed, Covers
    <3>2. CASE r \in q.rows
      BY <1>5, <2>4, <3>2 DEF Replayed, Given
    <3>3. CASE Full(q) /\ \A s \in q.rows : s.id < r.id
      <4>1. PICK last \in {q.from} \union {s.id : s \in q.rows} :
              replays' = (replays \ {q}) \union NextPage(q, last)
        BY <2>4 DEF Replayed
      <4>2. last < r.id
        BY <3>1, <3>3, <4>1
      <4>3. q.page < MaxPages
        <5>1. q.page # MaxPages
          BY <1>5, <2>4, <3>3 DEF Replayed
        <5> QED
          BY <5>1, LimitsAssumption DEF TypeOK, Replays
      <4>4. Replay(last, q.page + 1) \in replays'
        BY <3>3, <4>1, <4>3 DEF NextPage
      <4>5. Covers(Replay(last, q.page + 1), r)
        BY <4>2 DEF Covers, Replay
      <4> QED
        BY <4>4, <4>5 DEF OnItsWay, Covers, Full
    <3> QED
      BY <2>4, <3>1, <3>2, <3>3 DEF Covers
  <2>5. CASE ReplayFails(q)
    BY <1>5, <2>5 DEF ReplayFails
  <2> QED
    BY <1>5, <2>1, <2>2, <2>3, <2>4, <2>5 DEF OnItsWay
<1>6. ConnectionIsComplete'
  BY <1>1, <1>4, <1>5 DEF Whole, ConnectionIsComplete
<1> QED
  BY <1>2, <1>6 DEF Whole

LEMMA WholeInit == Init => Whole
BY DEF Init, Whole, Greeted, ConnectionIsComplete

LEMMA WholeNext == Sound /\ Whole /\ [Next]_vars => Whole'
<1>1. ASSUME Whole, UNCHANGED vars
      PROVE  Whole'
  <2>1. UNCHANGED <<rows, due, link, ready, inbox, replays, given, passed, halted>>
    BY <1>1 DEF vars, server, socket, waiting, history
  <2> QED
    BY <1>1, <2>1, AddingWhole
<1>2. ASSUME TypeOK, Whole, Next
      PROVE  Whole'
  <2>1. CASE \/ \E m \in Theirs : Insert(m)
             \/ \E r \in begun : Commit(r)
             \/ HandleSend
             \/ \E p \in posts : HandlePost(p)
    BY <1>2, <2>1, StoringWhole
  <2>2. ASSUME NEW m \in due, Publish(m)
        PROVE  Whole'
    BY <1>2, <2>2, PublishWhole
  <2>3. CASE Connect \/ Greet \/ LinkBreaks \/ Closed \/ Rerun \/ ReloadPage
    BY <1>2, <2>3, ConnectionWhole
  <2>4. ASSUME NEW m \in Mine, Write(m) \/ AckTimeout(m) \/ PageTimeout(m)
        PROVE  Whole'
    BY <1>2, <2>4, WritingWhole
  <2>5. ASSUME NEW p \in posts, TimerPosted(p) \/ FlushPosted(p) \/ PagePosted(p)
        PROVE  Whole'
    BY <1>2, <2>5, PostedWhole
  <2>6. CASE ReceiveConnected \/ ReceiveMessage \/ ReceiveFailed
    BY <1>2, <2>6, ReceivingWhole
  <2>7. ASSUME NEW q \in replays, HandleReplay(q) \/ ReplayFails(q) \/ Replayed(q)
        PROVE  Whole'
    BY <1>2, <2>7, ReplayingWhole
  <2>8. CASE Focus \/ HandleLoad \/ Loaded
    BY <1>2, <2>8, LoadingWhole
  <2> QED
    BY <1>2, <2>1, <2>2, <2>3, <2>4, <2>5, <2>6, <2>7, <2>8 DEF Next
<1> QED
  BY <1>1, <1>2 DEF Sound

\* While a connection lasts it misses nothing of what the cursor was not past when it
\* got ready, for any number of earlier breaks, messages, pages and page sizes,
\* unless a replay fails or is cut off after MaxPages pages.
THEOREM ConnectionMissesNothing == Spec => []ConnectionIsComplete
<1>1. Whole => ConnectionIsComplete
  BY DEF Whole
<1> QED
  BY <1>1, WholeInit, WholeNext, SoundAlways, PTL DEF Spec
=============================================================================
