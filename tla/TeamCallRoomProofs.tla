------------------------- MODULE TeamCallRoomProofs --------------------------
(***************************************************************************)
(* Proof that the rows of a call are true of its room once everything has  *)
(* arrived (RoomMatchesRows), for any users, times, and numbers of         *)
(* requests, connections, webhooks and jobs.                               *)
(*                                                                         *)
(* RoomMatchesRows says nothing while something is on its way, so that it  *)
(* is not inductive.  Accounted says of every user, at every moment, what  *)
(* will make the rows true: the newest report about them is still to be    *)
(* used, or it was used and whatever is on its way is older than what the  *)
(* row has noted; for somebody in the room a job may be due that puts them *)
(* out.  The newest report stays usable because LiveKit reports in order   *)
(* of time and a row never notes a time later than the reports about it.   *)
(***************************************************************************)
EXTENDS TeamCallLifecycleProofs

(* LiveKit's reports about one user, or about the room, are in the order   *)
(* of the times they carry.                                                *)
Kinds(u) == IF u = TheRoom THEN {"room_started", "room_finished"}
            ELSE {"participant_joined", "participant_left"}

Chronicle(u, s, t) ==
    \A i \in 1 .. Len(s) : /\ s[i].type \in Kinds(u)
                           /\ s[i].at <= t
                           /\ \A h \in 1 .. i : s[h].at <= s[i].at

InOrder == /\ \A u \in Users \union {TheRoom} : Chronicle(u, mail[u], now)
           /\ \A u \in Users : part[u].event <= now

(* Before the call there is nobody to report about.                        *)
Silent == call.status = "none" =>
             /\ room = {}
             /\ \A u \in Users : token[u] = 0 /\ mail[u] = <<>>

(* The newest report about a user is of this type and will be used.        *)
Pending(u, type) ==
    /\ Len(mail[u]) > 0
    /\ mail[u][Len(mail[u])].type = type
    /\ ~mail[u][Len(mail[u])].seen
    /\ mail[u][Len(mail[u])].at >= part[u].event

(* No report about a user that is still on its way will be used.           *)
Overtaken(u) == \A i \in 1 .. Len(mail[u]) : mail[u][i].seen \/ mail[u][i].at < part[u].event

ToBePutOut(u) == \E j \in jobs : j.kind = "room" \/ j.user = u

(* Nobody will put a user out whose revocation was given up.               *)
Kept(u) == u \in spared /\ call.status \notin {"ended", "cancelled"}

Present(u) == \/ Pending(u, "participant_joined")
              \/ part[u].status = "joined" /\ Overtaken(u)
              \/ ToBePutOut(u)
              \/ Kept(u)
Gone(u) == \/ Pending(u, "participant_left")
           \/ part[u].status # "joined" /\ Overtaken(u)
Accounted(u) == IF u \in room THEN Present(u) ELSE Gone(u)

Lossless == spent["loss"] = 0

RoomIsTold == /\ InOrder
              /\ Silent
              /\ Lossless => \A u \in Users : Accounted(u)

RInv == IInv /\ RoomIsTold

-----------------------------------------------------------------------------
(* Sequences of reports.                                                   *)

LEMMA EventFacts ==
    ASSUME NEW s \in Seq(Event)
    PROVE  /\ Len(s) \in Nat
           /\ \A k \in 1 .. Len(s) : s[k] \in Event /\ s[k].at \in Int
  <1>1. \A e \in Event : e.at \in Int
    BY CallAssumption DEF Event
  <1> QED
    BY <1>1, LenProperties, ElementOfSeq

LEMMA RemoveAtFacts ==
    ASSUME NEW S, NEW s \in Seq(S), NEW i \in 1 .. Len(s)
    PROVE  /\ RemoveAt(s, i) \in Seq(S)
           /\ Len(RemoveAt(s, i)) = Len(s) - 1
           /\ \A h \in 1 .. Len(s) - 1 : RemoveAt(s, i)[h] = IF h < i THEN s[h] ELSE s[h + 1]
  <1> DEFINE n == Len(s)
             a == SubSeq(s, 1, i - 1)
             b == SubSeq(s, i + 1, n)
  <1>1. n \in Nat /\ i \in 1 .. n /\ \A k \in 1 .. n : s[k] \in S
    BY LenProperties, ElementOfSeq
  <1>2. /\ a \in Seq(S) /\ Len(a) = i - 1
        /\ \A k \in 1 .. i - 1 : a[k] = s[k]
    BY <1>1, SubSeqProperties
  <1>3. /\ b \in Seq(S) /\ Len(b) = n - i
        /\ \A k \in 1 .. n - i : b[k] = s[k + i]
    BY <1>1, SubSeqProperties
  <1>4. RemoveAt(s, i) = a \o b
    BY DEF RemoveAt
  <1> HIDE DEF n, a, b
  <1>5. /\ a \o b \in Seq(S) /\ Len(a \o b) = n - 1
        /\ \A k \in 1 .. n - 1 : (a \o b)[k] = IF k <= i - 1 THEN a[k] ELSE b[k - (i - 1)]
    <2>1. /\ a \o b \in Seq(S) /\ Len(a \o b) = Len(a) + Len(b)
          /\ \A k \in 1 .. Len(a) + Len(b) :
                (a \o b)[k] = IF k <= Len(a) THEN a[k] ELSE b[k - Len(a)]
      BY <1>2, <1>3, ConcatProperties
    <2>2. Len(a) + Len(b) = n - 1
      BY <1>1, <1>2, <1>3
    <2> QED
      BY <1>2, <2>1, <2>2
  <1>6. ASSUME NEW h \in 1 .. n - 1
        PROVE  (a \o b)[h] = IF h < i THEN s[h] ELSE s[h + 1]
    <2>1. CASE h < i
      BY <1>1, <1>2, <1>5, <2>1
    <2>2. CASE ~(h < i)
      <3>1. h - (i - 1) \in 1 .. n - i /\ ~(h <= i - 1) /\ h - (i - 1) + i = h + 1
        BY <1>1, <2>2
      <3> QED
        BY <1>3, <1>5, <2>2, <3>1
    <2> QED
      BY <2>1, <2>2
  <1> QED
    BY <1>4, <1>5, <1>6 DEF n

(* What is left of the reports s when the one at i has been handled, or    *)
(* will be delivered again: t.                                             *)
Handled(s, i, t) == \/ t = RemoveAt(s, i)
                    \/ t = [s EXCEPT ![i].seen = TRUE]

LEMMA HandledFacts ==
    ASSUME NEW s \in Seq(Event), NEW i \in 1 .. Len(s), NEW t, Handled(s, i, t)
    PROVE  /\ t \in Seq(Event)
           /\ \A h \in 1 .. Len(t) :
                 t[h].seen \/ \E g \in 1 .. Len(s) : g # i /\ t[h] = s[g]
           /\ i # Len(s) => Len(t) > 0 /\ t[Len(t)] = s[Len(s)]
  <1>1. Len(s) \in Nat /\ \A k \in 1 .. Len(s) : s[k] \in Event /\ s[k].at \in Int
    BY EventFacts
  <1>2. CASE t = RemoveAt(s, i)
    <2>1. /\ t \in Seq(Event) /\ Len(t) = Len(s) - 1
          /\ \A h \in 1 .. Len(s) - 1 : t[h] = IF h < i THEN s[h] ELSE s[h + 1]
      BY <1>2, RemoveAtFacts
    <2>2. ASSUME NEW h \in 1 .. Len(t)
          PROVE  \E g \in 1 .. Len(s) : g # i /\ t[h] = s[g]
      <3> DEFINE g == IF h < i THEN h ELSE h + 1
      <3>1. g \in 1 .. Len(s) /\ g # i
        BY <1>1, <2>1
      <3>2. t[h] = s[g]
        BY <1>1, <2>1
      <3> HIDE DEF g
      <3> QED
        BY <3>1, <3>2
    <2>3. i # Len(s) => Len(t) > 0 /\ t[Len(t)] = s[Len(s)]
      <3> SUFFICES ASSUME i # Len(s)
                   PROVE  Len(t) > 0 /\ t[Len(t)] = s[Len(s)]
        OBVIOUS
      <3>1. Len(t) = Len(s) - 1 /\ Len(t) \in 1 .. Len(s) - 1 /\ ~(Len(t) < i)
        BY <1>1, <2>1
      <3>2. t[Len(t)] = s[Len(t) + 1]
        BY <2>1, <3>1
      <3> QED
        BY <1>1, <3>1, <3>2
    <2> QED
      BY <2>1, <2>2, <2>3
  <1>3. CASE t = [s EXCEPT ![i].seen = TRUE]
    <2> DEFINE e == [s[i] EXCEPT !.seen = TRUE]
    <2>1. e \in Event /\ e.seen
      BY <1>1 DEF Event
    <2>2. t = [s EXCEPT ![i] = e]
      BY <1>3
    <2> HIDE DEF e
    <2>3. /\ t \in Seq(Event) /\ Len(t) = Len(s)
          /\ \A k \in 1 .. Len(s) : t[k] = IF k = i THEN e ELSE s[k]
      BY <2>1, <2>2, ExceptSeq
    <2> QED
      BY <1>1, <2>1, <2>3
  <1> QED
    BY <1>2, <1>3 DEF Handled

LEMMA HandledInOrder ==
    ASSUME NEW u, NEW s \in Seq(Event), NEW i \in 1 .. Len(s), NEW t, Handled(s, i, t),
           NEW now1 \in Int, Chronicle(u, s, now1)
    PROVE  Chronicle(u, t, now1)
  <1>1. Len(s) \in Nat /\ \A k \in 1 .. Len(s) : s[k] \in Event /\ s[k].at \in Int
    BY EventFacts
  <1>2. CASE t = RemoveAt(s, i)
    <2>1. /\ Len(t) = Len(s) - 1
          /\ \A h \in 1 .. Len(s) - 1 : t[h] = IF h < i THEN s[h] ELSE s[h + 1]
      BY <1>2, RemoveAtFacts
    <2> DEFINE g(h) == IF h < i THEN h ELSE h + 1
    <2>2. \A h \in 1 .. Len(t) : g(h) \in 1 .. Len(s) /\ t[h] = s[g(h)]
      BY <1>1, <2>1
    <2>3. \A k \in 1 .. Len(t) : \A h \in 1 .. k : h \in 1 .. Len(t) /\ g(h) \in 1 .. g(k)
      BY <1>1, <2>1
    <2> HIDE DEF g
    <2> QED
      BY <2>2, <2>3 DEF Chronicle
  <1>3. CASE t = [s EXCEPT ![i].seen = TRUE]
    <2> DEFINE e == [s[i] EXCEPT !.seen = TRUE]
    <2>1. e \in Event /\ e.at = s[i].at /\ e.type = s[i].type
      BY <1>1 DEF Event
    <2>2. t = [s EXCEPT ![i] = e]
      BY <1>3
    <2> HIDE DEF e
    <2>3. /\ Len(t) = Len(s)
          /\ \A k \in 1 .. Len(s) : t[k] = IF k = i THEN e ELSE s[k]
      BY <2>1, <2>2, ExceptSeq
    <2>4. \A k \in 1 .. Len(s) : t[k].at = s[k].at /\ t[k].type = s[k].type
      BY <2>1, <2>3
    <2> QED
      BY <1>1, <2>3, <2>4 DEF Chronicle
  <1> QED
    BY <1>2, <1>3 DEF Handled

LEMMA ReportInOrder ==
    ASSUME IInv, NEW u, NEW s \in Seq(Event), Chronicle(u, s, now), NEW type \in Kinds(u)
    PROVE  /\ Append(s, Report(type)) \in Seq(Event)
           /\ Len(Append(s, Report(type))) = Len(s) + 1
           /\ Append(s, Report(type))[Len(s) + 1] = Report(type)
           /\ Chronicle(u, Append(s, Report(type)), now)
  <1> DEFINE e == Report(type)
             t == Append(s, e)
  <1>1. e \in Event /\ e.at = now /\ e.type = type /\ now \in Int
    BY CallAssumption DEF IInv, TypeOK, Rows, Begun, Report, Event, Time, Kinds
  <1> HIDE DEF e
  <1>2. /\ t \in Seq(Event) /\ Len(t) = Len(s) + 1
        /\ \A k \in 1 .. Len(s) : t[k] = s[k]
        /\ t[Len(s) + 1] = e
    BY <1>1, AppendProperties
  <1>3. Len(s) \in Nat /\ \A k \in 1 .. Len(s) : s[k] \in Event /\ s[k].at \in Int
    BY EventFacts
  <1> HIDE DEF t
  <1>4. ASSUME NEW i \in 1 .. Len(t)
        PROVE  /\ t[i].type \in Kinds(u)
               /\ t[i].at <= now
               /\ \A h \in 1 .. i : t[h].at <= t[i].at
    <2>1. CASE i \in 1 .. Len(s)
      BY <1>2, <1>3, <2>1 DEF Chronicle
    <2>2. CASE i = Len(s) + 1
      <3>1. \A h \in 1 .. Len(s) : t[h].at <= now
        BY <1>2 DEF Chronicle
      <3> QED
        BY <1>1, <1>2, <1>3, <2>2, <3>1
    <2> QED
      BY <1>2, <1>3, <2>1, <2>2
  <1> QED
    BY <1>2, <1>4 DEF Chronicle, e, t

LEMMA LaterInOrder ==
    ASSUME NEW u, NEW s \in Seq(Event), NEW t1 \in Int, NEW t2 \in Int, t1 <= t2,
           Chronicle(u, s, t1)
    PROVE  Chronicle(u, s, t2)
  <1>1. \A k \in 1 .. Len(s) : s[k].at \in Int
    BY EventFacts
  <1> QED
    BY <1>1 DEF Chronicle
-----------------------------------------------------------------------------
(* Nothing new is reported about a user who stays where they are.          *)

LEMMA Bystander ==
    ASSUME NEW v \in Users, Accounted(v),
           mail'[v] = mail[v], v \in room' <=> v \in room,
           part'[v].event = part[v].event,
           part'[v].status = "joined" => part[v].status = "joined",
           part[v].status = "joined" => part'[v].status = "joined" \/ ToBePutOut(v)',
           ToBePutOut(v) => ToBePutOut(v)' \/ Kept(v)',
           Kept(v) => Kept(v)' \/ ToBePutOut(v)'
    PROVE  Accounted(v)'
  <1>1. Overtaken(v)' <=> Overtaken(v)
    BY DEF Overtaken
  <1>2. \A type : Pending(v, type)' <=> Pending(v, type)
    BY DEF Pending
  <1>3. CASE v \in room
    <2>1. Present(v)
      BY <1>3 DEF Accounted
    <2>2. Present(v)'
      BY <1>1, <1>2, <2>1 DEF Present
    <2> QED
      BY <1>3, <2>2 DEF Accounted
  <1>4. CASE v \notin room
    <2>1. Gone(v)
      BY <1>4 DEF Accounted
    <2>2. Gone(v)'
      BY <1>1, <1>2, <2>1 DEF Gone
    <2> QED
      BY <1>4, <2>2 DEF Accounted
  <1> QED
    BY <1>3, <1>4

(* Nobody comes or goes, and nothing new is reported about anybody: then   *)
(* only a user who is no longer counted as joined must be put out, and the *)
(* room must be closed with a call that ends.                              *)
LEMMA NobodyMoves ==
    ASSUME RInv, now' \in Time, now' >= now, UNCHANGED room,
           \A v \in Users : mail'[v] = mail[v],
           Chronicle(TheRoom, mail'[TheRoom], now'),
           spent'["loss"] = spent["loss"], spared \subseteq spared', jobs \subseteq jobs',
           \A v \in Users :
              /\ part'[v].event = part[v].event
              /\ part'[v].status = "joined" => part[v].status = "joined"
              /\ part[v].status = "joined" => part'[v].status = "joined" \/ ToBePutOut(v)',
           call'.status \in {"ended", "cancelled"} =>
              call.status \in {"ended", "cancelled"} \/ \E j \in jobs' : j.kind = "room",
           call'.status = "none" => call.status = "none" /\ UNCHANGED token
    PROVE  RoomIsTold'
  <1>1. now \in Int /\ now' \in Int
    BY CallAssumption DEF RInv, IInv, TypeOK, Time
  <1>2. InOrder'
    <2>1. ASSUME NEW v \in Users
          PROVE  Chronicle(v, mail'[v], now') /\ part'[v].event <= now'
      <3>1. mail[v] \in Seq(Event) /\ Chronicle(v, mail[v], now)
        BY DEF RInv, IInv, TypeOK, RoomIsTold, InOrder
      <3>2. Chronicle(v, mail'[v], now')
        BY <1>1, <3>1, LaterInOrder
      <3>3. part[v].event \in Int /\ part[v].event <= now
        BY CallAssumption DEF RInv, IInv, TypeOK, RoomIsTold, InOrder, ParticipantRow, Time
      <3> QED
        BY <1>1, <3>2, <3>3
    <2> QED
      BY <2>1 DEF InOrder, Chronicle
  <1>3. Silent'
    BY DEF RInv, RoomIsTold, Silent
  <1>4. ASSUME Lossless', NEW v \in Users
        PROVE  Accounted(v)'
    <2>1. Accounted(v)
      BY <1>4 DEF RInv, RoomIsTold, Lossless
    <2>2. ToBePutOut(v) => ToBePutOut(v)'
      BY DEF ToBePutOut
    <2>3. Kept(v) => Kept(v)' \/ ToBePutOut(v)'
      BY DEF Kept, ToBePutOut
    <2> QED
      BY <2>1, <2>2, <2>3, Bystander
  <1> QED
    BY <1>2, <1>3, <1>4 DEF RoomIsTold

(* Some leave the room, by themselves or because they are put out: LiveKit *)
(* reports it, and nobody else loses what was to put them out.             *)
LEMMA SomeLeave ==
    ASSUME RInv, NEW O, UNCHANGED <<now, call, part, spared, token>>,
           room' = room \ O,
           mail' \in [Users \union {TheRoom} -> Seq(Event)],
           \A v \in Users : mail'[v] = IF v \in room /\ v \in O
                                       THEN Append(mail[v], Report("participant_left"))
                                       ELSE mail[v],
           Chronicle(TheRoom, mail'[TheRoom], now),
           spent'["loss"] = spent["loss"],
           \A v \in Users \ O : ToBePutOut(v) => ToBePutOut(v)'
    PROVE  RoomIsTold'
  <1>1. ASSUME NEW v \in Users
        PROVE  /\ mail[v] \in Seq(Event)
               /\ Chronicle(v, mail[v], now)
               /\ part[v].event \in Int /\ now \in Int /\ part[v].event <= now
    BY CallAssumption DEF RInv, IInv, TypeOK, RoomIsTold, InOrder, ParticipantRow, Time
  <1>2. ASSUME NEW v \in Users, v \in room, v \in O
        PROVE  Pending(v, "participant_left")' /\ Chronicle(v, mail'[v], now)
    <2>1. "participant_left" \in Kinds(v)
      BY CallAssumption DEF Kinds, TheRoom
    <2>2. /\ Len(Append(mail[v], Report("participant_left"))) = Len(mail[v]) + 1
          /\ Append(mail[v], Report("participant_left"))[Len(mail[v]) + 1]
                = Report("participant_left")
          /\ Chronicle(v, Append(mail[v], Report("participant_left")), now)
      BY <1>1, <2>1, ReportInOrder DEF RInv
    <2>3. Len(mail[v]) \in Nat
      BY <1>1, EventFacts
    <2>4. mail'[v] = Append(mail[v], Report("participant_left"))
      BY <1>2
    <2> QED
      <3>1. Len(mail'[v]) = Len(mail[v]) + 1 /\ mail'[v][Len(mail'[v])] = Report("participant_left")
        BY <2>2, <2>4
      <3>2. now >= part'[v].event
        BY <1>1
      <3>3. Pending(v, "participant_left")'
        BY <2>3, <3>1, <3>2 DEF Pending, Report
      <3> QED
        BY <2>2, <2>4, <3>3
  <1>3. InOrder'
    BY <1>1, <1>2 DEF InOrder
  <1>4. Silent'
    BY DEF RInv, RoomIsTold, Silent
  <1>5. ASSUME Lossless', NEW v \in Users
        PROVE  Accounted(v)'
    <2>1. Accounted(v)
      BY <1>5 DEF RInv, RoomIsTold, Lossless
    <2>2. CASE v \in room /\ v \in O
      BY <1>2, <2>2 DEF Accounted, Gone
    <2>3. CASE v \in room /\ v \notin O
      <3>1. v \in room' /\ mail'[v] = mail[v]
        BY <2>3
      <3>2. Kept(v) => Kept(v)'
        BY DEF Kept
      <3> QED
        BY <2>1, <2>3, <3>1, <3>2, Bystander
    <2>4. CASE v \notin room
      <3>1. v \notin room' /\ mail'[v] = mail[v]
        BY <2>4
      <3>2. Gone(v)
        BY <2>1, <2>4 DEF Accounted
      <3>3. Gone(v)'
        BY <3>1, <3>2 DEF Gone, Pending, Overtaken
      <3> QED
        BY <3>1, <3>3 DEF Accounted
    <2> QED
      BY <2>2, <2>3, <2>4
  <1> QED
    BY <1>3, <1>4, <1>5 DEF RoomIsTold

-----------------------------------------------------------------------------
(* Requests and the reaper.                                                *)

LEMMA SpendKeepsLoss ==
    ASSUME IInv, NEW what \in Bounded \ {"loss"}, Spend(what)
    PROVE  spent'["loss"] = spent["loss"]
  BY DEF IInv, TypeOK, Spend, Bounded

(* A call that ends leaves nobody counted as joined, and closes its room.  *)
LEMMA Ending ==
    ASSUME RInv, NEW s, s # "none", NEW p \in [Users -> ParticipantRow], Terminalize(s, p),
           \A v \in Users : p[v].event = part[v].event,
           UNCHANGED <<now, room, mail, spared>>, jobs' = jobs \union {RoomJob},
           spent'["loss"] = spent["loss"]
    PROVE  RoomIsTold'
  <1>1. ASSUME NEW v \in Users
        PROVE  part'[v].event = part[v].event /\ part'[v].status # "joined"
    <2>1. p[v] \in ParticipantRow
      OBVIOUS
    <2>2. MarkRemaining(p)[v].event = p[v].event
      BY <2>1 DEF MarkRemaining, ParticipantRow
    <2>3. MarkRemaining(p)[v].status \notin Remaining
      BY MarkRemainingFacts
    <2> QED
      BY <2>2, <2>3 DEF Terminalize, Remaining
  <1>2. call'.status = s
    BY DEF Terminalize, RInv, IInv, TypeOK, CallRow
  <1>3. RoomJob \in jobs' /\ RoomJob.kind = "room" /\ jobs \subseteq jobs'
    BY DEF RoomJob
  <1>4. \A v \in Users : ToBePutOut(v)'
    BY <1>3 DEF ToBePutOut
  <1>5. /\ now' \in Time /\ now' >= now
        /\ Chronicle(TheRoom, mail'[TheRoom], now')
    BY CallAssumption DEF RInv, IInv, TypeOK, Time, RoomIsTold, InOrder
  <1> QED
    BY <1>1, <1>2, <1>3, <1>4, <1>5, NobodyMoves

(* The row of one participant changes, and they are put out if they are no *)
(* longer counted as joined.                                               *)
LEMMA Changing ==
    ASSUME RInv, NEW u \in Users, NEW r, part' = [part EXCEPT ![u] = r],
           r.event = part[u].event,
           r.status = "joined" => part[u].status = "joined",
           part[u].status = "joined" => r.status = "joined" \/ \E j \in jobs' : j.user = u,
           UNCHANGED <<now, call, room, mail, spared>>, jobs \subseteq jobs',
           spent'["loss"] = spent["loss"],
           call.status = "none" => UNCHANGED token
    PROVE  RoomIsTold'
  <1>1. \A v \in Users : part'[v] = IF v = u THEN r ELSE part[v]
    BY DEF RInv, IInv, TypeOK
  <1>2. ASSUME NEW v \in Users
        PROVE  /\ part'[v].event = part[v].event
               /\ part'[v].status = "joined" => part[v].status = "joined"
               /\ part[v].status = "joined" => part'[v].status = "joined" \/ ToBePutOut(v)'
    BY <1>1 DEF ToBePutOut
  <1>3. /\ now' \in Time /\ now' >= now
        /\ Chronicle(TheRoom, mail'[TheRoom], now')
    BY CallAssumption DEF RInv, IInv, TypeOK, Time, RoomIsTold, InOrder
  <1> QED
    BY <1>2, <1>3, NobodyMoves

(* Neither rows nor room change.                                           *)
LEMMA Idling ==
    ASSUME RInv, UNCHANGED <<call, part, room, mail, spared, token>>,
           now' \in Time, now' >= now, jobs \subseteq jobs', spent'["loss"] = spent["loss"]
    PROVE  RoomIsTold'
  <1>1. Chronicle(TheRoom, mail[TheRoom], now')
    BY LaterInOrder, CallAssumption DEF RInv, IInv, TypeOK, Time, RoomIsTold, InOrder
  <1> QED
    BY <1>1, NobodyMoves

LEMMA StartCallTells == RInv /\ StartCall => RoomIsTold'
  <1> SUFFICES ASSUME RInv, StartCall
               PROVE  RoomIsTold'
    OBVIOUS
  <1>1. /\ call.status = "none" /\ call'.status = "ringing"
        /\ UNCHANGED <<now, room, mail>>
        /\ now \in Int /\ now >= 1
    BY CallAssumption DEF StartCall, RInv, IInv, TypeOK, CallRow, Rows, Begun, Time
  <1>2. ASSUME NEW v \in Users
        PROVE  /\ v \notin room /\ mail[v] = <<>>
               /\ part'[v].event = 0 /\ part'[v].status # "joined"
    BY <1>1 DEF StartCall, RInv, RoomIsTold, Silent
  <1>3. InOrder'
    BY <1>1, <1>2 DEF InOrder, RInv, RoomIsTold
  <1>4. Silent'
    BY <1>1 DEF Silent
  <1>5. ASSUME NEW v \in Users
        PROVE  Accounted(v)'
    BY <1>1, <1>2 DEF Accounted, Gone, Overtaken
  <1> QED
    BY <1>3, <1>4, <1>5 DEF RoomIsTold

LEMMA FinishJoinTells == ASSUME NEW u \in Users PROVE RInv /\ FinishJoin(u) => RoomIsTold'
  <1> SUFFICES ASSUME RInv, FinishJoin(u)
               PROVE  RoomIsTold'
    OBVIOUS
  <1>1. /\ part \in [Users -> ParticipantRow] /\ part[u] \in ParticipantRow
        /\ UNCHANGED <<now, room, mail, spared, spent>>
        /\ now \in Time /\ now >= now
    BY CallAssumption DEF FinishJoin, RInv, IInv, TypeOK, Time
  <1>2. CASE Terminalize("missed", part) /\ jobs' = jobs \union {RoomJob}
    BY <1>1, <1>2, Ending
  <1>3. CASE /\ call.status \in Live
             /\ part' = [part EXCEPT ![u].status = IF @ = "joined" THEN "joined"
                                                   ELSE "connecting",
                                     ![u].issued = begun]
             /\ UNCHANGED <<call, jobs>>
    <2> DEFINE r == [part[u] EXCEPT !.status = IF @ = "joined" THEN "joined" ELSE "connecting",
                                    !.issued = begun]
    <2>1. /\ r.event = part[u].event
          /\ r.status = "joined" <=> part[u].status = "joined"
      BY <1>1 DEF ParticipantRow
    <2>2. part' = [part EXCEPT ![u] = r]
      BY <1>1, <1>3
    <2> HIDE DEF r
    <2> QED
      BY <1>1, <1>3, <2>1, <2>2, Changing DEF Live
  <1>4. CASE UNCHANGED <<call, part, jobs, token>>
    BY <1>1, <1>4, Idling
  <1> QED
    BY <1>2, <1>3, <1>4 DEF FinishJoin

LEMMA LeaveCallTells == ASSUME NEW u \in Users PROVE RInv /\ LeaveCall(u) => RoomIsTold'
  <1> SUFFICES ASSUME RInv, LeaveCall(u)
               PROVE  RoomIsTold'
    OBVIOUS
  <1> DEFINE r == [part[u] EXCEPT !.status = IF @ \in Remaining THEN "left" ELSE @]
             gone == [part EXCEPT ![u].status = IF @ \in Remaining THEN "left" ELSE @]
             empty == call.status = "active" /\ Joined(gone) = {}
  <1>1. /\ part \in [Users -> ParticipantRow] /\ part[u] \in ParticipantRow
        /\ UNCHANGED <<now, room, mail, spared, token>>
        /\ spent'["loss"] = spent["loss"]
    BY SpendKeepsLoss DEF LeaveCall, RInv, IInv, TypeOK, livekit, Bounded
  <1>2. r \in ParticipantRow /\ r.event = part[u].event /\ r.status # "joined"
    BY <1>1 DEF ParticipantRow, JoinableParticipantStatuses, Remaining
  <1>3. gone = [part EXCEPT ![u] = r] /\ gone \in [Users -> ParticipantRow]
    BY <1>1, <1>2
  <1>4. CASE /\ Terminalize(IF CallerLeaves(u) THEN "cancelled" ELSE "ended", gone)
             /\ jobs' = jobs \union {RoomJob}
    <2>1. \A v \in Users : gone[v].event = part[v].event
      BY <1>1, <1>2, <1>3
    <2> QED
      BY <1>1, <1>3, <1>4, <2>1, Ending
  <1>5. CASE part' = gone /\ jobs' = jobs \union {RevokeJob(u)} /\ UNCHANGED call
    <2>1. \E j \in jobs' : j.user = u
      <3>1. RevokeJob(u) \in jobs' /\ RevokeJob(u).user = u
        BY <1>5 DEF RevokeJob
      <3> QED
        BY <3>1
    <2> HIDE DEF r, gone
    <2> QED
      BY <1>1, <1>2, <1>3, <1>5, <2>1, Changing
  <1> QED
    BY <1>4, <1>5 DEF LeaveCall

LEMMA DeclineCallTells == ASSUME NEW u \in Users PROVE RInv /\ DeclineCall(u) => RoomIsTold'
  <1> SUFFICES ASSUME RInv, DeclineCall(u)
               PROVE  RoomIsTold'
    OBVIOUS
  <1> DEFINE r == [part[u] EXCEPT !.status = "declined"]
  <1>1. /\ part \in [Users -> ParticipantRow] /\ part[u] \in ParticipantRow
        /\ UNCHANGED <<now, call, room, mail, spared, token>>
        /\ spent'["loss"] = spent["loss"]
    <2>1. IInv /\ part \in [Users -> ParticipantRow] /\ part[u] \in ParticipantRow
      BY DEF RInv, IInv, TypeOK
    <2>2. Spend("request") /\ UNCHANGED <<now, call, room, mail, spared, token>>
      BY DEF DeclineCall, livekit
    <2> QED
      BY <2>1, <2>2, SpendKeepsLoss DEF Bounded
  <1>2. r.event = part[u].event /\ r.status # "joined"
    BY <1>1 DEF ParticipantRow
  <1>3. part' = [part EXCEPT ![u] = r]
    BY <1>1 DEF DeclineCall
  <1>4. jobs \subseteq jobs' /\ \E j \in jobs' : j.user = u
    <2>1. jobs' = jobs \union {RevokeJob(u)} /\ RevokeJob(u).user = u
      BY DEF DeclineCall, RevokeJob
    <2> QED
      BY <2>1
  <1> HIDE DEF r
  <1> QED
    BY <1>1, <1>2, <1>3, <1>4, Changing

LEMMA EndCallTells == RInv /\ EndCall => RoomIsTold'
  <1> SUFFICES ASSUME RInv, EndCall
               PROVE  RoomIsTold'
    OBVIOUS
  <1>1. /\ part \in [Users -> ParticipantRow]
        /\ UNCHANGED <<now, room, mail, spared, token>>
        /\ jobs' = jobs \union {RoomJob}
        /\ spent'["loss"] = spent["loss"]
        /\ now \in Time /\ now >= now
    <2>1. IInv /\ part \in [Users -> ParticipantRow] /\ now \in Time /\ now >= now
      BY CallAssumption DEF RInv, IInv, TypeOK, Time
    <2>2. /\ Spend("request")
          /\ UNCHANGED <<now, room, mail, spared, token>>
          /\ jobs' = jobs \union {RoomJob}
      BY DEF EndCall, livekit
    <2> QED
      BY <2>1, <2>2, SpendKeepsLoss DEF Bounded
  <1>2. CASE Terminalize(IF call.status = "ringing" THEN "cancelled" ELSE "ended", part)
    BY <1>1, <1>2, Ending
  <1>3. CASE UNCHANGED <<call, part>>
    BY <1>1, <1>3, Idling
  <1> QED
    BY <1>2, <1>3 DEF EndCall

(* Only a live call has somebody who is counted as joined.                 *)
LEMMA RemoveMemberTells ==
    ASSUME NEW u \in Users PROVE RInv /\ RemoveMember(u) => RoomIsTold'
  <1> SUFFICES ASSUME RInv, RemoveMember(u)
               PROVE  RoomIsTold'
    OBVIOUS
  <1> DEFINE r == [part[u] EXCEPT !.status = IF @ \in Remaining THEN "removed" ELSE @]
  <1>1. /\ part \in [Users -> ParticipantRow] /\ part[u] \in ParticipantRow
        /\ UNCHANGED <<now, call, room, mail, spared, token>>
        /\ spent'["loss"] = spent["loss"]
    BY SpendKeepsLoss DEF RemoveMember, RInv, IInv, TypeOK, livekit, Bounded
  <1>2. r.event = part[u].event /\ r.status # "joined"
    BY <1>1 DEF ParticipantRow, Remaining
  <1>3. part' = [part EXCEPT ![u] = r]
    BY <1>1 DEF RemoveMember
  <1>4. jobs \subseteq jobs'
    BY DEF RemoveMember, RevokeMedia
  <1>5. part[u].status = "joined" => \E j \in jobs' : j.user = u
    <2> SUFFICES ASSUME part[u].status = "joined"
                 PROVE  \E j \in jobs' : j.user = u
      OBVIOUS
    <2> DEFINE j == [kind |-> "member", user |-> u, at |-> now]
    <2>1. call.status \in Live
      BY DEF RInv, IInv, Rows, RowsAgree, Joined, Live
    <2>2. j \in jobs' /\ j.user = u
      BY <2>1 DEF RemoveMember, RevokeMedia
    <2> QED
      BY <2>2
  <1> HIDE DEF r
  <1> QED
    BY <1>1, <1>2, <1>3, <1>4, <1>5, Changing

LEMMA ReapTells == RInv /\ Reap => RoomIsTold'
  <1> SUFFICES ASSUME RInv, Reap
               PROVE  RoomIsTold'
    OBVIOUS
  <1>1. /\ part \in [Users -> ParticipantRow]
        /\ Terminalize(IF RingingIsOver THEN "missed" ELSE "ended", part)
        /\ UNCHANGED <<now, room, mail, spared, spent>>
        /\ jobs' = jobs \union {RoomJob}
    BY DEF Reap, RInv, IInv, TypeOK, livekit
  <1> QED
    BY <1>1, Ending

LEMMA BeginJoinTells ==
    ASSUME NEW u \in Users
    PROVE  RInv /\ (BeginJoin(u) \/ RollBackJoin(u)) => RoomIsTold'
  <1> SUFFICES ASSUME RInv, BeginJoin(u) \/ RollBackJoin(u)
               PROVE  RoomIsTold'
    OBVIOUS
  <1>1. UNCHANGED <<now, call, part, jobs, room, mail, spared, token>>
    BY DEF BeginJoin, RollBackJoin, livekit
  <1>2. spent'["loss"] = spent["loss"]
    BY SpendKeepsLoss DEF BeginJoin, RollBackJoin, RInv, Bounded
  <1>3. now \in Time /\ now >= now
    BY CallAssumption DEF RInv, IInv, TypeOK, Time
  <1> QED
    BY <1>1, <1>2, <1>3, Idling

-----------------------------------------------------------------------------
(* Media jobs, LiveKit and the clock.                                      *)

LEMMA BeginRevokeTells == ASSUME NEW j \in jobs PROVE RInv /\ BeginRevoke(j) => RoomIsTold'
  <1> SUFFICES ASSUME RInv, BeginRevoke(j)
               PROVE  RoomIsTold'
    OBVIOUS
  <1>1. /\ UNCHANGED <<now, call, part, room, mail, token, spent>>
        /\ now \in Time /\ now >= now
        /\ j.kind = "revoke"
    BY CallAssumption DEF BeginRevoke, RInv, IInv, TypeOK, Time, livekit
  <1>2. CASE UNCHANGED <<jobs, spared>>
    BY <1>1, <1>2, Idling
  <1>3. CASE Outdated(j) /\ jobs' = jobs \ {j} /\ spared' = spared \union {j.user}
    <2>1. InOrder' /\ Silent'
      BY <1>1 DEF RInv, RoomIsTold, InOrder, Silent
    <2>2. ASSUME Lossless', NEW v \in Users
          PROVE  Accounted(v)'
      <3>1. Accounted(v)
        BY <1>1, <2>2 DEF RInv, RoomIsTold, Lossless
      <3>2. Kept(v) => Kept(v)'
        BY <1>1, <1>3 DEF Kept
      <3>3. CASE v = j.user
        <4>1. call.status \notin TerminalCallStatuses
          BY <1>3, <3>3 DEF Outdated, RInv, IInv, Rows, RowsAgree, Remaining
        <4>2. Kept(v)'
          BY <1>1, <1>3, <3>3, <4>1 DEF Kept, TerminalCallStatuses
        <4> QED
          BY <1>1, <3>1, <4>2, Bystander
      <3>4. CASE v # j.user
        <4>1. ToBePutOut(v) => ToBePutOut(v)'
          BY <1>1, <1>3, <3>4 DEF ToBePutOut
        <4> QED
          BY <1>1, <3>1, <3>2, <4>1, Bystander
      <3> QED
        BY <3>3, <3>4
    <2> QED
      BY <2>1, <2>2 DEF RoomIsTold
  <1> QED
    BY <1>2, <1>3 DEF BeginRevoke

LEMMA RevokeFailsTells == ASSUME NEW j \in underway PROVE RInv /\ RevokeFails(j) => RoomIsTold'
  <1> SUFFICES ASSUME RInv, RevokeFails(j)
               PROVE  RoomIsTold'
    OBVIOUS
  <1>1. /\ UNCHANGED <<now, call, part, jobs, room, mail, spared, token, spent>>
        /\ now \in Time /\ now >= now
    BY CallAssumption DEF RevokeFails, RInv, IInv, TypeOK, Time, livekit, rows
  <1> QED
    BY <1>1, Idling

LEMMA PublishedKeepsLoss ==
    ASSUME IInv, NEW j, Published(j)
    PROVE  spent'["loss"] = spent["loss"]
  BY SpendKeepsLoss DEF Published, Bounded

(* Once for both kinds of revocation.                                      *)
LEMMA PutOutTells == ASSUME RInv, NEW j \in jobs, j.kind # "room", PutOut(j) PROVE RoomIsTold'
  <1>1. /\ UNCHANGED <<now, call, part, spared, token>>
        /\ room' = room \ {j.user}
        /\ mail' = IF j.user \in room
                   THEN [mail EXCEPT ![j.user] = Append(@, Report("participant_left"))]
                   ELSE mail
    BY DEF PutOut
  <1>2. /\ mail \in [Users \union {TheRoom} -> Seq(Event)] /\ room \subseteq Users
        /\ TheRoom \notin Users
        /\ Chronicle(TheRoom, mail[TheRoom], now)
    BY CallAssumption DEF RInv, IInv, TypeOK, RoomIsTold, InOrder, TheRoom
  <1>3. mail' \in [Users \union {TheRoom} -> Seq(Event)]
    BY PutOutFacts DEF RInv
  <1>4. \A v \in Users : mail'[v] = IF v \in room /\ v \in {j.user}
                                    THEN Append(mail[v], Report("participant_left"))
                                    ELSE mail[v]
    BY <1>1, <1>2
  <1>5. mail'[TheRoom] = mail[TheRoom]
    BY <1>1, <1>2
  <1>6. spent'["loss"] = spent["loss"]
    BY PublishedKeepsLoss DEF PutOut, RInv
  <1>7. ASSUME NEW v \in Users \ {j.user}
        PROVE  ToBePutOut(v) => ToBePutOut(v)'
    <2>1. jobs \ {j} \subseteq jobs'
      BY PutOutFacts DEF RInv
    <2> QED
      BY <2>1 DEF ToBePutOut
  <1> QED
    BY <1>1, <1>2, <1>3, <1>4, <1>5, <1>6, <1>7, SomeLeave

LEMMA RevokeTells == ASSUME NEW j \in underway PROVE RInv /\ Revoke(j) => RoomIsTold'
  <1>1. RInv => j \in jobs /\ j.kind # "room"
    BY DEF RInv, IInv, TypeOK, Claims
  <1> QED
    BY <1>1, PutOutTells DEF Revoke

LEMMA RevokeRemovedTells ==
    ASSUME NEW j \in jobs PROVE RInv /\ RevokeRemoved(j) => RoomIsTold'
  BY PutOutTells DEF RevokeRemoved

LEMMA TerminateRoomTells ==
    ASSUME NEW j \in jobs PROVE RInv /\ TerminateRoom(j) => RoomIsTold'
  <1> SUFFICES ASSUME RInv, TerminateRoom(j)
               PROVE  RoomIsTold'
    OBVIOUS
  <1>1. /\ mail \in [Users \union {TheRoom} -> Seq(Event)] /\ room \subseteq Users
        /\ TheRoom \notin Users
        /\ mail[TheRoom] \in Seq(Event) /\ Chronicle(TheRoom, mail[TheRoom], now)
    BY CallAssumption DEF RInv, IInv, TypeOK, RoomIsTold, InOrder, TheRoom
  <1>2. /\ UNCHANGED <<now, call, part, spared, token>>
        /\ room' = room \ Users
    BY <1>1 DEF TerminateRoom
  <1>3. mail' \in [Users \union {TheRoom} -> Seq(Event)]
    BY TerminateRoomKeeps DEF RInv, IInv, TypeOK
  <1>4. \A v \in Users : mail'[v] = IF v \in room /\ v \in Users
                                    THEN Append(mail[v], Report("participant_left"))
                                    ELSE mail[v]
    BY <1>1 DEF TerminateRoom
  <1>5. Chronicle(TheRoom, mail'[TheRoom], now)
    <2>1. mail'[TheRoom] = IF open THEN Append(mail[TheRoom], Report("room_finished"))
                           ELSE mail[TheRoom]
      BY <1>1 DEF TerminateRoom
    <2>2. "room_finished" \in Kinds(TheRoom)
      BY DEF Kinds
    <2>3. Chronicle(TheRoom, Append(mail[TheRoom], Report("room_finished")), now)
      BY <1>1, <2>2, ReportInOrder DEF RInv
    <2> QED
      BY <1>1, <2>1, <2>3
  <1>6. spent'["loss"] = spent["loss"]
    BY PublishedKeepsLoss DEF TerminateRoom, RInv
  <1> QED
    BY <1>2, <1>3, <1>4, <1>5, <1>6, SomeLeave

LEMMA ConnectTells == ASSUME NEW u \in Users PROVE RInv /\ Connect(u) => RoomIsTold'
  <1> SUFFICES ASSUME RInv, Connect(u)
               PROVE  RoomIsTold'
    OBVIOUS
  <1>1. /\ UNCHANGED <<now, call, part, jobs, token>>
        /\ u \notin room /\ room' = room \union {u}
        /\ spared' = spared \ {u}
        /\ spent'["loss"] = spent["loss"]
        /\ token[u] > 0
    BY SpendKeepsLoss DEF Connect, rows, RInv, Bounded
  <1>2. /\ mail \in [Users \union {TheRoom} -> Seq(Event)] /\ u # TheRoom
        /\ mail[u] \in Seq(Event) /\ mail[TheRoom] \in Seq(Event)
        /\ Chronicle(u, mail[u], now) /\ Chronicle(TheRoom, mail[TheRoom], now)
        /\ part[u].event \in Int /\ now \in Int /\ part[u].event <= now
    <2>1. mail \in [Users \union {TheRoom} -> Seq(Event)] /\ u # TheRoom
      BY CallAssumption DEF RInv, IInv, TypeOK, TheRoom
    <2>2. Chronicle(u, mail[u], now) /\ Chronicle(TheRoom, mail[TheRoom], now)
      BY DEF RInv, RoomIsTold, InOrder
    <2>3. part[u].event \in Int /\ now \in Int /\ part[u].event <= now
      BY CallAssumption DEF RInv, IInv, TypeOK, RoomIsTold, InOrder, ParticipantRow, Time
    <2> QED
      BY <2>1, <2>2, <2>3
  <1> DEFINE s == Append(mail[u], Report("participant_joined"))
             t == Append(mail[TheRoom], Report("room_started"))
  <1>3. /\ Len(s) = Len(mail[u]) + 1
        /\ s[Len(mail[u]) + 1] = Report("participant_joined")
        /\ Chronicle(u, s, now) /\ Chronicle(TheRoom, t, now)
    <2>1. "participant_joined" \in Kinds(u) /\ "room_started" \in Kinds(TheRoom)
      BY <1>2 DEF Kinds
    <2> QED
      BY <1>2, <2>1, ReportInOrder DEF RInv
  <1>4. /\ mail'[u] = s
        /\ mail'[TheRoom] = IF open THEN mail[TheRoom] ELSE t
        /\ \A v \in Users \ {u} : mail'[v] = mail[v]
    BY <1>2, CallAssumption DEF Connect, TheRoom
  <1> HIDE DEF s, t
  <1>5. InOrder'
    <2>1. ASSUME NEW v \in Users \union {TheRoom}
          PROVE  Chronicle(v, mail'[v], now)
      BY <1>2, <1>3, <1>4 DEF RInv, RoomIsTold, InOrder
    <2> QED
      BY <1>1, <2>1 DEF RInv, RoomIsTold, InOrder
  <1>6. Silent'
    BY <1>1 DEF RInv, RoomIsTold, Silent
  <1>7. Pending(u, "participant_joined")'
    <2>1. Len(mail[u]) \in Nat
      BY <1>2, EventFacts
    <2> QED
      BY <1>1, <1>2, <1>3, <1>4, <2>1 DEF Pending, Report
  <1>8. ASSUME Lossless', NEW v \in Users
        PROVE  Accounted(v)'
    <2>1. CASE v = u
      BY <1>1, <1>7, <2>1 DEF Accounted, Present
    <2>2. CASE v # u
      <3>1. Accounted(v)
        BY <1>1, <1>8 DEF RInv, RoomIsTold, Lossless
      <3>2. Kept(v) => Kept(v)'
        BY <1>1, <2>2 DEF Kept
      <3>3. ToBePutOut(v) => ToBePutOut(v)'
        BY <1>1 DEF ToBePutOut
      <3> QED
        BY <1>1, <1>4, <2>2, <3>1, <3>2, <3>3, Bystander
    <2> QED
      BY <2>1, <2>2
  <1> QED
    BY <1>5, <1>6, <1>8 DEF RoomIsTold

LEMMA DisconnectTells == ASSUME NEW u \in Users PROVE RInv /\ Disconnect(u) => RoomIsTold'
  <1> SUFFICES ASSUME RInv, Disconnect(u)
               PROVE  RoomIsTold'
    OBVIOUS
  <1>1. /\ UNCHANGED <<now, call, part, jobs, spared, token, spent>>
        /\ u \in room /\ room' = room \ {u}
        /\ mail' = [mail EXCEPT ![u] = Append(@, Report("participant_left"))]
    BY DEF Disconnect, rows
  <1>2. /\ mail \in [Users \union {TheRoom} -> Seq(Event)] /\ u # TheRoom
        /\ Chronicle(TheRoom, mail[TheRoom], now)
    BY CallAssumption DEF RInv, IInv, TypeOK, RoomIsTold, InOrder, TheRoom
  <1>3. mail' \in [Users \union {TheRoom} -> Seq(Event)]
    BY DisconnectKeeps DEF RInv, IInv, TypeOK
  <1>4. /\ \A v \in Users : mail'[v] = IF v \in room /\ v \in {u}
                                       THEN Append(mail[v], Report("participant_left"))
                                       ELSE mail[v]
        /\ mail'[TheRoom] = mail[TheRoom]
    BY <1>1, <1>2
  <1>5. \A v \in Users \ {u} : ToBePutOut(v) => ToBePutOut(v)'
    BY <1>1 DEF ToBePutOut
  <1> QED
    BY <1>1, <1>2, <1>3, <1>4, <1>5, SomeLeave

LEMMA FinishRoomTells == RInv /\ FinishRoom => RoomIsTold'
  <1> SUFFICES ASSUME RInv, FinishRoom
               PROVE  RoomIsTold'
    OBVIOUS
  <1>1. /\ UNCHANGED <<now, call, part, jobs, spared, token, room, spent>>
        /\ now \in Time /\ now >= now
        /\ mail' = [mail EXCEPT ![TheRoom] = Append(@, Report("room_finished"))]
    BY CallAssumption DEF FinishRoom, rows, RInv, IInv, TypeOK, Time
  <1>2. /\ mail \in [Users \union {TheRoom} -> Seq(Event)] /\ TheRoom \notin Users
        /\ mail[TheRoom] \in Seq(Event) /\ Chronicle(TheRoom, mail[TheRoom], now)
    BY CallAssumption DEF RInv, IInv, TypeOK, RoomIsTold, InOrder, TheRoom
  <1>3. Chronicle(TheRoom, mail'[TheRoom], now)
    <2>1. "room_finished" \in Kinds(TheRoom)
      BY DEF Kinds
    <2> QED
      BY <1>1, <1>2, <2>1, ReportInOrder DEF RInv
  <1>4. \A v \in Users : mail'[v] = mail[v]
    BY <1>1, <1>2
  <1> QED
    BY <1>1, <1>3, <1>4, NobodyMoves

LEMMA TickTells == RInv /\ Tick => RoomIsTold'
  <1> SUFFICES ASSUME RInv, Tick
               PROVE  RoomIsTold'
    OBVIOUS
  <1>1. /\ UNCHANGED <<call, part, jobs, room, mail, spared, token, spent>>
        /\ now' \in Time /\ now' >= now
    BY CallAssumption DEF Tick, rows, livekit, RInv, IInv, TypeOK, Time
  <1> QED
    BY <1>1, Idling

-----------------------------------------------------------------------------
(* Webhooks about a user.                                                  *)

(* A newer report than the one handled is still the newest, and usable.    *)
LEMMA PendingStays ==
    ASSUME RInv, NEW u \in Users, NEW i \in 1 .. Len(mail[u]), i # Len(mail[u]),
           Handled(mail[u], i, mail'[u]),
           part'[u].event = part[u].event \/ part'[u].event = mail[u][i].at,
           NEW type, Pending(u, type)
    PROVE  Pending(u, type)'
  <1> DEFINE s == mail[u]
  <1>1. s \in Seq(Event) /\ Chronicle(u, s, now)
    BY DEF RInv, IInv, TypeOK, RoomIsTold, InOrder
  <1>2. Len(mail'[u]) > 0 /\ mail'[u][Len(mail'[u])] = s[Len(s)]
    BY <1>1, HandledFacts
  <1>3. s[i].at <= s[Len(s)].at
    BY <1>1, EventFacts DEF Chronicle
  <1>4. s[Len(s)].at >= part'[u].event
    BY <1>3 DEF Pending
  <1> QED
    BY <1>2, <1>4 DEF Pending

LEMMA OvertakenStays ==
    ASSUME RInv, NEW u \in Users, NEW i \in 1 .. Len(mail[u]),
           Handled(mail[u], i, mail'[u]),
           part'[u].event = part[u].event,
           Overtaken(u)
    PROVE  Overtaken(u)'
  <1>1. mail[u] \in Seq(Event)
    BY DEF RInv, IInv, TypeOK
  <1>2. \A h \in 1 .. Len(mail'[u]) :
           mail'[u][h].seen \/ \E g \in 1 .. Len(mail[u]) : g # i /\ mail'[u][h] = mail[u][g]
    BY <1>1, HandledFacts
  <1> QED
    BY <1>2 DEF Overtaken

(* When the newest report is used, all the others have been overtaken.     *)
LEMMA NewestUsed ==
    ASSUME RInv, NEW u \in Users, NEW i \in 1 .. Len(mail[u]), i = Len(mail[u]),
           MayArrive(u, i), Handled(mail[u], i, mail'[u]),
           part'[u].event = mail[u][i].at
    PROVE  Overtaken(u)'
  <1>1. mail[u] \in Seq(Event) /\ Len(mail[u]) \in Nat
    BY EventFacts DEF RInv, IInv, TypeOK
  <1>2. ASSUME NEW h \in 1 .. Len(mail'[u])
        PROVE  mail'[u][h].seen \/ mail'[u][h].at < part'[u].event
    <2>1. mail'[u][h].seen \/ \E g \in 1 .. Len(mail[u]) : g # i /\ mail'[u][h] = mail[u][g]
      BY <1>1, HandledFacts
    <2>2. ASSUME NEW g \in 1 .. Len(mail[u]), g # i
          PROVE  mail[u][g].seen \/ mail[u][g].at < mail[u][i].at
      <3>1. g \in 1 .. i - 1
        BY <1>1, <2>2
      <3> QED
        BY <3>1 DEF MayArrive
    <2> QED
      BY <2>1, <2>2
  <1> QED
    BY <1>2 DEF Overtaken

(* What a report about a user did to them.                                 *)
Ignored(u, e) == /\ e.seen \/ e.at < part[u].event
                 /\ part'[u] = part[u]
Usable(u, e) == ~e.seen /\ e.at >= part[u].event
WasLetIn(u, e) == /\ Usable(u, e) /\ e.type = "participant_joined"
                  /\ part'[u].status = "joined" /\ part'[u].event = e.at
WasTurnedAway(u, e) == /\ Usable(u, e) /\ e.type = "participant_joined"
                       /\ part'[u] = part[u] /\ ToBePutOut(u)'
HasLeft(u, e) == /\ Usable(u, e) /\ e.type = "participant_left"
                 /\ part'[u].status # "joined" /\ part'[u].event = e.at

(* Whatever it did, the user is accounted for.                             *)
LEMMA Heard ==
    ASSUME RInv, NEW u \in Users, NEW i \in 1 .. Len(mail[u]), Accounted(u),
           MayArrive(u, i), Handled(mail[u], i, mail'[u]), UNCHANGED room,
           LET e == mail[u][i]
           IN  Ignored(u, e) \/ WasLetIn(u, e) \/ WasTurnedAway(u, e) \/ HasLeft(u, e),
           ToBePutOut(u) => ToBePutOut(u)',
           Kept(u) => Kept(u)' \/ ToBePutOut(u)'
    PROVE  Accounted(u)'
  <1> DEFINE e == mail[u][i]
  <1>1. /\ e \in Event /\ e.at \in Int
        /\ part[u].event \in Int
    <2>1. mail[u] \in Seq(Event) /\ part[u] \in ParticipantRow
      BY DEF RInv, IInv, TypeOK
    <2> QED
      BY <2>1, EventFacts, CallAssumption DEF ParticipantRow, Time
  <1>2. i = Len(mail[u]) =>
           \A type : Pending(u, type) => e.type = type /\ Usable(u, e)
    BY DEF Pending, Usable
  <1>3. Usable(u, e) => ~Overtaken(u)
    BY <1>1 DEF Usable, Overtaken
  <1>4. part'[u].event = part[u].event \/ part'[u].event = e.at
    BY DEF Ignored, WasLetIn, WasTurnedAway, HasLeft
  <1>5. i # Len(mail[u]) => \A type : Pending(u, type) => Pending(u, type)'
    BY <1>4, PendingStays
  <1>6. Overtaken(u) /\ part'[u].event = part[u].event => Overtaken(u)'
    BY OvertakenStays
  <1>7. i = Len(mail[u]) /\ part'[u].event = e.at => Overtaken(u)'
    BY NewestUsed
  <1> HIDE DEF e
  <1>8. CASE u \in room
    <2>1. Present(u)
      BY <1>8 DEF Accounted
    <2>2. CASE ToBePutOut(u) \/ Kept(u)
      BY <1>8, <2>2 DEF Accounted, Present
    <2>3. CASE part[u].status = "joined" /\ Overtaken(u)
      <3>1. Ignored(u, e)
        BY <1>3, <2>3 DEF WasLetIn, WasTurnedAway, HasLeft, e
      <3> QED
        BY <1>6, <1>8, <2>3, <3>1 DEF Accounted, Present, Ignored
    <2>4. CASE Pending(u, "participant_joined") /\ i # Len(mail[u])
      BY <1>5, <1>8, <2>4 DEF Accounted, Present
    <2>5. CASE Pending(u, "participant_joined") /\ i = Len(mail[u])
      <3>1. e.type = "participant_joined" /\ Usable(u, e)
        BY <1>2, <2>5
      <3>2. WasLetIn(u, e) \/ WasTurnedAway(u, e)
        BY <1>1, <3>1 DEF Ignored, HasLeft, Usable, e
      <3>3. CASE WasLetIn(u, e)
        BY <1>7, <1>8, <2>5, <3>3 DEF Accounted, Present, WasLetIn
      <3>4. CASE WasTurnedAway(u, e)
        BY <1>8, <3>4 DEF Accounted, Present, WasTurnedAway
      <3> QED
        BY <3>2, <3>3, <3>4
    <2> QED
      BY <2>1, <2>2, <2>3, <2>4, <2>5 DEF Present
  <1>9. CASE u \notin room
    <2>1. Gone(u)
      BY <1>9 DEF Accounted
    <2>2. CASE part[u].status # "joined" /\ Overtaken(u)
      <3>1. Ignored(u, e)
        BY <1>3, <2>2 DEF WasLetIn, WasTurnedAway, HasLeft, e
      <3> QED
        BY <1>6, <1>9, <2>2, <3>1 DEF Accounted, Gone, Ignored
    <2>3. CASE Pending(u, "participant_left") /\ i # Len(mail[u])
      BY <1>5, <1>9, <2>3 DEF Accounted, Gone
    <2>4. CASE Pending(u, "participant_left") /\ i = Len(mail[u])
      <3>1. e.type = "participant_left" /\ Usable(u, e)
        BY <1>2, <2>4
      <3>2. HasLeft(u, e)
        BY <1>1, <3>1 DEF Ignored, WasLetIn, WasTurnedAway, Usable, e
      <3> QED
        BY <1>7, <1>9, <2>4, <3>2 DEF Accounted, Gone, HasLeft
    <2> QED
      BY <2>1, <2>2, <2>3, <2>4 DEF Gone
  <1> QED
    BY <1>8, <1>9

(* What a report did to everybody else and to the call.                    *)
Elsewhere(u) ==
    /\ jobs \subseteq jobs'
    /\ \A v \in Users \ {u} :
          /\ part'[v].event = part[v].event
          /\ part'[v].status = "joined" => part[v].status = "joined"
          /\ part[v].status = "joined" => part'[v].status = "joined" \/ ToBePutOut(v)'
    /\ call'.status \in {"ended", "cancelled"} =>
          call.status \in {"ended", "cancelled"} \/ \E j \in jobs' : j.kind = "room"
    /\ call'.status = "none" => call.status = "none"

LEMMA RowFacts ==
    ASSUME IInv, NEW u \in Users, NEW e \in Event
    PROVE  /\ part \in [Users -> ParticipantRow] /\ call \in CallRow
           /\ part[u] \in ParticipantRow /\ part[u].event \in Int
           /\ e.at \in Time /\ e.at \in Int
  <1>1. part \in [Users -> ParticipantRow] /\ call \in CallRow
    BY DEF IInv, TypeOK
  <1>2. part[u] \in ParticipantRow
    BY <1>1
  <1>3. part[u].event \in Int
    BY <1>2, CallAssumption DEF ParticipantRow, Time
  <1>4. e.at \in Time /\ e.at \in Int
    BY CallAssumption DEF Event, Time
  <1> QED
    BY <1>1, <1>2, <1>3, <1>4

LEMMA JoinedEffects ==
    ASSUME IInv, NEW u \in Users, NEW e \in Event, ~e.seen,
           e.type = "participant_joined", ParticipantJoined(u, e)
    PROVE  /\ Elsewhere(u)
           /\ Ignored(u, e) \/ WasLetIn(u, e) \/ WasTurnedAway(u, e)
  <1>1. /\ part \in [Users -> ParticipantRow] /\ call \in CallRow
        /\ part[u] \in ParticipantRow /\ part[u].event \in Int /\ e.at \in Int
    BY RowFacts
  <1>2. CASE StaleForParticipant(u, e) /\ UNCHANGED <<call, part, jobs>>
    BY <1>2 DEF Elsewhere, Ignored, StaleForParticipant
  <1>3. CASE ~StaleForParticipant(u, e) /\ Authorized(u) /\ LetIn(u, e.at)
    <2>1. call'.status = "active" /\ jobs' = jobs
      BY <1>1, <1>3 DEF LetIn, CallRow
    <2>2. \A v \in Users \ {u} : part'[v] = part[v]
      BY <1>1, <1>3 DEF LetIn
    <2>3. part'[u].status = "joined" /\ part'[u].event = e.at
      BY <1>1, <1>3 DEF LetIn, ParticipantRow
    <2> QED
      BY <1>1, <1>3, <2>1, <2>2, <2>3 DEF Elsewhere, WasLetIn, Usable, StaleForParticipant
  <1>4. CASE ~StaleForParticipant(u, e) /\ TurnAway(u)
    <2>1. /\ RevokeJob(u) \in jobs' /\ RevokeJob(u).user = u /\ jobs \subseteq jobs'
          /\ UNCHANGED <<call, part>>
      BY <1>4 DEF TurnAway, RevokeJob
    <2>2. ToBePutOut(u)'
      BY <2>1 DEF ToBePutOut
    <2> QED
      BY <1>1, <1>4, <2>1, <2>2 DEF Elsewhere, WasTurnedAway, Usable, StaleForParticipant
  <1> QED
    BY <1>2, <1>3, <1>4 DEF ParticipantJoined

LEMMA LeftEffects ==
    ASSUME IInv, NEW u \in Users, NEW e \in Event, ~e.seen,
           e.type = "participant_left", ParticipantLeft(u, e)
    PROVE  Elsewhere(u) /\ (Ignored(u, e) \/ HasLeft(u, e))
  <1> DEFINE gone == [part EXCEPT ![u].status = IF @ = "removed" THEN @ ELSE "left",
                                  ![u].left = e.at, ![u].event = e.at]
  <1>1. /\ part \in [Users -> ParticipantRow] /\ call \in CallRow
        /\ part[u] \in ParticipantRow /\ part[u].event \in Int
        /\ e.at \in Int /\ e.at \in Time
    BY RowFacts
  <1>2. /\ gone \in [Users -> ParticipantRow]
        /\ gone[u].status # "joined" /\ gone[u].event = e.at
        /\ \A v \in Users \ {u} : gone[v] = part[v]
    <2> DEFINE r == [part[u] EXCEPT !.status = IF @ = "removed" THEN @ ELSE "left",
                                    !.left = e.at, !.event = e.at]
    <2>1. r \in ParticipantRow /\ r.status # "joined" /\ r.event = e.at
      BY <1>1 DEF ParticipantRow, JoinableParticipantStatuses
    <2>2. gone = [part EXCEPT ![u] = r]
      BY <1>1
    <2> HIDE DEF r, gone
    <2> QED
      BY <1>1, <2>1, <2>2
  <1>3. CASE StaleForParticipant(u, e) /\ UNCHANGED <<call, part, jobs>>
    BY <1>3 DEF Elsewhere, Ignored, StaleForParticipant
  <1>4. CASE /\ ~StaleForParticipant(u, e) /\ CallerLeaves(u)
             /\ Terminalize("cancelled", gone) /\ jobs' = jobs \union {RoomJob}
    <2> HIDE DEF gone
    <2>1. call'.status = "cancelled"
      BY <1>1, <1>4 DEF Terminalize, CallRow
    <2>2. RoomJob \in jobs' /\ RoomJob.kind = "room" /\ jobs \subseteq jobs'
      BY <1>4 DEF RoomJob
    <2>3. ASSUME NEW v \in Users
          PROVE  /\ part'[v].event = gone[v].event /\ part'[v].status # "joined"
                 /\ ToBePutOut(v)'
      <3>1. gone[v] \in ParticipantRow
        BY <1>2
      <3>2. MarkRemaining(gone)[v].event = gone[v].event
        BY <3>1 DEF MarkRemaining, ParticipantRow
      <3>3. MarkRemaining(gone)[v].status # "joined"
        BY <1>2, MarkRemainingFacts DEF Remaining
      <3> QED
        BY <1>4, <2>2, <3>2, <3>3 DEF Terminalize, ToBePutOut
    <2>4. Elsewhere(u)
      BY <1>2, <2>1, <2>2, <2>3 DEF Elsewhere
    <2> QED
      BY <1>1, <1>2, <1>4, <2>3, <2>4 DEF HasLeft, Usable, StaleForParticipant
  <1>5. CASE ~StaleForParticipant(u, e) /\ part' = gone /\ UNCHANGED <<call, jobs>>
    <2> HIDE DEF gone
    <2>1. Elsewhere(u)
      BY <1>2, <1>5 DEF Elsewhere
    <2> QED
      BY <1>1, <1>2, <1>5, <2>1 DEF HasLeft, Usable, StaleForParticipant
  <1> QED
    BY <1>3, <1>4, <1>5 DEF ParticipantLeft

LEMMA UserWebhookTells ==
    ASSUME NEW u \in Users, NEW i \in 1 .. Len(mail[u])
    PROVE  RInv /\ Webhook(u, i) => RoomIsTold'
  <1> SUFFICES ASSUME RInv, Webhook(u, i)
               PROVE  RoomIsTold'
    OBVIOUS
  <1> DEFINE e == mail[u][i]
  <1>1. /\ mail \in [Users \union {TheRoom} -> Seq(Event)] /\ mail[u] \in Seq(Event)
        /\ TheRoom \notin Users
        /\ part \in [Users -> ParticipantRow]
        /\ now \in Int
        /\ Len(mail[u]) \in Nat /\ e \in Event /\ e.at \in Int
        /\ Chronicle(u, mail[u], now)
    BY EventFacts, CallAssumption DEF RInv, IInv, TypeOK, RoomIsTold, InOrder, TheRoom, Time
  <1>2. e.type \in {"participant_joined", "participant_left"} /\ e.at <= now
    BY <1>1 DEF Chronicle, Kinds
  <1>3. /\ UNCHANGED <<now, room, spared, token>>
        /\ MayArrive(u, i) /\ Process(u, e)
    BY DEF Webhook, livekit
  <1>4. /\ Handled(mail[u], i, mail'[u])
        /\ \A v \in (Users \union {TheRoom}) \ {u} : mail'[v] = mail[v]
        /\ spent'["loss"] = spent["loss"]
    <2>1. CASE mail' = [mail EXCEPT ![u] = RemoveAt(@, i)] /\ UNCHANGED spent
      BY <1>1, <2>1 DEF Handled
    <2>2. CASE Spend("repeat") /\ mail' = [mail EXCEPT ![u][i].seen = TRUE]
      <3>1. spent'["loss"] = spent["loss"]
        BY <2>2, SpendKeepsLoss DEF RInv, Bounded
      <3> QED
        BY <1>1, <2>2, <3>1 DEF Handled
    <2> QED
      BY <2>1, <2>2 DEF Webhook
  <1>5. /\ Elsewhere(u)
        /\ Ignored(u, e) \/ WasLetIn(u, e) \/ WasTurnedAway(u, e) \/ HasLeft(u, e)
    <2>1. CASE e.seen
      BY <1>3, <2>1 DEF Process, Elsewhere, Ignored
    <2>2. CASE ~e.seen /\ e.type = "participant_joined"
      <3>1. ParticipantJoined(u, e)
        BY <1>3, <2>2 DEF Process, Apply
      <3> QED
        BY <1>1, <2>2, <3>1, JoinedEffects DEF RInv
    <2>3. CASE ~e.seen /\ e.type = "participant_left"
      <3>1. ParticipantLeft(u, e)
        BY <1>3, <2>3 DEF Process, Apply
      <3> QED
        BY <1>1, <2>3, <3>1, LeftEffects DEF RInv
    <2> QED
      BY <1>2, <2>1, <2>2, <2>3
  <1> HIDE DEF e
  <1>6. InOrder'
    <2>1. Chronicle(u, mail'[u], now)
      BY <1>1, <1>4, HandledInOrder
    <2>2. ASSUME NEW v \in Users \union {TheRoom}
          PROVE  Chronicle(v, mail'[v], now)
      BY <1>4, <2>1, <2>2 DEF RInv, RoomIsTold, InOrder
    <2>3. ASSUME NEW v \in Users
          PROVE  part'[v].event <= now
      <3>1. part[v].event <= now
        BY DEF RInv, RoomIsTold, InOrder
      <3>2. part'[v].event = part[v].event \/ part'[v].event = e.at
        BY <1>5 DEF Elsewhere, Ignored, WasLetIn, WasTurnedAway, HasLeft
      <3> QED
        BY <1>2, <3>1, <3>2
    <2> QED
      BY <1>3, <2>2, <2>3 DEF InOrder
  <1>7. Silent'
    <2>1. call.status # "none"
      BY <1>1 DEF RInv, RoomIsTold, Silent
    <2> QED
      BY <1>5, <2>1 DEF Elsewhere, Silent
  <1>8. ASSUME Lossless', NEW v \in Users
        PROVE  Accounted(v)'
    <2>1. Accounted(v)
      BY <1>4, <1>8 DEF RInv, RoomIsTold, Lossless
    <2>2. ToBePutOut(v) => ToBePutOut(v)'
      BY <1>5 DEF Elsewhere, ToBePutOut
    <2>3. Kept(v) => Kept(v)' \/ ToBePutOut(v)'
      BY <1>3, <1>5 DEF Elsewhere, Kept, ToBePutOut
    <2>4. CASE v = u
      <3>1. Accounted(u) /\ (ToBePutOut(u) => ToBePutOut(u)')
            /\ (Kept(u) => Kept(u)' \/ ToBePutOut(u)')
        BY <2>1, <2>2, <2>3, <2>4
      <3> QED
        BY <1>3, <1>4, <1>5, <2>4, <3>1, Heard DEF e
    <2>5. CASE v # u
      BY <1>3, <1>4, <1>5, <2>1, <2>2, <2>3, <2>5, Bystander DEF Elsewhere
    <2> QED
      BY <2>4, <2>5
  <1> QED
    BY <1>6, <1>7, <1>8 DEF RoomIsTold

-----------------------------------------------------------------------------
(* Webhooks about the room, and those given up on.                         *)

LEMMA RoomWebhookTells ==
    ASSUME NEW i \in 1 .. Len(mail[TheRoom])
    PROVE  RInv /\ Webhook(TheRoom, i) => RoomIsTold'
  <1> SUFFICES ASSUME RInv, Webhook(TheRoom, i)
               PROVE  RoomIsTold'
    OBVIOUS
  <1> DEFINE e == mail[TheRoom][i]
  <1>1. /\ mail \in [Users \union {TheRoom} -> Seq(Event)] /\ mail[TheRoom] \in Seq(Event)
        /\ TheRoom \notin Users
        /\ part \in [Users -> ParticipantRow] /\ call \in CallRow
        /\ now \in Time /\ now \in Int /\ now >= now
        /\ Chronicle(TheRoom, mail[TheRoom], now)
    BY CallAssumption DEF RInv, IInv, TypeOK, RoomIsTold, InOrder, TheRoom, Time
  <1>2. e.type \in {"room_started", "room_finished"}
    BY <1>1 DEF Chronicle, Kinds
  <1>3. UNCHANGED <<now, room, spared, token>> /\ Process(TheRoom, e)
    BY DEF Webhook, livekit
  <1>4. /\ Handled(mail[TheRoom], i, mail'[TheRoom])
        /\ \A v \in Users : mail'[v] = mail[v]
        /\ spent'["loss"] = spent["loss"]
    <2>1. CASE mail' = [mail EXCEPT ![TheRoom] = RemoveAt(@, i)] /\ UNCHANGED spent
      BY <1>1, <2>1 DEF Handled
    <2>2. CASE Spend("repeat") /\ mail' = [mail EXCEPT ![TheRoom][i].seen = TRUE]
      <3>1. spent'["loss"] = spent["loss"]
        BY <2>2, SpendKeepsLoss DEF RInv, Bounded
      <3> QED
        BY <1>1, <2>2, <3>1 DEF Handled
    <2> QED
      BY <2>1, <2>2 DEF Webhook
  <1>5. Chronicle(TheRoom, mail'[TheRoom], now)
    BY <1>1, <1>4, HandledInOrder
  <1>6. /\ jobs' = jobs
        /\ \A v \in Users : /\ part'[v].event = part[v].event
                            /\ part'[v].status = "joined" <=> part[v].status = "joined"
        /\ call'.status \in {"ended", "cancelled"} => call.status = call'.status
        /\ call'.status = "none" => call.status = "none"
    <2>1. CASE UNCHANGED <<call, part, jobs>>
      BY <2>1
    <2>2. CASE RoomStarted(e)
      BY <1>1, <2>2 DEF RoomStarted, CallRow
    <2>3. CASE RoomFinished(e) /\ ~(UNCHANGED <<call, part, jobs>>)
      <3>1. /\ call' = [call EXCEPT !.event = Later(@, e.at),
                                    !.status = IF @ = "ringing" THEN "missed" ELSE @]
            /\ part' = IF call.status = "ringing" THEN MarkRemaining(part) ELSE part
            /\ UNCHANGED jobs
        BY <2>3 DEF RoomFinished
      <3>2. call'.status = IF call.status = "ringing" THEN "missed" ELSE call.status
        BY <1>1, <3>1 DEF CallRow
      <3>3. ASSUME call.status = "ringing", NEW v \in Users
            PROVE  /\ MarkRemaining(part)[v].event = part[v].event
                   /\ MarkRemaining(part)[v].status # "joined" /\ part[v].status # "joined"
        <4>1. part[v] \in ParticipantRow
          BY <1>1
        <4>2. MarkRemaining(part)[v].event = part[v].event
          BY <4>1 DEF MarkRemaining, ParticipantRow
        <4>3. MarkRemaining(part)[v].status # "joined"
          BY <1>1, MarkRemainingFacts DEF Remaining
        <4>4. part[v].status # "joined"
          BY <3>3 DEF RInv, IInv, Rows, RowsAgree, Joined
        <4> QED
          BY <4>2, <4>3, <4>4
      <3> QED
        BY <3>1, <3>2, <3>3
    <2> QED
      BY <1>2, <1>3, <2>1, <2>2, <2>3 DEF Process, Apply
  <1> QED
    BY <1>1, <1>3, <1>4, <1>5, <1>6, NobodyMoves

LEMMA WebhookTells ==
    ASSUME NEW u \in DOMAIN mail, NEW i \in DOMAIN mail[u]
    PROVE  RInv /\ Webhook(u, i) => RoomIsTold'
  <1> SUFFICES ASSUME RInv, Webhook(u, i)
               PROVE  RoomIsTold'
    OBVIOUS
  <1>1. u \in Users \union {TheRoom} /\ mail[u] \in Seq(Event)
    BY DEF RInv, IInv, TypeOK
  <1>2. i \in 1 .. Len(mail[u])
    BY <1>1, LenProperties
  <1> QED
    BY <1>1, <1>2, UserWebhookTells, RoomWebhookTells

(* When LiveKit gives up on a webhook nothing more is claimed of the room. *)
LEMMA GiveUpTells ==
    ASSUME NEW u \in DOMAIN mail, NEW i \in DOMAIN mail[u]
    PROVE  RInv /\ GiveUp(u, i) => RoomIsTold'
  <1> SUFFICES ASSUME RInv, GiveUp(u, i)
               PROVE  RoomIsTold'
    OBVIOUS
  <1>1. /\ mail \in [Users \union {TheRoom} -> Seq(Event)]
        /\ u \in Users \union {TheRoom} /\ mail[u] \in Seq(Event)
        /\ now \in Int
    BY CallAssumption DEF RInv, IInv, TypeOK, Time
  <1>2. i \in 1 .. Len(mail[u])
    BY <1>1, LenProperties
  <1>3. /\ UNCHANGED <<now, call, part, room, token>>
        /\ mail'[u] = RemoveAt(mail[u], i)
        /\ \A v \in (Users \union {TheRoom}) \ {u} : mail'[v] = mail[v]
    BY <1>1 DEF GiveUp, rows, livekit
  <1>4. ~Lossless'
    <2>1. spent["loss"] \in Nat /\ spent'["loss"] = spent["loss"] + 1
      BY DEF GiveUp, Spend, RInv, IInv, TypeOK, Bounded
    <2> QED
      BY <2>1 DEF Lossless
  <1>5. InOrder'
    <2>1. Chronicle(u, mail'[u], now)
      BY <1>1, <1>2, <1>3, HandledInOrder DEF Handled, RInv, RoomIsTold, InOrder
    <2> QED
      BY <1>1, <1>3, <2>1 DEF RInv, RoomIsTold, InOrder
  <1>6. Silent'
    <2>1. call.status = "none" => u \notin Users
      <3>1. mail[u] # <<>>
        BY <1>1, <1>2
      <3> QED
        BY <3>1 DEF RInv, RoomIsTold, Silent
    <2> QED
      BY <1>3, <2>1 DEF RInv, RoomIsTold, Silent
  <1> QED
    BY <1>4, <1>5, <1>6 DEF RoomIsTold

-----------------------------------------------------------------------------
(* The invariant, and what it says once all is settled.                    *)

LEMMA InitTells == Init => RInv
  <1> SUFFICES ASSUME Init
               PROVE  RInv
    OBVIOUS
  <1>1. IInv
    BY InitHolds
  <1>2. InOrder
    BY DEF Init, InOrder, Chronicle
  <1>3. Silent
    BY DEF Init, Silent
  <1>4. \A u \in Users : Accounted(u)
    BY DEF Init, Accounted, Gone, Overtaken
  <1> QED
    BY <1>1, <1>2, <1>3, <1>4 DEF RInv, RoomIsTold

LEMMA StepTells == RInv /\ [Next]_vars => RInv'
  <1> SUFFICES ASSUME RInv, [Next]_vars
               PROVE  RoomIsTold'
    BY StepHolds DEF RInv
  <1>1. CASE UNCHANGED vars
    <2>1. UNCHANGED <<now, call, part, jobs, room, mail, spared, token, spent>>
      BY <1>1 DEF vars, rows, livekit
    <2>2. now \in Time /\ now >= now
      BY CallAssumption DEF RInv, IInv, TypeOK, Time
    <2> QED
      BY <2>1, <2>2, Idling
  <1>2. CASE StartCall \/ EndCall \/ Reap \/ FinishRoom \/ Tick
    BY <1>2, StartCallTells, EndCallTells, ReapTells, FinishRoomTells, TickTells
  <1>3. ASSUME NEW u \in Users,
               \/ BeginJoin(u) \/ FinishJoin(u) \/ RollBackJoin(u)
               \/ LeaveCall(u) \/ DeclineCall(u) \/ RemoveMember(u)
               \/ Connect(u) \/ Disconnect(u)
        PROVE  RoomIsTold'
    BY <1>3, BeginJoinTells, FinishJoinTells, LeaveCallTells, DeclineCallTells,
       RemoveMemberTells, ConnectTells, DisconnectTells
  <1>4. ASSUME NEW u \in DOMAIN mail, NEW i \in DOMAIN mail[u], Webhook(u, i) \/ GiveUp(u, i)
        PROVE  RoomIsTold'
    BY <1>4, WebhookTells, GiveUpTells
  <1>5. ASSUME NEW j \in jobs, BeginRevoke(j) \/ RevokeRemoved(j) \/ TerminateRoom(j)
        PROVE  RoomIsTold'
    BY <1>5, BeginRevokeTells, RevokeRemovedTells, TerminateRoomTells
  <1>6. ASSUME NEW j \in underway, RevokeFails(j) \/ Revoke(j)
        PROVE  RoomIsTold'
    BY <1>6, RevokeFailsTells, RevokeTells
  <1> QED
    BY <1>1, <1>2, <1>3, <1>4, <1>5, <1>6 DEF Next

(* At every moment, if LiveKit has given up on no webhook, each user is    *)
(* accounted for: the newest report about them is still to be used, or     *)
(* nothing that is on its way can change what their row says and the row   *)
(* is right, or a job is due that puts them out.                           *)
THEOREM EverybodyIsAccountedFor == Spec => []RInv
  BY InitTells, StepTells, PTL DEF Spec

(* When every webhook has been handled and every media job is done, those  *)
(* counted as joined are in the room, and those in the room are counted as *)
(* joined, but for users whose revocation was given up because they had    *)
(* asked to join again; nobody is in the room of a call that was ended or  *)
(* cancelled.                                                              *)
THEOREM RoomIsAsTheRowsSay == Spec => []RoomMatchesRows
  <1>1. RInv => RoomMatchesRows
    <2> SUFFICES ASSUME RInv, Settled
                 PROVE  /\ Joined(part) \subseteq room
                        /\ room \subseteq Joined(part) \union spared
                        /\ call.status \in {"ended", "cancelled"} => room = {}
      BY DEF RoomMatchesRows
    <2>1. /\ room \subseteq Users /\ DOMAIN mail = Users \union {TheRoom}
          /\ Lossless /\ jobs = {}
      BY DEF RInv, IInv, TypeOK, Settled, Lossless
    <2>2. ASSUME NEW u \in Users
          PROVE  /\ Accounted(u) /\ ~ToBePutOut(u)
                 /\ \A type : ~Pending(u, type)
      <3>1. mail[u] = <<>>
        BY <2>1 DEF Settled
      <3> QED
        BY <2>1, <3>1 DEF RInv, RoomIsTold, ToBePutOut, Pending
    <2>3. Joined(part) \subseteq room
      BY <2>2 DEF Joined, Accounted, Gone
    <2>4. \A u \in room : u \in Joined(part) \/ Kept(u)
      BY <2>1, <2>2 DEF Joined, Accounted, Present
    <2>5. call.status \in {"ended", "cancelled"} => Joined(part) = {}
      BY DEF RInv, IInv, Rows, RowsAgree
    <2> QED
      BY <2>3, <2>4, <2>5 DEF Kept
  <1> QED
    BY <1>1, EverybodyIsAccountedFor, PTL

(* Once everything has arrived, the one way for a removed member to be in  *)
(* the room is a revocation that was given up (RemovedAreOut, which has no *)
(* such exception, does not hold).                                         *)
RemovedWereSpared == Settled => room \subseteq member \union spared

THEOREM OnlySparedMembersStay == Spec => []RemovedWereSpared
  <1>1. RoomMatchesRows /\ RemovedHaveNotJoined => RemovedWereSpared
    BY DEF RoomMatchesRows, RemovedHaveNotJoined, RemovedWereSpared
  <1> QED
    BY <1>1, RoomIsAsTheRowsSay, RemovedStayUncounted, PTL
=============================================================================
