------------------------- MODULE TeamCallLifecycle --------------------------
(***************************************************************************)
(* One team call, from its first ring until everybody is out of its room   *)
(* (backend/team_call_lifecycle.py, with the media jobs of the realtime    *)
(* outbox and the removal of members in backend/team_communications.py).   *)
(*                                                                         *)
(* Three parties that do not wait for one another keep the state of a      *)
(* call.  The requests of the users and the reaper change the rows of the  *)
(* database, one transaction after the other: each takes the row of the    *)
(* call first.  LiveKit holds the room: it lets in whoever has a token it  *)
(* has not been told to refuse, and reports what happened by webhooks that *)
(* arrive late, out of order or again.  The outbox asks LiveKit to put     *)
(* people out, some time after the transaction that wanted it.             *)
(*                                                                         *)
(* Time is in whole seconds, as the times of webhooks and of revocations   *)
(* are (int(...timestamp())); 0 stands for NULL.                           *)
(***************************************************************************)
EXTENDS Integers, Sequences, SequencesExt

CONSTANTS Users,          \* the members of the conversation when it rings
          Caller,         \* the one who starts the call
          NoOne,          \* not a user
          RingTimeout,    \* seconds a call rings (_ring_timeout_seconds)
          MaxDuration,    \* seconds a call may last (_max_call_duration_seconds)
          Grace,          \* seconds an empty call is kept (_reconnect_grace_seconds)
          Horizon,        \* bound: the last second
          Busy,           \* bound: the last second with new calls and connections
          Limit           \* bound: how often each of Bounded may happen

(* What a run bounds: requests after the first, connections to the room,   *)
(* webhooks and jobs delivered again, webhooks given up on, and members    *)
(* removed from the organization.                                          *)
Bounded == {"request", "connection", "repeat", "loss", "removal"}

ASSUME CallAssumption ==
    /\ Caller \in Users
    /\ NoOne \notin Users
    /\ RingTimeout \in Nat \ {0} /\ MaxDuration \in Nat \ {0} /\ Grace \in Nat \ {0}
    /\ Horizon \in Nat \ {0} /\ Busy \in 1 .. Horizon
    /\ Limit \in [Bounded -> Nat]

VARIABLES now,       \* the second it is
          call,      \* the row of call_sessions
          part,      \* the rows of call_participants
          member,    \* who is an active member of organization and conversation
          joining,   \* whose join has locked the call and found them a member
          begun,     \* the second that transaction began
          jobs,      \* pending media jobs in team_realtime_outbox
          underway,  \* revocations found current and now being carried out
          spared,    \* whose revocation was given up since they last connected:
                     \* a note of the model, which no action reads
          token,     \* the second each user's newest token is valid from
          room,      \* who is connected to the room at LiveKit
          open,      \* whether the room exists there
          cutoff,    \* the oldest second from which LiveKit takes a user's tokens
          mail,      \* webhooks on their way: those about each user, in the
                     \* order LiveKit sent them, and those about the room
          spent      \* how often each of Bounded has happened

rows == <<call, part, member, joining, begun, jobs>>
livekit == <<token, room, open, cutoff>>
vars == <<now, rows, underway, spared, livekit, mail, spent>>

Live == {"ringing", "active"}
TerminalCallStatuses == {"ended", "missed", "cancelled"}
JoinableParticipantStatuses == {"invited", "connecting", "joined", "declined", "left"}
Remaining == {"invited", "connecting", "joined"}

Time == 0 .. Horizon
CallRow == [status : {"none"} \union Live \union TerminalCallStatuses,
            rings : 0 .. Horizon + RingTimeout, started : Time, event : Time]
ParticipantRow == [status : JoinableParticipantStatuses \union {"none", "missed", "removed"},
                   issued : Time, left : Time, event : Time]
Job == [kind : {"revoke", "member", "room"}, user : Users \union {NoOne}, at : Time]
TheRoom == NoOne        \* what a webhook about no user is about
Event == [type : {"room_started", "participant_joined", "participant_left", "room_finished"},
          at : 1 .. Horizon, seen : BOOLEAN]

-----------------------------------------------------------------------------
(* Rows.                                                                   *)

Spend(what) == /\ spent[what] < Limit[what]
               /\ spent' = [spent EXCEPT ![what] = @ + 1]

Later(s, t) == IF s > t THEN s ELSE t
Joined(p) == {u \in Users : p[u].status = "joined"}

\* Bug: those who have not joined are forgotten.
MarkRemaining_Joined(p) ==
    [u \in Users |-> [p[u] EXCEPT !.status = IF @ = "joined" THEN "left" ELSE @]]

(* _mark_remaining_participants_terminal: nobody stays on their way in.    *)
MarkRemaining(p) ==
    [u \in Users |->
        [p[u] EXCEPT !.status = CASE @ \in {"joined", "connecting"} -> "left"
                                  [] @ = "invited" -> "missed"
                                  [] OTHER -> @]]

RevokeJob(u) == [kind |-> "revoke", user |-> u, at |-> now]
RoomJob == [kind |-> "room", user |-> NoOne, at |-> now]

(* _terminalize_call and _mark_remaining_participants_terminal on a live   *)
(* call whose participants are p.                                          *)
Terminalize(status, p) ==
    /\ call' = [call EXCEPT !.status = status]
    /\ part' = MarkRemaining(p)

(* The row of the call is free: no join is between its first and its last  *)
(* statement.  Whoever needs it waits; the reaper passes over it.          *)
CallRowFree == joining = NoOne

-----------------------------------------------------------------------------
(* Requests of users.                                                      *)

(* start_call: the caller gets a token at once, the others an invitation.  *)
StartCall ==
    /\ call.status = "none" /\ now <= Busy
    /\ call' = [call EXCEPT !.status = "ringing", !.rings = now + RingTimeout]
    /\ part' = [u \in Users |->
                  [status |-> IF u = Caller THEN "connecting" ELSE "invited",
                   issued |-> IF u = Caller THEN now ELSE 0, left |-> 0, event |-> 0]]
    /\ token' = [token EXCEPT ![Caller] = now]
    /\ UNCHANGED <<now, member, joining, begun, jobs, underway, spared, room, open, cutoff, mail, spent>>

(* join_call, until the user is found to be a member.  The transaction may *)
(* have begun earlier and waited for the row: NOW() is when it began.      *)
BeginJoin(u) ==
    /\ CallRowFree
    /\ call.status # "none"
    /\ u \in member
    /\ Spend("request")
    /\ joining' = u
    /\ begun' \in call.rings - RingTimeout .. now
    /\ UNCHANGED <<now, call, part, member, jobs, underway, spared, livekit, mail>>

RingingIsOver == call.status = "ringing" /\ call.rings <= now

(* join_call, the rest of the transaction.  A call that has rung out is    *)
(* missed instead; a call that is over, a participant who was removed and  *)
(* one who may not join are refused.                                       *)
FinishJoin(u) ==
    /\ joining = u
    /\ joining' = NoOne /\ begun' = 0
    /\ \/ /\ RingingIsOver
          /\ Terminalize("missed", part)
          /\ jobs' = jobs \union {RoomJob}
          /\ UNCHANGED token
       \/ /\ call.status \in Live /\ ~RingingIsOver
          /\ part[u].status \in JoinableParticipantStatuses
          /\ part' = [part EXCEPT ![u].status = IF @ = "joined" THEN "joined"
                                                ELSE "connecting",
                                  ![u].issued = begun]
          /\ token' = [token EXCEPT ![u] = now]
          /\ UNCHANGED <<call, jobs>>
       \/ /\ call.status \notin Live \/ part[u].status \notin JoinableParticipantStatuses
          /\ ~RingingIsOver
          /\ UNCHANGED <<call, part, jobs, token>>
    /\ UNCHANGED <<now, member, underway, spared, room, open, cutoff, mail, spent>>

(* join_call fails (consent, token, database) and is rolled back.          *)
RollBackJoin(u) ==
    /\ joining = u
    /\ joining' = NoOne /\ begun' = 0
    /\ UNCHANGED <<now, call, part, member, jobs, underway, spared, livekit, mail, spent>>

\* Bug: an answered call is cancelled, too.
CallerLeaves_Live(u) == call.status \in Live /\ u = Caller

CallerLeaves(u) == call.status = "ringing" /\ u = Caller

(* leave_call: a caller who leaves a ringing call cancels it; a call that  *)
(* loses the last one who joined ends; else only the one who left is put   *)
(* out of the room.                                                        *)
LeaveCall(u) ==
    /\ CallRowFree
    /\ u \in member
    /\ Spend("request")
    /\ part[u].status # "none"
    /\ LET gone == [part EXCEPT ![u].status = IF @ \in Remaining THEN "left" ELSE @]
           empty == call.status = "active" /\ Joined(gone) = {}
       IN \/ /\ CallerLeaves(u) \/ empty
             /\ Terminalize(IF CallerLeaves(u) THEN "cancelled" ELSE "ended", gone)
             /\ jobs' = jobs \union {RoomJob}
          \/ /\ ~CallerLeaves(u) /\ ~empty
             /\ part' = gone
             /\ jobs' = jobs \union {RevokeJob(u)}
             /\ UNCHANGED call
    /\ UNCHANGED <<now, member, joining, begun, underway, spared, livekit, mail>>

(* decline_call.                                                           *)
DeclineCall(u) ==
    /\ CallRowFree
    /\ u \in member
    /\ Spend("request")
    /\ call.status \in Live
    /\ part[u].status \notin {"none", "removed", "joined"}
    /\ part' = [part EXCEPT ![u].status = "declined"]
    /\ jobs' = jobs \union {RevokeJob(u)}
    /\ UNCHANGED <<now, call, member, joining, begun, underway, spared, livekit, mail>>

\* Bug: a call that is over is ended again.
Unended_Always == call.status # "none"

Unended == call.status \in Live

(* end_call, by the host or an administrator: a call that is over keeps    *)
(* its outcome, and its room is closed again.                              *)
EndCall ==
    /\ CallRowFree
    /\ call.status # "none"
    /\ Spend("request")
    /\ \/ /\ Unended
          /\ Terminalize(IF call.status = "ringing" THEN "cancelled" ELSE "ended", part)
       \/ /\ ~Unended
          /\ UNCHANGED <<call, part>>
    /\ jobs' = jobs \union {RoomJob}
    /\ UNCHANGED <<now, member, joining, begun, underway, spared, livekit, mail>>

\* Bug: the rows change, the media do not.
RevokeMedia_Not(u) == jobs
RevokeMedia(u) == IF call.status \in Live
                  THEN jobs \union {[kind |-> "member", user |-> u, at |-> now]}
                  ELSE jobs

(* revoke_organization_member_communications.  It does not take the row of *)
(* the call: it may come between the two steps of a join.                  *)
RemoveMember(u) ==
    /\ call.status # "none"
    /\ u \in member
    /\ Spend("removal")
    /\ member' = member \ {u}
    /\ part' = [part EXCEPT ![u].status = IF @ \in Remaining THEN "removed" ELSE @]
    /\ jobs' = RevokeMedia(u)
    /\ UNCHANGED <<now, call, joining, begun, underway, spared, livekit, mail>>

-----------------------------------------------------------------------------
(* Webhooks: _process_livekit_webhook_transaction.                         *)

(* A report older than the last one used is left alone, for the call and   *)
(* for each participant.                                                   *)
StaleForCall(e) == e.at < call.event
StaleForParticipant(u, e) == e.at < part[u].event

RoomStarted(e) ==
    /\ call' = [call EXCEPT !.event = IF StaleForCall(e) THEN @ ELSE Later(@, e.at)]
    /\ UNCHANGED <<part, jobs>>

\* Bug: membership is not looked up again.
Authorized_Trusting(u) == /\ part[u].status \in {"connecting", "joined"}
                          /\ call.status \in Live

Authorized(u) == /\ part[u].status \in {"connecting", "joined"}
                 /\ call.status \in Live
                 /\ u \in member        \* _participant_is_still_authorized

\* Bug: whoever is not expected is only left out of the rows.
TurnAway_Silently(u) == UNCHANGED <<call, part, jobs>>

(* Whoever comes in without being expected is put out again.               *)
TurnAway(u) == jobs' = jobs \union {RevokeJob(u)} /\ UNCHANGED <<call, part>>

(* The first to come in answers the call.                                  *)
LetIn(u, at) ==
    /\ part' = [part EXCEPT ![u].status = "joined", ![u].event = at]
    /\ call' = [call EXCEPT !.status = "active",
                            !.started = IF @ = 0 THEN at ELSE @,
                            !.event = Later(@, at)]
    /\ UNCHANGED jobs

ParticipantJoined(u, e) ==
    \/ StaleForParticipant(u, e) /\ UNCHANGED <<call, part, jobs>>
    \/ ~StaleForParticipant(u, e) /\ Authorized(u) /\ LetIn(u, e.at)
    \/ ~StaleForParticipant(u, e) /\ ~Authorized(u) /\ TurnAway(u)

(* participant_left and participant_connection_aborted: an active call is  *)
(* kept for those who come back, a call that rings ends with its caller.   *)
ParticipantLeft(u, e) ==
    LET gone == [part EXCEPT ![u].status = IF @ = "removed" THEN @ ELSE "left",
                             ![u].left = e.at, ![u].event = e.at]
    IN \/ StaleForParticipant(u, e) /\ UNCHANGED <<call, part, jobs>>
       \/ /\ ~StaleForParticipant(u, e)
          /\ CallerLeaves(u)
          /\ Terminalize("cancelled", gone)
          /\ jobs' = jobs \union {RoomJob}
       \/ /\ ~StaleForParticipant(u, e)
          /\ ~CallerLeaves(u)
          /\ part' = gone
          /\ UNCHANGED <<call, jobs>>

RoomFinished(e) ==
    \/ StaleForCall(e) /\ UNCHANGED <<call, part, jobs>>
    \/ /\ ~StaleForCall(e)
       /\ call' = [call EXCEPT !.event = Later(@, e.at),
                               !.status = IF @ = "ringing" THEN "missed" ELSE @]
       /\ part' = IF call.status = "ringing" THEN MarkRemaining(part) ELSE part
       /\ UNCHANGED jobs

Apply(u, e) == CASE e.type = "room_started" -> RoomStarted(e)
                 [] e.type = "participant_joined" -> ParticipantJoined(u, e)
                 [] e.type = "participant_left" -> ParticipantLeft(u, e)
                 [] e.type = "room_finished" -> RoomFinished(e)

\* Bug: a report that arrives again is applied again.
Process_Again(u, e) == Apply(u, e)

(* _record_webhook: a report whose id is in livekit_webhook_events is not  *)
(* applied again.                                                          *)
Process(u, e) == IF e.seen THEN UNCHANGED <<call, part, jobs>> ELSE Apply(u, e)

(* LiveKit reports what one user did within one second in order; anything  *)
(* else may overtake.                                                      *)
MayArrive(u, i) == \A h \in 1 .. i - 1 : mail[u][h].at < mail[u][i].at \/ mail[u][h].seen

(* A webhook is handled; if the answer is lost, LiveKit sends it again.    *)
Webhook(u, i) ==
    /\ CallRowFree
    /\ MayArrive(u, i)
    /\ Process(u, mail[u][i])
    /\ \/ mail' = [mail EXCEPT ![u] = RemoveAt(@, i)] /\ UNCHANGED spent
       \/ /\ ~mail[u][i].seen
          /\ Spend("repeat")
          /\ mail' = [mail EXCEPT ![u][i].seen = TRUE]
    /\ UNCHANGED <<now, member, joining, begun, underway, spared, livekit>>

(* LiveKit stops trying to deliver a webhook.                              *)
GiveUp(u, i) ==
    /\ Spend("loss")
    /\ mail' = [mail EXCEPT ![u] = RemoveAt(@, i)]
    /\ UNCHANGED <<now, rows, underway, spared, livekit>>

-----------------------------------------------------------------------------
(* expire_stale_calls_sync.                                                *)

LastLeft == Max({part[u].left : u \in Users})

\* Bug: the age of a call is not looked at.
TooLong_Never == FALSE
TooLong == call.status = "active" /\ call.started + MaxDuration <= now
Empty == /\ call.status = "active"
         /\ Joined(part) = {}
         /\ LastLeft > 0
         /\ LastLeft + Grace <= now

Reap ==
    /\ CallRowFree
    /\ RingingIsOver \/ TooLong \/ Empty
    /\ Terminalize(IF RingingIsOver THEN "missed" ELSE "ended", part)
    /\ jobs' = jobs \union {RoomJob}
    /\ UNCHANGED <<now, member, joining, begun, underway, spared, livekit, mail, spent>>

-----------------------------------------------------------------------------
(* Media jobs: deliver_claimed_realtime_outbox_row.                        *)

(* call_media_revocation_is_current_sync: token_issued_at has a fraction   *)
(* of a second, the time of the revocation has not, so that a token of the *)
(* same second counts as the later one.                                    *)
Outdated(j) == /\ j.kind = "revoke"
               /\ part[j.user].status \in {"connecting", "joined"}
               /\ part[j.user].issued >= j.at

(* Jobs about one user are delivered in order.                             *)
IsNext(j) == \A k \in jobs : k.kind = j.kind /\ k.user = j.user => k.at >= j.at

(* A worker has claimed a revocation: it is skipped, and done with, when   *)
(* the user has come back since.                                           *)
BeginRevoke(j) ==
    /\ j.kind = "revoke"
    /\ IsNext(j)
    /\ j \notin underway
    /\ \/ /\ ~Outdated(j)
          /\ underway' = underway \union {j}
          /\ UNCHANGED <<jobs, spared>>
       \/ /\ Outdated(j)
          /\ jobs' = jobs \ {j}
          /\ spared' = spared \union {j.user}
          /\ UNCHANGED underway
    /\ UNCHANGED <<now, call, part, member, joining, begun, livekit, mail, spent>>

(* LiveKit does not answer: the revocation will be tried again.            *)
RevokeFails(j) ==
    /\ underway' = underway \ {j}
    /\ UNCHANGED <<now, rows, spared, livekit, mail, spent>>

(* The job is done; the worker may die before it is marked as published.   *)
Published(j) == \/ jobs' = jobs \ {j} /\ UNCHANGED spent
                \/ jobs' = jobs /\ Spend("repeat")

Report(type) == [type |-> type, at |-> now, seen |-> FALSE]

(* revoke_livekit_participant_access: a user is put out and their tokens   *)
(* from before the revocation are refused.                                 *)
PutOut(j) ==
    LET u == j.user IN
    /\ cutoff' = [cutoff EXCEPT ![u] = Later(@, j.at)]
    /\ room' = room \ {u}
    /\ mail' = IF u \in room THEN [mail EXCEPT ![u] = Append(@, Report("participant_left"))]
               ELSE mail
    /\ Published(j)
    /\ UNCHANGED <<now, call, part, member, joining, begun, spared, token, open>>

\* Bug: the claim on the job is not given up.
Revoke_Kept(j) == PutOut(j) /\ UNCHANGED underway
Revoke(j) == PutOut(j) /\ underway' = underway \ {j}

(* organization_revoke is not checked.                                     *)
RevokeRemoved(j) ==
    /\ j.kind = "member"
    /\ IsNext(j)
    /\ PutOut(j)
    /\ UNCHANGED underway

(* terminate_livekit_rooms: everybody is put out, the room is deleted.     *)
TerminateRoom(j) ==
    /\ j.kind = "room"
    /\ IsNext(j)
    /\ cutoff' = [u \in Users |-> Later(cutoff[u], j.at)]
    /\ room' = {}
    /\ open' = FALSE
    /\ mail' = [u \in DOMAIN mail |->
                  IF u \in room THEN Append(mail[u], Report("participant_left"))
                  ELSE IF u = TheRoom /\ open THEN Append(mail[u], Report("room_finished"))
                  ELSE mail[u]]
    /\ Published(j)
    /\ UNCHANGED <<now, call, part, member, joining, begun, underway, spared, token>>

-----------------------------------------------------------------------------
(* LiveKit.                                                                *)

(* A user connects with the newest token; a room that does not exist is    *)
(* created.                                                                *)
Connect(u) ==
    /\ Spend("connection")
    /\ u \notin room /\ now <= Busy
    /\ token[u] > 0 /\ token[u] >= cutoff[u]
    /\ room' = room \union {u}
    /\ open' = TRUE
    /\ spared' = spared \ {u}
    /\ mail' = [mail EXCEPT ![u] = Append(@, Report("participant_joined")),
                            ![TheRoom] = IF open THEN @ ELSE Append(@, Report("room_started"))]
    /\ UNCHANGED <<now, rows, underway, token, cutoff>>

(* A client leaves the room or loses its connection.                       *)
Disconnect(u) ==
    /\ u \in room
    /\ room' = room \ {u}
    /\ mail' = [mail EXCEPT ![u] = Append(@, Report("participant_left"))]
    /\ UNCHANGED <<now, rows, underway, spared, token, open, cutoff, spent>>

(* LiveKit closes a room that stays empty.                                 *)
FinishRoom ==
    /\ open /\ room = {}
    /\ open' = FALSE
    /\ mail' = [mail EXCEPT ![TheRoom] = Append(@, Report("room_finished"))]
    /\ UNCHANGED <<now, rows, underway, spared, token, room, cutoff, spent>>

Tick == /\ now < Horizon
        /\ now' = now + 1
        /\ UNCHANGED <<rows, underway, spared, livekit, mail, spent>>

-----------------------------------------------------------------------------
Init ==
    /\ now = 1
    /\ call = [status |-> "none", rings |-> 0, started |-> 0, event |-> 0]
    /\ part = [u \in Users |-> [status |-> "none", issued |-> 0, left |-> 0, event |-> 0]]
    /\ member = Users
    /\ joining = NoOne /\ begun = 0
    /\ jobs = {} /\ underway = {} /\ spared = {}
    /\ room = {} /\ open = FALSE
    /\ cutoff = [u \in Users |-> 0] /\ token = [u \in Users |-> 0]
    /\ mail = [u \in Users \union {TheRoom} |-> <<>>]
    /\ spent = [what \in Bounded |-> 0]

Next ==
    \/ StartCall \/ EndCall \/ Reap \/ FinishRoom \/ Tick
    \/ \E u \in Users : \/ BeginJoin(u) \/ FinishJoin(u) \/ RollBackJoin(u)
                        \/ LeaveCall(u) \/ DeclineCall(u) \/ RemoveMember(u)
                        \/ Connect(u) \/ Disconnect(u)
    \/ \E u \in DOMAIN mail : \E i \in DOMAIN mail[u] : Webhook(u, i) \/ GiveUp(u, i)
    \/ \E j \in jobs : BeginRevoke(j) \/ RevokeRemoved(j) \/ TerminateRoom(j)
    \/ \E j \in underway : RevokeFails(j) \/ Revoke(j)

Spec == Init /\ [][Next]_vars
-----------------------------------------------------------------------------
TypeOK ==
    /\ now \in Time
    /\ call \in CallRow
    /\ part \in [Users -> ParticipantRow]
    /\ member \subseteq Users
    /\ joining \in Users \union {NoOne} /\ begun \in Time
    /\ jobs \subseteq Job /\ underway \subseteq jobs /\ spared \subseteq Users \union {NoOne}
    /\ room \subseteq Users /\ open \in BOOLEAN
    /\ cutoff \in [Users -> Time] /\ token \in [Users -> Time]
    /\ mail \in [Users \union {TheRoom} -> Seq(Event)]
    /\ spent \in [Bounded -> Nat]

(* The rows of a call and of its participants tell one story, whatever     *)
(* overtook what: who has joined is in an active call, and when a call is  *)
(* over nobody is still invited, connecting or in it.                      *)
RowsAgree ==
    /\ Joined(part) # {} => call.status = "active"
    /\ call.status \in TerminalCallStatuses =>
           \A u \in Users : part[u].status \notin Remaining

(* A call that was answered is never reported missed or cancelled, and one *)
(* that was not is never reported active or ended.                         *)
OutcomeIsTrue == /\ call.status \in {"active", "ended"} => call.started > 0
                 /\ call.status \in {"ringing", "missed", "cancelled"} => call.started = 0

(* Every webhook has been handled and every media job is done.             *)
Settled == (\A u \in DOMAIN mail : mail[u] = <<>>) /\ spent["loss"] = 0 /\ jobs = {} /\ joining = NoOne

(* Once that is so the rows are true of the room: who is counted as joined *)
(* is in it, and who is in it is counted as joined; it is empty when the   *)
(* call was ended or cancelled.  Excepted are those who were turned away   *)
(* by a webhook (which notes no time) and kept, because they had asked to  *)
(* join again, by a revocation: an older webhook may then have the last    *)
(* word about them, and room_finished may call the call missed.            *)
RoomMatchesRows ==
    Settled => /\ Joined(part) \subseteq room
               /\ room \subseteq Joined(part) \union spared
               /\ call.status \in {"ended", "cancelled"} => room = {}

(* A member who was removed is not counted as joined, even if they were    *)
(* removed in the middle of their join.                                    *)
RemovedHaveNotJoined == Joined(part) \subseteq member

(* Then no removed member is in the room either.                           *)
RemovedAreOut == Settled => room \subseteq member

(* A revocation does not put out a user who has been let in again since,   *)
(* unless something later says so.                                         *)
RejoinSurvives ==
    [][\A j \in underway :
          LET u == j.user IN
          Revoke(j) /\ u \in room =>
             \/ call.status \notin Live \/ u \notin member
             \/ part[u].issued <= j.at
             \/ \E k \in jobs : k.user = u /\ k.at >= part[u].issued]_vars

(* The call keeps its contract: CallContract.                              *)
Contract == INSTANCE CallContract WITH status <- call.status, present <- Joined(part)
ContractKept == Contract!Spec

-----------------------------------------------------------------------------
(* Fairness: handlers that have begun end; PostgreSQL lets those who wait  *)
(* for a row have it, and the reaper, which does not wait, comes back at   *)
(* every interval; LiveKit tries until it is answered; a media job is      *)
(* retried without limit (revocations are never dead letters).             *)
Fairness ==
    /\ WF_vars(Tick)
    /\ SF_vars(Reap)
    /\ \A u \in Users : WF_vars(FinishJoin(u) \/ RollBackJoin(u))
    /\ SF_vars(\E u \in DOMAIN mail : \E i \in DOMAIN mail[u] : Webhook(u, i))
    /\ WF_vars(\E j \in jobs : BeginRevoke(j) \/ RevokeRemoved(j) \/ TerminateRoom(j))
    /\ SF_vars(\E j \in underway : Revoke(j))

FairSpec == Spec /\ Fairness

(* A call ends, whatever webhooks are lost.                                *)
EveryCallEnds == call.status \in Live ~> call.status \in TerminalCallStatuses

(* When it is over, its room is empty in the end, for good, provided that  *)
(* LiveKit gave up on no webhook: only a webhook tells of those who come   *)
(* in with a token of the second the call ended in.  Excepted are, in a    *)
(* call that was missed, those RoomMatchesRows excepts: room_finished has  *)
(* nobody put out.                                                         *)
RoomEmpties ==
    <>[](call.status \in TerminalCallStatuses /\ spent["loss"] = 0 =>
            room \subseteq (IF call.status = "missed" THEN spared ELSE {}))

(* The room agrees with the rows whenever all is settled, and it empties.     *)
RoomSettles == [](RoomMatchesRows /\ RoomEmpties)
=============================================================================
