----------------------- MODULE TeamCallLifecycleProofs -----------------------
(***************************************************************************)
(* Proofs about TeamCallLifecycle, for any users, times, and numbers of    *)
(* requests, connections and webhooks.                                     *)
(*                                                                         *)
(* The properties of the rows (RowsAgree, OutcomeIsTrue and                *)
(* RemovedHaveNotJoined) are inductive together, once it is known that a   *)
(* call that has not begun has no start.  Whatever the parties do, a step  *)
(* leaves the rows alone, moves one participant, lets one in, or closes    *)
(* the call: RowsKept, Moving, LetInKeeps and Closing say of each of these *)
(* that the rows stay true and that the contract allows it, and every      *)
(* action is shown to be one of them.                                      *)
(***************************************************************************)
EXTENDS TeamCallLifecycle, SequenceTheorems, TLAPS

(* The clock, and what the row of the call says from the first ring on.    *)
Begun == /\ now >= 1
         /\ call.status # "none" => call.rings >= RingTimeout
         /\ call.status = "none" => call.started = 0

(* What is true of the rows of the call and of its participants.           *)
Rows == /\ call \in CallRow
        /\ part \in [Users -> ParticipantRow]
        /\ Begun /\ RowsAgree /\ OutcomeIsTrue /\ RemovedHaveNotJoined

(* Only revocations of one connection are looked up before they are done.  *)
Claims == \A j \in underway : j.kind = "revoke"

IInv == TypeOK /\ Rows /\ Claims

(* A step of CallContract, or none.                                        *)
Story == Contract!Next \/ UNCHANGED Contract!vars

-----------------------------------------------------------------------------
(* Sequences of webhooks.                                                  *)

LEMMA RemoveAtType ==
    ASSUME NEW S, NEW s \in Seq(S), NEW i \in 1 .. Len(s)
    PROVE  RemoveAt(s, i) \in Seq(S)
  <1>1. SubSeq(s, 1, i - 1) \in Seq(S)
    BY LenProperties, ElementOfSeq, SubSeqProperties
  <1>2. SubSeq(s, i + 1, Len(s)) \in Seq(S)
    BY LenProperties, ElementOfSeq, SubSeqProperties
  <1> QED
    BY <1>1, <1>2, ConcatProperties DEF RemoveAt

LEMMA MarkRemainingFacts ==
    ASSUME NEW p \in [Users -> ParticipantRow]
    PROVE  /\ MarkRemaining(p) \in [Users -> ParticipantRow]
           /\ \A u \in Users : MarkRemaining(p)[u].status \notin Remaining
           /\ Joined(MarkRemaining(p)) = {}
  <1>1. ASSUME NEW u \in Users
        PROVE  MarkRemaining(p)[u] \in ParticipantRow /\ MarkRemaining(p)[u].status \notin Remaining
    <2>1. p[u] \in ParticipantRow
      OBVIOUS
    <2>2. MarkRemaining(p)[u] = [p[u] EXCEPT !.status = CASE @ \in {"joined", "connecting"} -> "left"
                                  [] @ = "invited" -> "missed"
                                  [] OTHER -> @]
      BY DEF MarkRemaining
    <2> QED BY <2>1, <2>2 DEF ParticipantRow, Remaining, JoinableParticipantStatuses
  <1>2. MarkRemaining(p) \in [Users -> ParticipantRow]
    BY <1>1 DEF MarkRemaining
  <1> QED
    BY <1>1, <1>2 DEF Joined, Remaining

-----------------------------------------------------------------------------
(* What happens to the rows.                                               *)

(* Nothing happens to the rows.                                            *)
LEMMA RowsKept ==
    ASSUME IInv, UNCHANGED <<call, part, member>>, now' >= now, now' \in Time
    PROVE  Rows' /\ Story
  <1>1. now >= 1 /\ now \in Time
    BY DEF IInv, TypeOK, Rows, Begun
  <1>2. Rows'
    BY <1>1, CallAssumption
       DEF IInv, TypeOK, Rows, Begun, RowsAgree, OutcomeIsTrue, RemovedHaveNotJoined, Joined, Time
  <1>3. UNCHANGED Contract!vars
    BY DEF Contract!vars, Joined
  <1> QED
    BY <1>2, <1>3 DEF Story

(* A live call ends.                                                       *)
LEMMA Closing ==
    ASSUME IInv, now' = now,
           NEW p \in [Users -> ParticipantRow], NEW s, NEW t \in Time,
           call' = [call EXCEPT !.event = t, !.status = s],
           part' = MarkRemaining(p),
           \/ call.status = "active" /\ s = "ended"
           \/ call.status = "ringing" /\ s \in {"missed", "cancelled"}
    PROVE  Rows' /\ Story
  <1>1. /\ part' \in [Users -> ParticipantRow]
        /\ \A u \in Users : part'[u].status \notin Remaining
        /\ Joined(part') = {}
    BY MarkRemainingFacts
  <1>2. call \in CallRow
    BY DEF IInv, TypeOK
  <1>3. /\ call' \in CallRow
        /\ call'.status = s /\ call'.started = call.started /\ call'.rings = call.rings
    BY <1>2 DEF CallRow, TerminalCallStatuses, Live
  <1>4. Begun'
    BY <1>3 DEF IInv, Rows, Begun
  <1>5. RowsAgree'
    BY <1>1, <1>3 DEF RowsAgree
  <1>6. OutcomeIsTrue'
    BY <1>3 DEF IInv, Rows, OutcomeIsTrue
  <1>7. RemovedHaveNotJoined'
    BY <1>1 DEF RemovedHaveNotJoined
  <1>8. Contract!Close
    BY <1>1, <1>3 DEF Contract!Close
  <1> QED
    BY <1>1, <1>3, <1>4, <1>5, <1>6, <1>7, <1>8 DEF Rows, Story, Contract!Next

LEMMA Terminalizing ==
    ASSUME IInv, now' = now,
           NEW p \in [Users -> ParticipantRow], NEW s, Terminalize(s, p),
           \/ call.status = "active" /\ s = "ended"
           \/ call.status = "ringing" /\ s \in {"missed", "cancelled"}
    PROVE  Rows' /\ Story
  <1>1. call \in CallRow
    BY DEF IInv, TypeOK
  <1>2. call' = [call EXCEPT !.event = call.event, !.status = s]
    BY <1>1 DEF Terminalize, CallRow
  <1>3. call.event \in Time
    BY <1>1 DEF CallRow
  <1> QED
    BY <1>2, <1>3, Closing DEF Terminalize

(* Only the time of the last webhook changes.                              *)
LEMMA EventNoted ==
    ASSUME IInv, now' = now, UNCHANGED <<part, member>>,
           NEW t \in Time, call' = [call EXCEPT !.event = t]
    PROVE  Rows' /\ Story
  <1>1. call \in CallRow
    BY DEF IInv, TypeOK
  <1>2. /\ call' \in CallRow
        /\ call'.status = call.status /\ call'.started = call.started /\ call'.rings = call.rings
    BY <1>1 DEF CallRow
  <1>3. Rows'
    BY <1>2 DEF IInv, Rows, Begun, RowsAgree, OutcomeIsTrue, RemovedHaveNotJoined, Joined
  <1>4. UNCHANGED Contract!vars
    BY <1>2 DEF Contract!vars, Joined
  <1> QED
    BY <1>3, <1>4 DEF Story

(* One participant's row changes, and the call's status does not.          *)
LEMMA Moving ==
    ASSUME IInv, now' = now, UNCHANGED call, member' \subseteq member,
           NEW u \in Users, NEW r \in ParticipantRow,
           part' = [part EXCEPT ![u] = r],
           r.status = "joined" => part[u].status = "joined" /\ u \in member',
           r.status \in Remaining => part[u].status \in Remaining \/ call.status \in Live,
           \A v \in member \ {u} : v \in member'
    PROVE  Rows' /\ Story
  <1> USE DEF Joined
  <1>1. part \in [Users -> ParticipantRow] /\ call \in CallRow
    BY DEF IInv, TypeOK
  <1>2. part' \in [Users -> ParticipantRow]
    BY <1>1
  <1>3. \A v \in Users : part'[v] = IF v = u THEN r ELSE part[v]
    BY <1>1
  <1>4. Joined(part') = IF r.status = "joined" THEN Joined(part) ELSE Joined(part) \ {u}
    BY <1>3
  <1>5. Begun'
    BY DEF IInv, Rows, Begun
  <1>6. RowsAgree'
    <2>1. Joined(part') # {} => call'.status = "active"
      BY <1>4 DEF IInv, Rows, RowsAgree
    <2>2. ASSUME call'.status \in TerminalCallStatuses, NEW v \in Users
          PROVE  part'[v].status \notin Remaining
      BY <1>3, <2>2 DEF IInv, Rows, RowsAgree, TerminalCallStatuses, Live
    <2> QED
      BY <2>1, <2>2 DEF RowsAgree
  <1>7. OutcomeIsTrue'
    BY DEF IInv, Rows, OutcomeIsTrue
  <1>8. RemovedHaveNotJoined'
    BY <1>4 DEF IInv, Rows, RemovedHaveNotJoined
  <1>9. Story
    <2>1. CASE u \in Joined(part) /\ r.status # "joined"
      BY <1>4, <2>1 DEF Contract!Exit, Contract!Next, Story
    <2>2. CASE ~(u \in Joined(part) /\ r.status # "joined")
      BY <1>4, <2>2 DEF Contract!vars, Story
    <2> QED
      BY <2>1, <2>2
  <1> QED
    BY <1>1, <1>2, <1>5, <1>6, <1>7, <1>8, <1>9 DEF Rows

-----------------------------------------------------------------------------
(* Requests of users.                                                      *)

LEMMA SpendType ==
    ASSUME IInv, NEW what \in Bounded, Spend(what)
    PROVE  spent' \in [Bounded -> Nat]
  BY DEF IInv, TypeOK, Spend

LEMMA JobsType ==
    ASSUME IInv
    PROVE  /\ RoomJob \in Job
           /\ \A u \in Users \union {NoOne} :
                 /\ RevokeJob(u) \in Job
                 /\ [kind |-> "member", user |-> u, at |-> now] \in Job
  BY DEF IInv, TypeOK, Job, RoomJob, RevokeJob

LEMMA StartCallKeeps == IInv /\ StartCall => IInv' /\ Story
  <1> SUFFICES ASSUME IInv, StartCall
               PROVE  IInv' /\ Story
    OBVIOUS
  <1>1. /\ call.status = "none" /\ call.started = 0 /\ call \in CallRow
        /\ now \in Time /\ now >= 1
        /\ Joined(part) = {}
    BY DEF StartCall, IInv, Rows, TypeOK, Begun, RowsAgree
  <1>2. /\ call' \in CallRow
        /\ call'.status = "ringing" /\ call'.rings = now + RingTimeout /\ call'.started = 0
    <2>1. now + RingTimeout \in 0 .. Horizon + RingTimeout
      BY <1>1, CallAssumption DEF Time
    <2>2. call' = [call EXCEPT !.status = "ringing", !.rings = now + RingTimeout]
      BY DEF StartCall
    <2> QED
      BY <1>1, <2>1, <2>2 DEF CallRow, Live
  <1>3. part' \in [Users -> ParticipantRow]
    BY <1>1, CallAssumption
       DEF StartCall, ParticipantRow, JoinableParticipantStatuses, Time
  <1>4. Joined(part') = {}
    BY DEF StartCall, Joined
  <1>5. Rows'
    BY <1>1, <1>2, <1>3, <1>4, CallAssumption
       DEF Rows, Begun, RowsAgree, OutcomeIsTrue, RemovedHaveNotJoined, TerminalCallStatuses,
           StartCall, Time
  <1>6. token' \in [Users -> Time]
    BY <1>1 DEF StartCall, IInv, TypeOK
  <1>7. TypeOK'
    BY <1>1, <1>5, <1>6 DEF StartCall, IInv, TypeOK, Rows
  <1>8. Claims'
    BY DEF StartCall, IInv, Claims
  <1>9. Contract!Ring
    BY <1>1, <1>2, <1>4 DEF Contract!Ring
  <1> QED
    BY <1>5, <1>7, <1>8, <1>9 DEF IInv, Story, Contract!Next

LEMMA BeginJoinKeeps == ASSUME NEW u \in Users PROVE IInv /\ BeginJoin(u) => IInv' /\ Story
  <1> SUFFICES ASSUME IInv, BeginJoin(u)
               PROVE  IInv' /\ Story
    OBVIOUS
  <1>1. Rows' /\ Story
    BY RowsKept, CallAssumption DEF BeginJoin, IInv, TypeOK, Time
  <1>2. begun' \in Time
    BY CallAssumption DEF BeginJoin, IInv, TypeOK, Rows, Begun, Time, CallRow
  <1>3. spent' \in [Bounded -> Nat]
    BY SpendType DEF BeginJoin, Bounded
  <1>4. TypeOK'
    BY <1>1, <1>2, <1>3 DEF BeginJoin, IInv, TypeOK, Rows, livekit
  <1>5. Claims'
    BY DEF BeginJoin, IInv, Claims
  <1> QED
    BY <1>1, <1>4, <1>5 DEF IInv

LEMMA FinishJoinKeeps == ASSUME NEW u \in Users PROVE IInv /\ FinishJoin(u) => IInv' /\ Story
  <1> SUFFICES ASSUME IInv, FinishJoin(u)
               PROVE  IInv' /\ Story
    OBVIOUS
  <1>1. /\ part \in [Users -> ParticipantRow] /\ begun \in Time /\ now \in Time
        /\ now' = now /\ member' = member
    BY DEF FinishJoin, IInv, TypeOK
  <1>2. /\ Rows' /\ Story
        /\ jobs' \subseteq jobs \union {RoomJob}
        /\ jobs \subseteq jobs'
        /\ token' \in [Users -> Time]
    <2>1. CASE /\ RingingIsOver
               /\ Terminalize("missed", part)
               /\ jobs' = jobs \union {RoomJob}
               /\ UNCHANGED token
      <3>1. Rows' /\ Story
        BY <1>1, <2>1, Terminalizing DEF RingingIsOver
      <3> QED
        BY <2>1, <3>1 DEF IInv, TypeOK
    <2>2. CASE /\ call.status \in Live /\ ~RingingIsOver
               /\ part[u].status \in JoinableParticipantStatuses
               /\ part' = [part EXCEPT ![u].status = IF @ = "joined" THEN "joined"
                                                     ELSE "connecting",
                                       ![u].issued = begun]
               /\ token' = [token EXCEPT ![u] = now]
               /\ UNCHANGED <<call, jobs>>
      <3> DEFINE r == [part[u] EXCEPT !.status = IF @ = "joined" THEN "joined" ELSE "connecting",
                                      !.issued = begun]
      <3>1. part[u] \in ParticipantRow
        BY <1>1
      <3>2. r \in ParticipantRow
        BY <1>1, <3>1 DEF ParticipantRow, JoinableParticipantStatuses
      <3>3. r.status = IF part[u].status = "joined" THEN "joined" ELSE "connecting"
        BY <3>1 DEF ParticipantRow
      <3>4. part' = [part EXCEPT ![u] = r]
        BY <1>1, <2>2
      <3>5. part[u].status = "joined" => u \in member
        BY DEF IInv, Rows, RemovedHaveNotJoined, Joined
      <3> HIDE DEF r
      <3>6. r.status = "joined" => part[u].status = "joined" /\ u \in member'
        BY <1>1, <3>3, <3>5
      <3>7. Rows' /\ Story
        BY <1>1, <2>2, <3>2, <3>4, <3>6, Moving
      <3> QED
        BY <1>1, <2>2, <3>7 DEF IInv, TypeOK
    <2>3. CASE UNCHANGED <<call, part, jobs, token>>
      <3>1. Rows' /\ Story
        BY <1>1, <2>3, RowsKept, CallAssumption DEF Time
      <3> QED
        BY <2>3, <3>1 DEF IInv, TypeOK
    <2> QED
      BY <2>1, <2>2, <2>3 DEF FinishJoin
  <1>3. jobs' \subseteq Job
    BY <1>2, JobsType DEF IInv, TypeOK
  <1>4. TypeOK'
    <2>1. joining' \in Users \union {NoOne} /\ begun' \in Time
      BY CallAssumption DEF FinishJoin, Time
    <2> QED
      BY <1>1, <1>2, <1>3, <2>1 DEF FinishJoin, IInv, TypeOK, Rows
  <1>5. Claims'
    BY DEF FinishJoin, IInv, Claims
  <1> QED
    BY <1>2, <1>4, <1>5 DEF IInv

LEMMA RollBackJoinKeeps ==
    ASSUME NEW u \in Users PROVE IInv /\ RollBackJoin(u) => IInv' /\ Story
  <1> SUFFICES ASSUME IInv, RollBackJoin(u)
               PROVE  IInv' /\ Story
    OBVIOUS
  <1>1. Rows' /\ Story
    BY RowsKept, CallAssumption DEF RollBackJoin, IInv, TypeOK, Time
  <1>2. TypeOK'
    BY <1>1, CallAssumption DEF RollBackJoin, IInv, TypeOK, Rows, livekit, Time
  <1>3. Claims'
    BY DEF RollBackJoin, IInv, Claims
  <1> QED
    BY <1>1, <1>2, <1>3 DEF IInv

LEMMA LeaveCallKeeps == ASSUME NEW u \in Users PROVE IInv /\ LeaveCall(u) => IInv' /\ Story
  <1> SUFFICES ASSUME IInv, LeaveCall(u)
               PROVE  IInv' /\ Story
    OBVIOUS
  <1> DEFINE r == [part[u] EXCEPT !.status = IF @ \in Remaining THEN "left" ELSE @]
             gone == [part EXCEPT ![u].status = IF @ \in Remaining THEN "left" ELSE @]
             empty == call.status = "active" /\ Joined(gone) = {}
  <1>1. /\ part \in [Users -> ParticipantRow] /\ part[u] \in ParticipantRow
        /\ now' = now /\ member' = member
    BY DEF LeaveCall, IInv, TypeOK
  <1>2. /\ r \in ParticipantRow
        /\ r.status \notin Remaining
    BY <1>1 DEF ParticipantRow, JoinableParticipantStatuses, Remaining
  <1>3. gone = [part EXCEPT ![u] = r] /\ gone \in [Users -> ParticipantRow]
    BY <1>1, <1>2
  <1>4. Rows' /\ Story
    <2>1. CASE /\ CallerLeaves(u) \/ empty
               /\ Terminalize(IF CallerLeaves(u) THEN "cancelled" ELSE "ended", gone)
      <3>1. CASE CallerLeaves(u)
        BY <1>1, <1>3, <2>1, <3>1, Terminalizing DEF CallerLeaves
      <3>2. CASE ~CallerLeaves(u)
        BY <1>1, <1>3, <2>1, <3>2, Terminalizing
      <3> QED
        BY <3>1, <3>2
    <2>2. CASE part' = gone /\ UNCHANGED call
      <3> HIDE DEF r, gone
      <3> QED
        BY <1>1, <1>2, <1>3, <2>2, Moving DEF Remaining
    <2> QED
      BY <2>1, <2>2 DEF LeaveCall
  <1>5. jobs \subseteq jobs' /\ jobs' \subseteq Job
    BY JobsType DEF LeaveCall, IInv, TypeOK
  <1>6. spent' \in [Bounded -> Nat]
    BY SpendType DEF LeaveCall, Bounded
  <1>7. TypeOK'
    BY <1>4, <1>5, <1>6 DEF LeaveCall, IInv, TypeOK, Rows, livekit
  <1>8. Claims'
    BY DEF LeaveCall, IInv, Claims
  <1> QED
    BY <1>4, <1>7, <1>8 DEF IInv

LEMMA DeclineCallKeeps ==
    ASSUME NEW u \in Users PROVE IInv /\ DeclineCall(u) => IInv' /\ Story
  <1> SUFFICES ASSUME IInv, DeclineCall(u)
               PROVE  IInv' /\ Story
    OBVIOUS
  <1> DEFINE r == [part[u] EXCEPT !.status = "declined"]
  <1>1. /\ part \in [Users -> ParticipantRow] /\ part[u] \in ParticipantRow
        /\ now' = now /\ member' = member /\ call' = call
    BY DEF DeclineCall, IInv, TypeOK
  <1>2. /\ r \in ParticipantRow
        /\ r.status \notin Remaining
    BY <1>1 DEF ParticipantRow, JoinableParticipantStatuses, Remaining
  <1>3. part' = [part EXCEPT ![u] = r]
    BY <1>1 DEF DeclineCall
  <1> HIDE DEF r
  <1>4. Rows' /\ Story
    BY <1>1, <1>2, <1>3, Moving DEF Remaining
  <1>5. jobs \subseteq jobs' /\ jobs' \subseteq Job
    BY JobsType DEF DeclineCall, IInv, TypeOK
  <1>6. spent' \in [Bounded -> Nat]
    BY SpendType DEF DeclineCall, Bounded
  <1>7. TypeOK'
    BY <1>4, <1>5, <1>6 DEF DeclineCall, IInv, TypeOK, Rows, livekit
  <1>8. Claims'
    BY DEF DeclineCall, IInv, Claims
  <1> QED
    BY <1>4, <1>7, <1>8 DEF IInv

LEMMA EndCallKeeps == IInv /\ EndCall => IInv' /\ Story
  <1> SUFFICES ASSUME IInv, EndCall
               PROVE  IInv' /\ Story
    OBVIOUS
  <1>1. /\ part \in [Users -> ParticipantRow]
        /\ now' = now /\ member' = member /\ now \in Time
    BY DEF EndCall, IInv, TypeOK
  <1>2. Rows' /\ Story
    <2>1. CASE /\ Unended
               /\ Terminalize(IF call.status = "ringing" THEN "cancelled" ELSE "ended", part)
      BY <1>1, <2>1, Terminalizing DEF Unended, Live
    <2>2. CASE UNCHANGED <<call, part>>
      BY <1>1, <2>2, RowsKept, CallAssumption DEF Time
    <2> QED
      BY <2>1, <2>2 DEF EndCall
  <1>3. jobs \subseteq jobs' /\ jobs' \subseteq Job
    BY JobsType DEF EndCall, IInv, TypeOK
  <1>4. spent' \in [Bounded -> Nat]
    BY SpendType DEF EndCall, Bounded
  <1>5. TypeOK'
    BY <1>2, <1>3, <1>4 DEF EndCall, IInv, TypeOK, Rows, livekit
  <1>6. Claims'
    BY DEF EndCall, IInv, Claims
  <1> QED
    BY <1>2, <1>5, <1>6 DEF IInv

LEMMA RemoveMemberKeeps ==
    ASSUME NEW u \in Users PROVE IInv /\ RemoveMember(u) => IInv' /\ Story
  <1> SUFFICES ASSUME IInv, RemoveMember(u)
               PROVE  IInv' /\ Story
    OBVIOUS
  <1> DEFINE r == [part[u] EXCEPT !.status = IF @ \in Remaining THEN "removed" ELSE @]
  <1>1. /\ part \in [Users -> ParticipantRow] /\ part[u] \in ParticipantRow
        /\ now' = now /\ call' = call
        /\ member' \subseteq member /\ \A v \in member \ {u} : v \in member'
    BY DEF RemoveMember, IInv, TypeOK
  <1>2. /\ r \in ParticipantRow
        /\ r.status \notin Remaining
    BY <1>1 DEF ParticipantRow, JoinableParticipantStatuses, Remaining
  <1>3. part' = [part EXCEPT ![u] = r]
    BY <1>1 DEF RemoveMember
  <1> HIDE DEF r
  <1>4. Rows' /\ Story
    BY <1>1, <1>2, <1>3, Moving DEF Remaining
  <1>5. jobs \subseteq jobs' /\ jobs' \subseteq Job
    BY JobsType DEF RemoveMember, RevokeMedia, IInv, TypeOK
  <1>6. spent' \in [Bounded -> Nat]
    BY SpendType DEF RemoveMember, Bounded
  <1>7. TypeOK'
    BY <1>1, <1>4, <1>5, <1>6 DEF RemoveMember, IInv, TypeOK, Rows, livekit
  <1>8. Claims'
    BY DEF RemoveMember, IInv, Claims
  <1> QED
    BY <1>4, <1>7, <1>8 DEF IInv

-----------------------------------------------------------------------------
(* Webhooks and the reaper.                                                *)

(* Somebody comes in.                                                      *)
LEMMA LetInKeeps ==
    ASSUME IInv, now' = now, member' = member,
           NEW u \in Users, NEW at \in 1 .. Horizon,
           Authorized(u), LetIn(u, at)
    PROVE  Rows' /\ Story
  <1>1. /\ part \in [Users -> ParticipantRow] /\ part[u] \in ParticipantRow
        /\ call \in CallRow /\ at \in Time /\ at > 0 /\ at \in Int
    BY CallAssumption DEF IInv, TypeOK, Time
  <1>2. Later(call.event, at) \in Time
    BY <1>1 DEF Later, CallRow
  <1>3. (IF call.started = 0 THEN at ELSE call.started) \in Time
    BY <1>1 DEF CallRow
  <1>4. call' = [call EXCEPT !.status = "active",
                             !.started = IF call.started = 0 THEN at ELSE call.started,
                             !.event = Later(call.event, at)]
    BY DEF LetIn
  <1>5. /\ call' \in CallRow
        /\ call'.status = "active" /\ call'.rings = call.rings
        /\ call'.started = IF call.started = 0 THEN at ELSE call.started
    BY <1>1, <1>2, <1>3, <1>4 DEF CallRow, Live
  <1>6. call'.started > 0
    BY <1>1, <1>5, CallAssumption DEF CallRow, Time
  <1>7. part' \in [Users -> ParticipantRow]
    BY <1>1 DEF LetIn, ParticipantRow, JoinableParticipantStatuses
  <1>8. Joined(part') = Joined(part) \union {u}
    BY <1>1 DEF LetIn, Joined, ParticipantRow
  <1>9. Begun'
    BY <1>5 DEF IInv, Rows, Begun, Authorized, Live
  <1>10. RowsAgree'
    BY <1>5 DEF RowsAgree, TerminalCallStatuses
  <1>11. OutcomeIsTrue'
    BY <1>5, <1>6 DEF OutcomeIsTrue
  <1>12. RemovedHaveNotJoined'
    BY <1>8 DEF IInv, Rows, RemovedHaveNotJoined, Authorized
  <1>13. Contract!Enter(u)
    BY <1>5, <1>8 DEF Contract!Enter, Contract!Live, Authorized, Live
  <1> QED
    BY <1>5, <1>7, <1>9, <1>10, <1>11, <1>12, <1>13 DEF Rows, Story, Contract!Next

LEMMA ParticipantLeftKeeps ==
    ASSUME IInv, now' = now, member' = member,
           NEW u \in Users \union {TheRoom}, NEW e \in Event, ParticipantLeft(u, e)
    PROVE  Rows' /\ Story /\ jobs \subseteq jobs' /\ jobs' \subseteq Job
  <1> DEFINE gone == [part EXCEPT ![u].status = IF @ = "removed" THEN @ ELSE "left",
                                  ![u].left = e.at, ![u].event = e.at]
             r == [part[u] EXCEPT !.status = IF @ = "removed" THEN @ ELSE "left",
                                  !.left = e.at, !.event = e.at]
  <1>1. /\ part \in [Users -> ParticipantRow]
        /\ jobs \subseteq Job /\ now \in Time
        /\ e.at \in Time
    BY CallAssumption DEF IInv, TypeOK, Event, Time
  <1>2. CASE UNCHANGED <<call, part, jobs>>
    BY <1>1, <1>2, RowsKept, CallAssumption DEF Time
  <1>3. CASE u \notin Users /\ ~(UNCHANGED <<call, part, jobs>>)
    <2>1. ~CallerLeaves(u)
      BY <1>3, CallAssumption DEF CallerLeaves
    <2>2. part' = gone /\ UNCHANGED <<call, jobs>>
      BY <1>3, <2>1 DEF ParticipantLeft
    <2>3. gone = part
      BY <1>1, <1>3
    <2> QED
      BY <1>1, <2>2, <2>3, RowsKept, CallAssumption DEF Time
  <1>4. CASE u \in Users /\ ~(UNCHANGED <<call, part, jobs>>)
    <2>1. part[u] \in ParticipantRow
      BY <1>1, <1>4
    <2>2. r \in ParticipantRow /\ r.status \notin Remaining
      BY <1>1, <2>1 DEF ParticipantRow, Remaining, JoinableParticipantStatuses
    <2>3. gone = [part EXCEPT ![u] = r] /\ gone \in [Users -> ParticipantRow]
      BY <1>1, <1>4, <2>2
    <2>4. \/ CallerLeaves(u) /\ Terminalize("cancelled", gone) /\ jobs' = jobs \union {RoomJob}
          \/ part' = gone /\ UNCHANGED <<call, jobs>>
      BY <1>4 DEF ParticipantLeft
    <2> HIDE DEF r, gone
    <2>5. CASE /\ CallerLeaves(u) /\ Terminalize("cancelled", gone)
               /\ jobs' = jobs \union {RoomJob}
      BY <1>1, <2>3, <2>5, Terminalizing, JobsType DEF CallerLeaves
    <2>6. CASE part' = gone /\ UNCHANGED <<call, jobs>>
      BY <1>1, <1>4, <2>2, <2>3, <2>6, Moving DEF Remaining
    <2> QED
      BY <2>4, <2>5, <2>6
  <1> QED
    BY <1>2, <1>3, <1>4

LEMMA RoomFinishedKeeps ==
    ASSUME IInv, now' = now, member' = member, NEW e \in Event, RoomFinished(e)
    PROVE  Rows' /\ Story /\ UNCHANGED jobs
  <1>1. /\ part \in [Users -> ParticipantRow] /\ call \in CallRow
        /\ now \in Time /\ e.at \in Time
    BY CallAssumption DEF IInv, TypeOK, Event, Time
  <1>2. Later(call.event, e.at) \in Time
    BY <1>1 DEF Later, CallRow
  <1>3. CASE StaleForCall(e) /\ UNCHANGED <<call, part, jobs>>
    BY <1>1, <1>3, RowsKept, CallAssumption DEF Time
  <1>4. CASE /\ call' = [call EXCEPT !.event = Later(@, e.at),
                                     !.status = IF @ = "ringing" THEN "missed" ELSE @]
             /\ part' = IF call.status = "ringing" THEN MarkRemaining(part) ELSE part
             /\ UNCHANGED jobs
    <2>1. CASE call.status = "ringing"
      <3>1. call' = [call EXCEPT !.event = Later(call.event, e.at), !.status = "missed"]
        BY <1>4, <2>1
      <3> QED
        BY <1>1, <1>2, <1>4, <2>1, <3>1, Closing
    <2>2. CASE call.status # "ringing"
      <3>1. call' = [call EXCEPT !.event = Later(call.event, e.at)]
        BY <1>1, <1>4, <2>2 DEF CallRow
      <3> QED
        BY <1>1, <1>2, <1>4, <2>2, <3>1, EventNoted
    <2> QED
      BY <2>1, <2>2
  <1> QED
    BY <1>3, <1>4 DEF RoomFinished

LEMMA RoomStartedKeeps ==
    ASSUME IInv, now' = now, member' = member, NEW e \in Event, RoomStarted(e)
    PROVE  Rows' /\ Story /\ UNCHANGED jobs
  <1>1. call \in CallRow /\ e.at \in Time
    BY CallAssumption DEF IInv, TypeOK, Event, Time
  <1>2. (IF StaleForCall(e) THEN call.event ELSE Later(call.event, e.at)) \in Time
    BY <1>1 DEF Later, CallRow
  <1>3. call' = [call EXCEPT !.event = IF StaleForCall(e) THEN call.event
                                       ELSE Later(call.event, e.at)]
    BY DEF RoomStarted
  <1> QED
    BY <1>2, <1>3, EventNoted DEF RoomStarted

LEMMA ParticipantJoinedKeeps ==
    ASSUME IInv, now' = now, member' = member,
           NEW u \in Users \union {TheRoom}, NEW e \in Event, ParticipantJoined(u, e)
    PROVE  Rows' /\ Story /\ jobs \subseteq jobs' /\ jobs' \subseteq Job
  <1>1. jobs \subseteq Job /\ now \in Time /\ e.at \in 1 .. Horizon /\ member \subseteq Users
    BY DEF IInv, TypeOK, Event
  <1>2. CASE UNCHANGED <<call, part>> /\ (UNCHANGED jobs \/ jobs' = jobs \union {RevokeJob(u)})
    <2>1. Rows' /\ Story
      BY <1>1, <1>2, RowsKept, CallAssumption DEF Time
    <2> QED
      BY <1>1, <1>2, <2>1, JobsType DEF TheRoom
  <1>3. CASE Authorized(u) /\ LetIn(u, e.at)
    <2>1. u \in Users
      BY <1>1, <1>3 DEF Authorized
    <2> QED
      BY <1>1, <1>3, <2>1, LetInKeeps DEF LetIn
  <1> QED
    BY <1>2, <1>3 DEF ParticipantJoined, TurnAway

LEMMA ProcessKeeps ==
    ASSUME IInv, now' = now, member' = member,
           NEW u \in Users \union {TheRoom}, NEW e \in Event, Process(u, e)
    PROVE  Rows' /\ Story /\ jobs \subseteq jobs' /\ jobs' \subseteq Job
  <1>1. jobs \subseteq Job /\ now \in Time
    BY DEF IInv, TypeOK
  <1>2. CASE e.seen
    BY <1>1, <1>2, RowsKept, CallAssumption DEF Process, Time
  <1>3. CASE ~e.seen
    <2>1. Apply(u, e)
      BY <1>3 DEF Process
    <2>2. e.type \in {"room_started", "participant_joined", "participant_left", "room_finished"}
      BY DEF Event
    <2>3. CASE e.type = "room_started"
      BY <1>1, <2>1, <2>3, RoomStartedKeeps DEF Apply
    <2>4. CASE e.type = "participant_joined"
      BY <2>1, <2>4, ParticipantJoinedKeeps DEF Apply
    <2>5. CASE e.type = "participant_left"
      BY <2>1, <2>5, ParticipantLeftKeeps DEF Apply
    <2>6. CASE e.type = "room_finished"
      BY <1>1, <2>1, <2>6, RoomFinishedKeeps DEF Apply
    <2> QED
      BY <2>2, <2>3, <2>4, <2>5, <2>6
  <1> QED
    BY <1>2, <1>3

LEMMA WebhookKeeps ==
    ASSUME NEW u \in DOMAIN mail, NEW i \in DOMAIN mail[u]
    PROVE  IInv /\ Webhook(u, i) => IInv' /\ Story
  <1> SUFFICES ASSUME IInv, Webhook(u, i)
               PROVE  IInv' /\ Story
    OBVIOUS
  <1>1. /\ mail \in [Users \union {TheRoom} -> Seq(Event)]
        /\ u \in Users \union {TheRoom} /\ mail[u] \in Seq(Event)
    BY DEF IInv, TypeOK
  <1>2. i \in 1 .. Len(mail[u])
    BY <1>1, LenProperties
  <1>3. mail[u][i] \in Event
    BY <1>1, <1>2, ElementOfSeq
  <1>4. /\ Rows' /\ Story
        /\ jobs \subseteq jobs' /\ jobs' \subseteq Job
    BY <1>1, <1>3, ProcessKeeps DEF Webhook
  <1>5. mail' \in [Users \union {TheRoom} -> Seq(Event)] /\ spent' \in [Bounded -> Nat]
    <2>1. CASE mail' = [mail EXCEPT ![u] = RemoveAt(@, i)] /\ UNCHANGED spent
      <3>1. RemoveAt(mail[u], i) \in Seq(Event)
        BY <1>1, <1>2, RemoveAtType
      <3> QED
        BY <1>1, <2>1, <3>1 DEF IInv, TypeOK
    <2>2. CASE Spend("repeat") /\ mail' = [mail EXCEPT ![u][i].seen = TRUE]
      <3> DEFINE e == [mail[u][i] EXCEPT !.seen = TRUE]
      <3>1. e \in Event
        BY <1>3 DEF Event
      <3>2. [mail[u] EXCEPT ![i] = e] \in Seq(Event)
        BY <1>1, <1>2, <3>1, ExceptSeq
      <3>3. mail' = [mail EXCEPT ![u] = [mail[u] EXCEPT ![i] = e]]
        BY <2>2
      <3>4. mail' \in [Users \union {TheRoom} -> Seq(Event)]
        BY <1>1, <3>2, <3>3
      <3>5. spent' \in [Bounded -> Nat]
        BY <2>2, SpendType DEF Bounded
      <3> QED
        BY <3>4, <3>5
    <2> QED
      BY <2>1, <2>2 DEF Webhook
  <1>6. TypeOK'
    BY <1>4, <1>5 DEF Webhook, IInv, TypeOK, Rows, livekit
  <1>7. Claims'
    BY DEF Webhook, IInv, Claims
  <1> QED
    BY <1>4, <1>6, <1>7 DEF IInv

LEMMA GiveUpKeeps ==
    ASSUME NEW u \in DOMAIN mail, NEW i \in DOMAIN mail[u]
    PROVE  IInv /\ GiveUp(u, i) => IInv' /\ Story
  <1> SUFFICES ASSUME IInv, GiveUp(u, i)
               PROVE  IInv' /\ Story
    OBVIOUS
  <1>1. /\ mail \in [Users \union {TheRoom} -> Seq(Event)]
        /\ u \in Users \union {TheRoom} /\ mail[u] \in Seq(Event)
    BY DEF IInv, TypeOK
  <1>2. i \in 1 .. Len(mail[u])
    BY <1>1, LenProperties
  <1>3. mail' \in [Users \union {TheRoom} -> Seq(Event)]
    BY <1>1, <1>2, RemoveAtType DEF GiveUp
  <1>4. Rows' /\ Story
    BY RowsKept, CallAssumption DEF GiveUp, rows, IInv, TypeOK, Time
  <1>5. spent' \in [Bounded -> Nat]
    BY SpendType DEF GiveUp, Bounded
  <1>6. TypeOK'
    BY <1>3, <1>4, <1>5 DEF GiveUp, IInv, TypeOK, Rows, rows, livekit
  <1>7. Claims'
    BY DEF GiveUp, IInv, Claims
  <1> QED
    BY <1>4, <1>6, <1>7 DEF IInv

LEMMA ReapKeeps == IInv /\ Reap => IInv' /\ Story
  <1> SUFFICES ASSUME IInv, Reap
               PROVE  IInv' /\ Story
    OBVIOUS
  <1>1. part \in [Users -> ParticipantRow] /\ now' = now
    BY DEF Reap, IInv, TypeOK
  <1>2. Terminalize(IF RingingIsOver THEN "missed" ELSE "ended", part)
    BY DEF Reap
  <1>3. Rows' /\ Story
    <2>1. CASE RingingIsOver
      BY <1>1, <1>2, <2>1, Terminalizing DEF RingingIsOver
    <2>2. CASE ~RingingIsOver
      <3>1. call.status = "active"
        BY <2>2 DEF Reap, TooLong, Empty
      <3> QED
        BY <1>1, <1>2, <2>2, <3>1, Terminalizing
    <2> QED
      BY <2>1, <2>2
  <1>4. jobs \subseteq jobs' /\ jobs' \subseteq Job
    BY JobsType DEF Reap, IInv, TypeOK
  <1>5. TypeOK'
    BY <1>3, <1>4 DEF Reap, IInv, TypeOK, Rows, livekit
  <1>6. Claims'
    BY DEF Reap, IInv, Claims
  <1> QED
    BY <1>3, <1>5, <1>6 DEF IInv

-----------------------------------------------------------------------------
(* Media jobs.                                                             *)

LEMMA PublishedType ==
    ASSUME IInv, NEW j, Published(j)
    PROVE  jobs' \subseteq jobs /\ jobs \ {j} \subseteq jobs' /\ spent' \in [Bounded -> Nat]
  BY SpendType DEF Published, IInv, TypeOK, Bounded

LEMMA ReportType ==
    ASSUME IInv, NEW s \in Seq(Event),
           NEW type \in {"room_started", "participant_joined", "participant_left", "room_finished"}
    PROVE  Append(s, Report(type)) \in Seq(Event)
  <1>1. Report(type) \in Event
    BY CallAssumption DEF IInv, TypeOK, Rows, Begun, Report, Event, Time
  <1> QED
    BY <1>1

LEMMA BeginRevokeKeeps ==
    ASSUME NEW j \in jobs PROVE IInv /\ BeginRevoke(j) => IInv' /\ Story
  <1> SUFFICES ASSUME IInv, BeginRevoke(j)
               PROVE  IInv' /\ Story
    OBVIOUS
  <1>1. Rows' /\ Story
    BY RowsKept, CallAssumption DEF BeginRevoke, IInv, TypeOK, Time
  <1>2. jobs' \subseteq jobs /\ underway' \subseteq jobs'
    BY DEF BeginRevoke, IInv, TypeOK
  <1>3. TypeOK'
    BY <1>1, <1>2 DEF BeginRevoke, IInv, TypeOK, Rows, livekit, Job
  <1>4. Claims'
    BY DEF BeginRevoke, IInv, Claims
  <1> QED
    BY <1>1, <1>3, <1>4 DEF IInv

LEMMA RevokeFailsKeeps ==
    ASSUME NEW j \in underway PROVE IInv /\ RevokeFails(j) => IInv' /\ Story
  <1> SUFFICES ASSUME IInv, RevokeFails(j)
               PROVE  IInv' /\ Story
    OBVIOUS
  <1>1. Rows' /\ Story
    BY RowsKept, CallAssumption DEF RevokeFails, rows, IInv, TypeOK, Time
  <1>2. TypeOK'
    BY <1>1 DEF RevokeFails, IInv, TypeOK, Rows, rows, livekit
  <1>3. Claims'
    BY DEF RevokeFails, IInv, Claims
  <1> QED
    BY <1>1, <1>2, <1>3 DEF IInv

LEMMA PutOutFacts ==
    ASSUME IInv, NEW j \in jobs, PutOut(j)
    PROVE  /\ Rows' /\ Story
           /\ jobs' \subseteq jobs /\ jobs \ {j} \subseteq jobs'
           /\ spent' \in [Bounded -> Nat]
           /\ cutoff' \in [Users -> Time]
           /\ mail' \in [Users \union {TheRoom} -> Seq(Event)]
           /\ room' \subseteq Users
  <1>1. /\ j.at \in Time /\ cutoff \in [Users -> Time] /\ room \subseteq Users
        /\ mail \in [Users \union {TheRoom} -> Seq(Event)]
    BY DEF IInv, TypeOK, Job
  <1>2. Rows' /\ Story
    <2>1. UNCHANGED <<now, call, part, member>>
      BY DEF PutOut
    <2>2. now \in Time /\ now >= now
      BY CallAssumption DEF IInv, TypeOK, Time
    <2> QED
      BY <2>1, <2>2, RowsKept
  <1>3. jobs' \subseteq jobs /\ jobs \ {j} \subseteq jobs' /\ spent' \in [Bounded -> Nat]
    BY PublishedType DEF PutOut
  <1>4. cutoff' \in [Users -> Time]
    BY <1>1 DEF PutOut, Later
  <1>5. mail' \in [Users \union {TheRoom} -> Seq(Event)]
    <2>1. CASE j.user \in room
      <3>1. Append(mail[j.user], Report("participant_left")) \in Seq(Event)
        BY <1>1, <2>1, ReportType
      <3> QED
        BY <1>1, <2>1, <3>1 DEF PutOut
    <2>2. CASE j.user \notin room
      BY <1>1, <2>2 DEF PutOut
    <2> QED
      BY <2>1, <2>2
  <1>6. room' \subseteq Users
    BY <1>1 DEF PutOut
  <1> QED
    BY <1>2, <1>3, <1>4, <1>5, <1>6

LEMMA RevokeKeeps == ASSUME NEW j \in underway PROVE IInv /\ Revoke(j) => IInv' /\ Story
  <1> SUFFICES ASSUME IInv, Revoke(j)
               PROVE  IInv' /\ Story
    OBVIOUS
  <1>1. j \in jobs /\ PutOut(j) /\ underway' = underway \ {j}
    BY DEF Revoke, IInv, TypeOK
  <1>2. TypeOK'
    BY <1>1, PutOutFacts DEF PutOut, IInv, TypeOK, Rows
  <1>3. Claims'
    BY <1>1 DEF IInv, Claims
  <1> QED
    BY <1>1, <1>2, <1>3, PutOutFacts DEF IInv

LEMMA RevokeRemovedKeeps ==
    ASSUME NEW j \in jobs PROVE IInv /\ RevokeRemoved(j) => IInv' /\ Story
  <1> SUFFICES ASSUME IInv, RevokeRemoved(j)
               PROVE  IInv' /\ Story
    OBVIOUS
  <1>1. PutOut(j) /\ underway' = underway /\ j \notin underway
    BY DEF RevokeRemoved, IInv, Claims
  <1>2. TypeOK'
    BY <1>1, PutOutFacts DEF PutOut, IInv, TypeOK, Rows
  <1>3. Claims'
    BY <1>1 DEF IInv, Claims
  <1> QED
    BY <1>1, <1>2, <1>3, PutOutFacts DEF IInv

LEMMA TerminateRoomKeeps ==
    ASSUME NEW j \in jobs PROVE IInv /\ TerminateRoom(j) => IInv' /\ Story
  <1> SUFFICES ASSUME IInv, TerminateRoom(j)
               PROVE  IInv' /\ Story
    OBVIOUS
  <1>1. /\ j.at \in Time /\ cutoff \in [Users -> Time]
        /\ mail \in [Users \union {TheRoom} -> Seq(Event)]
        /\ j \notin underway
    BY DEF TerminateRoom, IInv, TypeOK, Job, Claims
  <1>2. Rows' /\ Story
    BY RowsKept, CallAssumption DEF TerminateRoom, IInv, TypeOK, Time
  <1>3. jobs' \subseteq jobs /\ jobs \ {j} \subseteq jobs' /\ spent' \in [Bounded -> Nat]
    BY PublishedType DEF TerminateRoom
  <1>4. cutoff' \in [Users -> Time]
    BY <1>1 DEF TerminateRoom, Later
  <1>5. mail' \in [Users \union {TheRoom} -> Seq(Event)]
    <2>1. \A u \in Users \union {TheRoom} :
              /\ Append(mail[u], Report("participant_left")) \in Seq(Event)
              /\ Append(mail[u], Report("room_finished")) \in Seq(Event)
      BY <1>1, ReportType
    <2> QED
      BY <1>1, <2>1 DEF TerminateRoom
  <1>6. TypeOK'
    BY <1>1, <1>2, <1>3, <1>4, <1>5 DEF TerminateRoom, IInv, TypeOK, Rows
  <1>7. Claims'
    BY DEF TerminateRoom, IInv, Claims
  <1> QED
    BY <1>2, <1>6, <1>7 DEF IInv

-----------------------------------------------------------------------------
(* LiveKit and the clock.                                                  *)

LEMMA ConnectKeeps == ASSUME NEW u \in Users PROVE IInv /\ Connect(u) => IInv' /\ Story
  <1> SUFFICES ASSUME IInv, Connect(u)
               PROVE  IInv' /\ Story
    OBVIOUS
  <1>1. Rows' /\ Story
    BY RowsKept, CallAssumption DEF Connect, rows, IInv, TypeOK, Time
  <1>2. mail' \in [Users \union {TheRoom} -> Seq(Event)]
    <2>1. /\ mail \in [Users \union {TheRoom} -> Seq(Event)]
          /\ u # TheRoom
      BY CallAssumption DEF IInv, TypeOK, TheRoom
    <2>2. /\ Append(mail[u], Report("participant_joined")) \in Seq(Event)
          /\ Append(mail[TheRoom], Report("room_started")) \in Seq(Event)
      BY <2>1, ReportType
    <2> QED
      BY <2>1, <2>2 DEF Connect
  <1>3. spent' \in [Bounded -> Nat]
    BY SpendType DEF Connect, Bounded
  <1>4. TypeOK'
    BY <1>1, <1>2, <1>3 DEF Connect, IInv, TypeOK, Rows, rows
  <1>5. Claims'
    BY DEF Connect, IInv, Claims
  <1> QED
    BY <1>1, <1>4, <1>5 DEF IInv

LEMMA DisconnectKeeps == ASSUME NEW u \in Users PROVE IInv /\ Disconnect(u) => IInv' /\ Story
  <1> SUFFICES ASSUME IInv, Disconnect(u)
               PROVE  IInv' /\ Story
    OBVIOUS
  <1>1. Rows' /\ Story
    BY RowsKept, CallAssumption DEF Disconnect, rows, IInv, TypeOK, Time
  <1>2. mail' \in [Users \union {TheRoom} -> Seq(Event)]
    BY ReportType DEF Disconnect, IInv, TypeOK
  <1>3. TypeOK'
    BY <1>1, <1>2 DEF Disconnect, IInv, TypeOK, Rows, rows
  <1>4. Claims'
    BY DEF Disconnect, IInv, Claims
  <1> QED
    BY <1>1, <1>3, <1>4 DEF IInv

LEMMA FinishRoomKeeps == IInv /\ FinishRoom => IInv' /\ Story
  <1> SUFFICES ASSUME IInv, FinishRoom
               PROVE  IInv' /\ Story
    OBVIOUS
  <1>1. Rows' /\ Story
    BY RowsKept, CallAssumption DEF FinishRoom, rows, IInv, TypeOK, Time
  <1>2. mail' \in [Users \union {TheRoom} -> Seq(Event)]
    BY ReportType DEF FinishRoom, IInv, TypeOK
  <1>3. TypeOK'
    BY <1>1, <1>2 DEF FinishRoom, IInv, TypeOK, Rows, rows
  <1>4. Claims'
    BY DEF FinishRoom, IInv, Claims
  <1> QED
    BY <1>1, <1>3, <1>4 DEF IInv

LEMMA TickKeeps == IInv /\ Tick => IInv' /\ Story
  <1> SUFFICES ASSUME IInv, Tick
               PROVE  IInv' /\ Story
    OBVIOUS
  <1>1. now' \in Time /\ now' >= now
    BY CallAssumption DEF Tick, IInv, TypeOK, Time
  <1>2. Rows' /\ Story
    BY <1>1, RowsKept DEF Tick, rows
  <1>3. TypeOK'
    BY <1>1, <1>2 DEF Tick, IInv, TypeOK, Rows, rows, livekit
  <1>4. Claims'
    BY DEF Tick, IInv, Claims
  <1> QED
    BY <1>2, <1>3, <1>4 DEF IInv

-----------------------------------------------------------------------------
(* The invariant and the story of every step.                              *)

LEMMA InitHolds == Init => IInv /\ Contract!Init
  <1> SUFFICES ASSUME Init
               PROVE  IInv /\ Contract!Init
    OBVIOUS
  <1>1. Joined(part) = {}
    BY DEF Init, Joined
  <1>2. call \in CallRow
    BY CallAssumption DEF Init, CallRow, Time
  <1>3. part \in [Users -> ParticipantRow]
    BY CallAssumption DEF Init, ParticipantRow, Time
  <1>4. mail \in [Users \union {TheRoom} -> Seq(Event)]
    BY EmptySeq DEF Init
  <1>5. TypeOK
    <2>1. now \in Time /\ begun \in Time /\ joining \in Users \union {NoOne}
      BY CallAssumption DEF Init, Time
    <2>2. cutoff \in [Users -> Time] /\ token \in [Users -> Time]
      BY CallAssumption DEF Init, Time
    <2>3. spent \in [Bounded -> Nat]
      BY DEF Init
    <2> QED
      BY <1>2, <1>3, <1>4, <2>1, <2>2, <2>3 DEF Init, TypeOK
  <1>6. Rows
    BY <1>1, <1>2, <1>3 DEF Init, Rows, Begun, RowsAgree, OutcomeIsTrue, RemovedHaveNotJoined,
                           TerminalCallStatuses
  <1>7. Claims
    BY DEF Init, Claims
  <1>8. Contract!Init
    BY <1>1 DEF Init, Contract!Init
  <1> QED
    BY <1>5, <1>6, <1>7, <1>8 DEF IInv

LEMMA StepHolds == IInv /\ [Next]_vars => IInv' /\ Story
  <1> SUFFICES ASSUME IInv, [Next]_vars
               PROVE  IInv' /\ Story
    OBVIOUS
  <1>1. CASE UNCHANGED vars
    <2>1. Rows' /\ Story
      BY <1>1, RowsKept, CallAssumption DEF vars, rows, IInv, TypeOK, Time
    <2>2. TypeOK' /\ Claims'
      BY <1>1 DEF vars, rows, livekit, IInv, TypeOK, Claims
    <2> QED
      BY <2>1, <2>2 DEF IInv
  <1>2. CASE StartCall \/ EndCall \/ Reap \/ FinishRoom \/ Tick
    BY <1>2, StartCallKeeps, EndCallKeeps, ReapKeeps, FinishRoomKeeps, TickKeeps
  <1>3. ASSUME NEW u \in Users,
               \/ BeginJoin(u) \/ FinishJoin(u) \/ RollBackJoin(u)
               \/ LeaveCall(u) \/ DeclineCall(u) \/ RemoveMember(u)
               \/ Connect(u) \/ Disconnect(u)
        PROVE  IInv' /\ Story
    BY <1>3, BeginJoinKeeps, FinishJoinKeeps, RollBackJoinKeeps, LeaveCallKeeps,
       DeclineCallKeeps, RemoveMemberKeeps, ConnectKeeps, DisconnectKeeps
  <1>4. ASSUME NEW u \in DOMAIN mail, NEW i \in DOMAIN mail[u], Webhook(u, i) \/ GiveUp(u, i)
        PROVE  IInv' /\ Story
    BY <1>4, WebhookKeeps, GiveUpKeeps
  <1>5. ASSUME NEW j \in jobs, BeginRevoke(j) \/ RevokeRemoved(j) \/ TerminateRoom(j)
        PROVE  IInv' /\ Story
    BY <1>5, BeginRevokeKeeps, RevokeRemovedKeeps, TerminateRoomKeeps
  <1>6. ASSUME NEW j \in underway, RevokeFails(j) \/ Revoke(j)
        PROVE  IInv' /\ Story
    BY <1>6, RevokeFailsKeeps, RevokeKeeps
  <1> QED
    BY <1>1, <1>2, <1>3, <1>4, <1>5, <1>6 DEF Next

(* The invariant holds in every reachable state.                           *)
LEMMA Invariance == Spec => []IInv
  BY InitHolds, StepHolds, PTL DEF Spec

(* Every reachable state is well typed; in particular no revocation is     *)
(* under way whose job is gone from the outbox.                            *)
THEOREM CallTypeCorrectness == Spec => []TypeOK
  <1>1. IInv => TypeOK
    BY DEF IInv
  <1> QED
    BY <1>1, Invariance, PTL

(* Whoever is counted as joined is in an active call, and when a call is   *)
(* over nobody is still invited, connecting or joined, whichever request,  *)
(* webhook or reaper ended it.                                             *)
THEOREM RowsTellOneStory == Spec => []RowsAgree
  <1>1. IInv => RowsAgree
    BY DEF IInv, Rows
  <1> QED
    BY <1>1, Invariance, PTL

(* A call is reported ended only if it was answered, missed or cancelled   *)
(* only if it was not, whatever raced with the first to come in.           *)
THEOREM OutcomesAreTrue == Spec => []OutcomeIsTrue
  <1>1. IInv => OutcomeIsTrue
    BY DEF IInv, Rows
  <1> QED
    BY <1>1, Invariance, PTL

(* A member who was removed from the organization is never counted as      *)
(* joined again, even when removed in the middle of their join.            *)
THEOREM RemovedStayUncounted == Spec => []RemovedHaveNotJoined
  <1>1. IInv => RemovedHaveNotJoined
    BY DEF IInv, Rows
  <1> QED
    BY <1>1, Invariance, PTL

(* The lifecycle implements CallContract: the outcome of a call is final,  *)
(* and people are counted in and out one at a time until it closes.        *)
THEOREM CallContractIsKept == Spec => ContractKept
  <1>1. IInv /\ [Next]_vars => [Contract!Next]_(Contract!vars)
    BY StepHolds DEF Story
  <1> QED
    BY <1>1, InitHolds, Invariance, PTL DEF Spec, ContractKept, Contract!Spec
=============================================================================
