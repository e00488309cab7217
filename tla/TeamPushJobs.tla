---------------------------- MODULE TeamPushJobs -----------------------------
(***************************************************************************)
(* Push notifications for messages and ringing calls,                      *)
(* backend/team_push_jobs.py.                                              *)
(*                                                                         *)
(* Items are rows of team_notification_outbox, all for one recipient.      *)
(* Workers are the scheduled job and the background tasks of started       *)
(* calls, in any number of processes.  A worker claims a batch in one      *)
(* transaction, then takes its items one by one: is the notification still *)
(* wanted, which devices, one push to each, and a mark in the row.  Each   *)
(* database access is a step.  What a claim protects an item with is a     *)
(* time, locked_at: nobody else claims it for five minutes.                *)
(*                                                                         *)
(* Abstracted: times (due or not, lapsed or not, how long a call rings),   *)
(* payloads, error texts.  Rows that account deletion removes are left out.*)
(***************************************************************************)
EXTENDS Naturals, FiniteSets

CONSTANTS Messages, Calls,  \* ids of the rows, by event_type
          Devices,          \* the recipient's push subscriptions
          Workers,
          Limit,            \* the size of a scheduled batch
          MaxAttempts,      \* max_attempts
          MaxSlow,          \* bound: locks that lapse while their worker goes on
          MaxFaults         \* bound: exceptions and killed workers

Items == Messages \union Calls

ASSUME IdsAssumption == Items \subseteq Nat \ {0} /\ Messages \intersect Calls = {}
ASSUME LimitAssumption == Limit \in Nat \ {0}            \* main, line 529
ASSUME MaxAttemptsAssumption == MaxAttempts \in Nat \ {0}
ASSUME BoundsAssumption == MaxSlow \in Nat /\ MaxFaults \in Nat

VARIABLES
    status,    \* of each row; "none" before it is inserted
    attempts,  \* of each row
    due,       \* available_at has passed
    lock,      \* locked_at: null, within five minutes, or older
    wanted,    \* whether the recipient can still use the notification
    active,    \* the subscriptions whose status is 'active'
    worker,    \* each worker's step and what it remembers
    shown,     \* how often each device was made to show each item
    slow, faults

row      == <<status, attempts, due, lock>>
counters == <<slow, faults>>
vars     == <<row, wanted, active, worker, shown, counters>>
-----------------------------------------------------------------------------
Final  == {"delivered", "suppressed", "dead"}
Status == {"none", "pending"} \union Final

\* "ending": a call that rings for one more second, too short for a retry;
\* "answered": one that rings on, but not for this recipient.
Wanted == {"yes", "ending", "answered", "no"}

Steps == {"idle", "next", "check", "load", "push", "mark", "caught"}

WorkerStates == [pc : Steps,
                 batch : SUBSET Items,       \* claimed, not yet begun
                 seen : [Items -> Nat],      \* attempts as claimed
                 item : Items \union {0},    \* begun, or 0
                 todo : SUBSET Devices,      \* still to be pushed to
                 reached : BOOLEAN,          \* successes > 0
                 outcome : Status]           \* what _mark will write

TypeOK ==
    /\ status \in [Items -> Status]
    /\ attempts \in [Items -> Nat]
    /\ due \in [Items -> BOOLEAN]
    /\ lock \in [Items -> {"free", "held", "lapsed"}]
    /\ wanted \in [Items -> Wanted]
    /\ active \subseteq Devices
    /\ worker \in [Workers -> WorkerStates]
    /\ shown \in [Items -> [Devices -> Nat]]
    /\ slow \in 0 .. MaxSlow
    /\ faults \in 0 .. MaxFaults
-----------------------------------------------------------------------------
Nothing == [i \in Items |-> 0]

Doing(step, batch, seen, i) ==
    [pc |-> step, batch |-> batch, seen |-> seen, item |-> i,
     todo |-> {}, reached |-> FALSE, outcome |-> "none"]

Idle == Doing("idle", {}, Nothing, 0)

Init ==
    /\ status = [i \in Items |-> "none"]
    /\ attempts = Nothing
    /\ due = [i \in Items |-> FALSE]
    /\ lock = [i \in Items |-> "free"]
    /\ wanted = [i \in Items |-> "yes"]
    /\ active = Devices
    /\ worker = [w \in Workers |-> Idle]
    /\ shown = [i \in Items |-> [d \in Devices |-> 0]]
    /\ slow = 0
    /\ faults = 0

Fault ==
    /\ faults < MaxFaults
    /\ faults' = faults + 1
    /\ UNCHANGED slow

At(w, step) == worker[w].pc = step

Become(w, state) == worker' = [worker EXCEPT ![w] = state]
-----------------------------------------------------------------------------
(* What happens around the workers. *)

\* A message is stored, or a call starts.
Enqueue(i) ==
    /\ status[i] = "none"
    /\ status' = [status EXCEPT ![i] = "pending"]
    /\ due' = [due EXCEPT ![i] = TRUE]
    /\ UNCHANGED <<attempts, lock, wanted, active, worker, shown, counters>>

\* The message is read; the call is answered or over, or its ringing ends.
Settle(i) ==
    /\ status[i] # "none"
    /\ \/ wanted[i] = "yes" /\ i \in Messages /\ wanted' = [wanted EXCEPT ![i] = "no"]
       \/ wanted[i] = "yes" /\ i \in Calls
          /\ \E v \in {"ending", "answered"} : wanted' = [wanted EXCEPT ![i] = v]
       \/ wanted[i] \in {"ending", "answered"} /\ wanted' = [wanted EXCEPT ![i] = "no"]
    /\ UNCHANGED <<row, active, worker, shown, counters>>

Subscribe(d) ==
    /\ d \notin active
    /\ active' = active \union {d}
    /\ UNCHANGED <<row, wanted, worker, shown, counters>>

Unsubscribe(d) ==
    /\ d \in active
    /\ active' = active \ {d}
    /\ UNCHANGED <<row, wanted, worker, shown, counters>>

BecomeDue(i) ==
    /\ status[i] = "pending"
    /\ ~due[i]
    /\ due' = [due EXCEPT ![i] = TRUE]
    /\ UNCHANGED <<status, attempts, lock, wanted, active, worker, shown, counters>>

\* A worker that still has to do with the item.
InHand(i) == \E w \in Workers : i \in worker[w].batch \/ worker[w].item = i

\* Five minutes pass; a worker may well be slower, a push has no timeout.  No
\* call rings that long (_ring_timeout_seconds: at most 300 s, from its start).
Lapse(i) ==
    /\ lock[i] = "held"
    /\ i \in Calls => wanted[i] = "no"
    /\ IF InHand(i) THEN slow < MaxSlow /\ slow' = slow + 1 ELSE slow' = slow
    /\ lock' = [lock EXCEPT ![i] = "lapsed"]
    /\ UNCHANGED <<status, attempts, due, wanted, active, worker, shown, faults>>
-----------------------------------------------------------------------------
(* _claim and _claim_event_keys *)

\* Bug: the claim does not look at locked_at.
Claimable_Unlocked == {i \in Items : status[i] = "pending" /\ due[i]}

\* Bug: the claim does not look at the status.
Claimable_AnyStatus == {i \in Items : due[i] /\ lock[i] # "held"}

Claimable == {i \in Items : status[i] = "pending" /\ due[i] /\ lock[i] # "held"}

\* Bug: the claim forgets to count.
Take_NoCount(w, batch) ==
    /\ At(w, "idle")
    /\ batch # {}
    /\ lock' = [i \in Items |-> IF i \in batch THEN "held" ELSE lock[i]]
    /\ Become(w, Doing("next", batch,
                       [i \in Items |-> IF i \in batch THEN attempts[i] ELSE 0], 0))
    /\ UNCHANGED <<status, attempts, due, wanted, active, shown, counters>>

Take(w, batch) ==
    /\ At(w, "idle")
    /\ batch # {}
    /\ lock' = [i \in Items |-> IF i \in batch THEN "held" ELSE lock[i]]
    /\ attempts' = [i \in Items |-> IF i \in batch THEN attempts[i] + 1 ELSE attempts[i]]
    /\ Become(w, Doing("next", batch,
                       [i \in Items |-> IF i \in batch THEN attempts[i] + 1 ELSE 0], 0))
    /\ UNCHANGED <<status, due, wanted, active, shown, counters>>

\* The scheduled job takes the oldest rows.
ClaimDue(w) ==
    Take(w, {i \in Claimable : Cardinality({j \in Claimable : j < i}) < Limit})

\* A started call is announced at once.
ClaimCall(w) == \E batch \in SUBSET (Claimable \intersect Calls) : Take(w, batch)
-----------------------------------------------------------------------------
(* _deliver_claimed: every item of the batch, in any order. *)

Pick(w) ==
    /\ At(w, "next")
    /\ \/ /\ worker[w].batch = {}
          /\ Become(w, Idle)
       \/ \E i \in worker[w].batch :
             Become(w, Doing("check", worker[w].batch \ {i}, worker[w].seen, i))
    /\ UNCHANGED <<row, wanted, active, shown, counters>>

Conclude(w, outcome) ==
    Become(w, [worker[w] EXCEPT !.pc = "mark", !.outcome = outcome])

\* Bug: whether a call still rings is not asked when its turn comes.
Obsolete_MessagesOnly(i) == i \in Messages /\ wanted[i] = "no"

\* The call is no longer actionable, the message was read.
Obsolete(i) == wanted[i] \in {"answered", "no"}

\* A message is not pushed to a recipient who is online either.
Check(w) ==
    LET i == worker[w].item IN
    /\ At(w, "check")
    /\ \/ Obsolete(i) /\ Conclude(w, "suppressed")
       \/ ~Obsolete(i) /\ i \in Messages /\ Conclude(w, "suppressed")
       \/ ~Obsolete(i) /\ Become(w, [worker[w] EXCEPT !.pc = "load"])
    /\ UNCHANGED <<row, wanted, active, shown, counters>>

Load(w) ==
    /\ At(w, "load")
    /\ IF active = {} THEN Conclude(w, "dead")
                      ELSE Become(w, [worker[w] EXCEPT !.pc = "push", !.todo = active])
    /\ UNCHANGED <<row, wanted, active, shown, counters>>

Show(i, d) == shown' = [shown EXCEPT ![i][d] = @ + 1]

PushAccepted(w) ==
    /\ At(w, "push")
    /\ \E d \in worker[w].todo :
          /\ Show(worker[w].item, d)
          /\ Become(w, [worker[w] EXCEPT !.todo = @ \ {d}, !.reached = TRUE])
    /\ UNCHANGED <<row, wanted, active, counters>>

\* Bug: an attempt succeeds only when every device takes the push.
PushRefused_Spoils(w) ==
    /\ At(w, "push")
    /\ \E d \in worker[w].todo, gone \in BOOLEAN :
          /\ Become(w, [worker[w] EXCEPT !.todo = {}, !.reached = FALSE])
          /\ active' = IF gone THEN active \ {d} ELSE active
    /\ UNCHANGED <<row, wanted, shown, counters>>

\* WebPushException: the loop goes on; 404 and 410 expire the subscription.
PushRefused(w) ==
    /\ At(w, "push")
    /\ \E d \in worker[w].todo, gone \in BOOLEAN :
          /\ Become(w, [worker[w] EXCEPT !.todo = @ \ {d}])
          /\ active' = IF gone THEN active \ {d} ELSE active
    /\ UNCHANGED <<row, wanted, shown, counters>>

\* Bug: one attempt too many is planned.
RetryOrDie_OffByOne(w) ==
    LET i == worker[w].item IN
    IF worker[w].seen[i] > MaxAttempts \/ (i \in Calls /\ wanted[i] \in {"ending", "no"})
    THEN "dead" ELSE "pending"

\* Dead after max_attempts, and when a call will not ring long enough.
RetryOrDie(w) ==
    LET i == worker[w].item IN
    IF worker[w].seen[i] >= MaxAttempts \/ (i \in Calls /\ wanted[i] \in {"ending", "no"})
    THEN "dead" ELSE "pending"

\* Bug: an attempt that raised nothing is taken for a delivery.
Weigh_Always(w) ==
    /\ At(w, "push")
    /\ worker[w].todo = {}
    /\ Conclude(w, "delivered")
    /\ UNCHANGED <<row, wanted, active, shown, counters>>

Weigh(w) ==
    /\ At(w, "push")
    /\ worker[w].todo = {}
    /\ Conclude(w, IF worker[w].reached THEN "delivered" ELSE RetryOrDie(w))
    /\ UNCHANGED <<row, wanted, active, shown, counters>>

\* Bug: a row that is given up gets a status the table does not know.
MarkRow_Failed(i, outcome) ==
    /\ status' = [status EXCEPT ![i] = IF outcome = "dead" THEN "failed" ELSE outcome]
    /\ lock' = [lock EXCEPT ![i] = "free"]
    /\ UNCHANGED <<attempts, due>>

\* _mark asks neither whether the lock is still the worker's nor what the row
\* says by now.
MarkRow(i, outcome) ==
    /\ status' = [status EXCEPT ![i] = outcome]
    /\ lock' = [lock EXCEPT ![i] = "free"]
    /\ due' = [due EXCEPT ![i] = outcome # "pending" /\ @]
    /\ UNCHANGED attempts

Mark(w) ==
    /\ At(w, "mark")
    /\ MarkRow(worker[w].item, worker[w].outcome)
    /\ Become(w, Doing("next", worker[w].batch, worker[w].seen, 0))
    /\ UNCHANGED <<wanted, active, shown, counters>>

\* Any access fails: the item is given up for this time.
Raise(w) ==
    /\ worker[w].pc \in {"check", "load", "mark"}
    /\ Fault
    /\ Become(w, [worker[w] EXCEPT !.pc = "caught"])
    /\ UNCHANGED <<row, wanted, active, shown>>

\* An exception of another kind than WebPushException leaves the loop over the
\* devices: a broken connection, whatever became of the push, or a failing update.
PushBreaks(w) ==
    /\ At(w, "push")
    /\ Fault
    /\ \E d \in worker[w].todo : \/ Show(worker[w].item, d)
                                 \/ UNCHANGED shown
    /\ Become(w, [worker[w] EXCEPT !.pc = "caught"])
    /\ UNCHANGED <<row, wanted, active>>

\* except Exception
MarkCaught(w) ==
    /\ At(w, "caught")
    /\ MarkRow(worker[w].item, RetryOrDie(w))
    /\ Become(w, Doing("next", worker[w].batch, worker[w].seen, 0))
    /\ UNCHANGED <<wanted, active, shown, counters>>

\* The worker is killed, lacks its configuration, or its last mark fails: what
\* is left of the batch keeps its lock until it lapses.
Abandon(w) ==
    /\ ~At(w, "idle")
    /\ Fault
    /\ Become(w, Idle)
    /\ UNCHANGED <<row, wanted, active, shown>>

Deliver(w) == \/ Pick(w) \/ Check(w) \/ Load(w) \/ PushAccepted(w) \/ PushRefused(w)
              \/ Weigh(w) \/ Mark(w) \/ MarkCaught(w)
-----------------------------------------------------------------------------
Next ==
    \/ \E i \in Items : Enqueue(i) \/ Settle(i) \/ BecomeDue(i) \/ Lapse(i)
    \/ \E d \in Devices : Subscribe(d) \/ Unsubscribe(d)
    \/ \E w \in Workers : \/ ClaimDue(w) \/ ClaimCall(w) \/ Deliver(w)
                          \/ Raise(w) \/ PushBreaks(w) \/ Abandon(w)

Spec == Init /\ [][Next]_vars

\* Workers go on, the scheduled job is started again and again, time passes.
Fairness ==
    /\ \A w \in Workers : WF_vars(Deliver(w))
    /\ WF_vars(\E w \in Workers : ClaimDue(w))
    /\ \A i \in Items : /\ WF_vars(BecomeDue(i))
                        /\ WF_vars(i \in Calls /\ Settle(i))
                        /\ WF_vars(~InHand(i) /\ Lapse(i))

FairSpec == Spec /\ Fairness
-----------------------------------------------------------------------------
\* Safety: while no worker is slower than its lock, an item is in the hands of
\* at most one: the scheduled job and the announcement of a call do not meet.
OneWorker ==
    slow = 0 => \A v, w \in Workers : v # w =>
        (worker[v].batch \union {worker[v].item})
            \intersect (worker[w].batch \union {worker[w].item}) \subseteq {0}

\* Safety: while nothing fails, a device shows a notification once, however many
\* attempts other devices need; of a message only while no worker is slower than
\* its lock, of a call in any case, for its ringing ends before the lock does.
ShownOnce ==
    faults = 0 => \A i \in Items, d \in Devices :
        (slow = 0 \/ i \in Calls) => shown[i][d] <= 1

\* Safety: a row says 'delivered' only if a device has shown the notification ...
DeliveredWasShown ==
    \A i \in Items : status[i] = "delivered" => \E d \in Devices : shown[i][d] > 0

\* ... and, while nothing fails and no worker is too slow, 'suppressed' and
\* 'dead' only if none has.
NotDeliveredWasNotShown ==
    slow = 0 /\ faults = 0 =>
        \A i \in Items : status[i] \in {"suppressed", "dead"} => \A d \in Devices : shown[i][d] = 0

\* Safety: the outbox tells the truth about what devices have shown.
OutboxIsTrue == DeliveredWasShown /\ NotDeliveredWasNotShown

\* Safety: an item is claimed max_attempts times, and once more for every claim
\* whose outcome was lost or came late: neither is remembered as a failure.
AttemptsBounded == \A i \in Items : attempts[i] <= MaxAttempts + slow + faults

\* Safety: a pending item that nobody has claimed has an attempt left.
AttemptLeft ==
    slow = 0 => \A i \in Items :
        status[i] = "pending" /\ lock[i] = "free" => attempts[i] < MaxAttempts

\* Action property: while no worker is slower than its lock, a row that is
\* delivered, suppressed or dead stays so.
FinalStays == [][\A i \in Items : slow = 0 /\ status[i] \in Final => status'[i] = status[i]]_vars

\* Liveness: every notification is delivered, suppressed or given up, whatever
\* workers are killed or too slow.
ItemsEnd == \A i \in Items : (status[i] = "pending") ~> (status[i] \in Final)

\* Liveness: and that after a bounded number of attempts.
ItemsSettle == ItemsEnd /\ []AttemptsBounded
=============================================================================
