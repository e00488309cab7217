------------------------- MODULE TeamPushJobsProofs --------------------------
(***************************************************************************)
(* What TeamPushJobs guarantees for all items, devices and workers.        *)
(*                                                                         *)
(* A claim is a time and not an owner, so everything rests on saying when  *)
(* it still protects: an item is secure while no worker was slower than    *)
(* its lock, and a call as long as it may ring.  A secure item is in the   *)
(* hands of one worker, whose row is still as it was claimed (Owned,       *)
(* Alone); the other parts of the invariant say what that worker has      *)
(* shown so far.                                                           *)
(***************************************************************************)
EXTENDS TeamPushJobs, TLAPS

Holds(w, i)   == i \in worker[w].batch \/ worker[w].item = i
Pushing(w, i) == worker[w].item = i /\ worker[w].pc \in {"load", "push"}
Secure(i)     == slow = 0 \/ (i \in Calls /\ wanted[i] # "no")
Untouched(i)  == \A d \in Devices : shown[i][d] = 0

Shape == \A w \in Workers :
    /\ worker[w].pc = "idle" => worker[w].batch = {}
    /\ (worker[w].item = 0) <=> (worker[w].pc \in {"idle", "next"})
    /\ worker[w].item \notin worker[w].batch
    /\ worker[w].pc = "mark" => worker[w].outcome # "none"
    /\ worker[w].pc \in {"check", "load"} => ~worker[w].reached
    /\ worker[w].pc = "caught" => faults > 0

Known == \A i \in Items : status[i] = "none" =>
    attempts[i] = 0 /\ Untouched(i) /\ \A w \in Workers : ~Holds(w, i)

Owned == \A w \in Workers, i \in Items : Secure(i) /\ Holds(w, i) =>
    status[i] = "pending" /\ lock[i] = "held" /\ worker[w].seen[i] = attempts[i]

Alone == \A v, w \in Workers, i \in Items : Secure(i) /\ Holds(v, i) /\ Holds(w, i) => v = w

OnePusher == \A v, w \in Workers, i \in Items :
    (slow = 0 \/ i \in Calls) /\ Pushing(v, i) /\ Pushing(w, i) => v = w

Planned == \A w \in Workers : worker[w].pc = "mark" /\ worker[w].outcome = "pending" =>
    worker[w].seen[worker[w].item] < MaxAttempts

Reached == \A w \in Workers :
    \/ worker[w].pc = "push" /\ worker[w].reached
    \/ worker[w].pc = "mark" /\ worker[w].outcome = "delivered"
    => \E d \in Devices : shown[worker[w].item][d] > 0

Quiet == faults = 0 => \A w \in Workers, i \in Items : worker[w].item = i =>
    /\ (slow = 0 \/ i \in Calls) /\ worker[w].pc = "load" => Untouched(i)
    /\ (slow = 0 \/ i \in Calls) /\ worker[w].pc = "push" =>
          /\ \A d \in worker[w].todo : shown[i][d] = 0
          /\ ~worker[w].reached => Untouched(i)
    /\ Secure(i) /\ worker[w].pc = "mark" /\ worker[w].outcome # "delivered" => Untouched(i)

Fresh == faults = 0 => \A i \in Items :
    /\ Secure(i)
    /\ status[i] = "pending"
    /\ \A w \in Workers : worker[w].item = i => worker[w].pc = "check"
    => Untouched(i)

Hands == Shape /\ Known /\ Owned /\ Alone /\ OnePusher
Marks == Planned /\ Reached /\ DeliveredWasShown /\ AttemptLeft
Shows == Quiet /\ Fresh /\ ShownOnce /\ NotDeliveredWasNotShown

IInv == TypeOK /\ Hands /\ Marks /\ Shows
-----------------------------------------------------------------------------
(* A step of one worker. *)

LEMMA DoingTyped ==
    ASSUME NEW step \in Steps, NEW batch \in SUBSET Items, NEW seen \in [Items -> Nat],
           NEW i \in Items \union {0}
    PROVE  Doing(step, batch, seen, i) \in WorkerStates
BY DEF Doing, WorkerStates, Status

LEMMA IdleTyped == Idle \in WorkerStates
BY DoingTyped DEF Idle, Nothing, Steps

LEMMA Others ==
    ASSUME TypeOK, NEW w \in Workers, NEW state, Become(w, state)
    PROVE  worker'[w] = state /\ \A v \in Workers \ {w} : worker'[v] = worker[v]
BY DEF TypeOK, Become

LEMMA BecomeTyped ==
    ASSUME TypeOK, NEW w \in Workers, NEW state \in WorkerStates, Become(w, state)
    PROVE  worker' \in [Workers -> WorkerStates]
BY DEF TypeOK, Become

LEMMA ShowTyped ==
    ASSUME TypeOK, NEW i \in Items \union {0}, NEW d \in Devices, Show(i, d)
    PROVE  shown' \in [Items -> [Devices -> Nat]]
<1> DEFINE one == [shown[i] EXCEPT ![d] = @ + 1]
<1>1. CASE i \in Items
  <2>1. one \in [Devices -> Nat]
    BY <1>1 DEF TypeOK
  <2>2. shown' = [shown EXCEPT ![i] = one]
    BY DEF Show
  <2> HIDE DEF one
  <2> QED
    BY <2>1, <2>2 DEF TypeOK
<1>2. CASE i \notin Items
  <2>1. shown' = [shown EXCEPT ![i] = one]
    BY DEF Show
  <2> HIDE DEF one
  <2> QED
    BY <2>1, <1>2 DEF TypeOK
<1> QED
  BY <1>1, <1>2

LEMMA TypeStep == TypeOK /\ [Next]_vars => TypeOK'
<1> SUFFICES ASSUME TypeOK, [Next]_vars PROVE TypeOK'
  OBVIOUS
<1> USE MaxAttemptsAssumption, BoundsAssumption
<1>0. \A w \in Workers : worker[w] \in WorkerStates
  BY DEF TypeOK
<1>1. ASSUME NEW i \in Items, Enqueue(i) \/ Settle(i) \/ BecomeDue(i) PROVE TypeOK'
  BY <1>1 DEF TypeOK, Enqueue, Settle, BecomeDue, row, counters, Status, Wanted
<1>2. ASSUME NEW i \in Items, Lapse(i) PROVE TypeOK'
  BY <1>2 DEF TypeOK, Lapse
<1>3. ASSUME NEW d \in Devices, Subscribe(d) \/ Unsubscribe(d) PROVE TypeOK'
  BY <1>3 DEF TypeOK, Subscribe, Unsubscribe, row, counters
<1>4. ASSUME NEW w \in Workers, NEW batch \in SUBSET Items, Take(w, batch) PROVE TypeOK'
  <2>1. attempts' \in [Items -> Nat] /\ lock' \in [Items -> {"free", "held", "lapsed"}]
    BY <1>4 DEF TypeOK, Take
  <2>2. [i \in Items |-> IF i \in batch THEN attempts[i] + 1 ELSE 0] \in [Items -> Nat]
    BY DEF TypeOK
  <2>3. worker' \in [Workers -> WorkerStates]
    BY <1>4, <2>2, BecomeTyped, DoingTyped DEF Take, Steps
  <2> QED
    BY <1>4, <2>1, <2>3 DEF TypeOK, Take, counters
<1>5. ASSUME NEW w \in Workers, ClaimDue(w) \/ ClaimCall(w) PROVE TypeOK'
  <2>1. PICK batch \in SUBSET Items : Take(w, batch)
    BY <1>5 DEF ClaimDue, ClaimCall, Claimable
  <2> QED
    BY <2>1, <1>4
<1>6. ASSUME NEW w \in Workers, Pick(w) PROVE TypeOK'
  <2>1. worker[w].batch \subseteq Items /\ worker[w].seen \in [Items -> Nat]
    BY <1>0 DEF WorkerStates
  <2>2. PICK state \in WorkerStates : Become(w, state)
    <3>1. CASE Become(w, Idle)
      BY <3>1, IdleTyped
    <3>2. ASSUME NEW i \in worker[w].batch,
                 Become(w, Doing("check", worker[w].batch \ {i}, worker[w].seen, i))
          PROVE  \E state \in WorkerStates : Become(w, state)
      <4>1. Doing("check", worker[w].batch \ {i}, worker[w].seen, i) \in WorkerStates
        BY <2>1, DoingTyped DEF Steps
      <4> QED
        BY <3>2, <4>1
    <3> QED
      BY <1>6, <3>1, <3>2 DEF Pick
  <2>3. worker' \in [Workers -> WorkerStates]
    BY <2>2, BecomeTyped
  <2> QED
    BY <1>6, <2>3 DEF TypeOK, Pick, row, counters
<1>7. ASSUME NEW w \in Workers, Check(w) \/ Load(w) \/ Weigh(w) PROVE TypeOK'
  <2>1. PICK state \in WorkerStates : Become(w, state)
    <3>1. \A v \in Status : [worker[w] EXCEPT !.pc = "mark", !.outcome = v] \in WorkerStates
      BY <1>0 DEF WorkerStates, Steps
    <3>2. [worker[w] EXCEPT !.pc = "load"] \in WorkerStates
      BY <1>0 DEF WorkerStates, Steps
    <3>3. [worker[w] EXCEPT !.pc = "push", !.todo = active] \in WorkerStates
      <4>1. active \subseteq Devices
        BY DEF TypeOK
      <4> QED
        BY <1>0, <4>1 DEF WorkerStates, Steps
    <3>4. {"suppressed", "dead", "delivered", RetryOrDie(w)} \subseteq Status
      BY DEF Status, Final, RetryOrDie
    <3>5. CASE Check(w)
      BY <3>5, <3>1, <3>2, <3>4 DEF Check, Conclude
    <3>6. CASE Load(w)
      BY <3>6, <3>1, <3>3, <3>4 DEF Load, Conclude
    <3>7. CASE Weigh(w)
      BY <3>7, <3>1, <3>4 DEF Weigh, Conclude
    <3> QED
      BY <1>7, <3>5, <3>6, <3>7
  <2>2. worker' \in [Workers -> WorkerStates]
    BY <2>1, BecomeTyped
  <2> QED
    BY <1>7, <2>2 DEF TypeOK, Check, Load, Weigh, row, counters
<1>8. ASSUME NEW w \in Workers, PushAccepted(w) PROVE TypeOK'
  <2>1. PICK d \in worker[w].todo : /\ Show(worker[w].item, d)
                                    /\ Become(w, [worker[w] EXCEPT !.todo = @ \ {d}, !.reached = TRUE])
    BY <1>8 DEF PushAccepted
  <2>2. [worker[w] EXCEPT !.todo = @ \ {d}, !.reached = TRUE] \in WorkerStates
    BY <1>0 DEF WorkerStates
  <2>3. worker' \in [Workers -> WorkerStates]
    BY <2>1, <2>2, BecomeTyped
  <2>4. shown' \in [Items -> [Devices -> Nat]]
    BY <1>0, <2>1, ShowTyped DEF WorkerStates
  <2> QED
    BY <1>8, <2>3, <2>4 DEF TypeOK, PushAccepted, row, counters
<1>9. ASSUME NEW w \in Workers, PushRefused(w) PROVE TypeOK'
  <2>1. PICK d \in worker[w].todo : Become(w, [worker[w] EXCEPT !.todo = @ \ {d}])
    BY <1>9 DEF PushRefused
  <2>2. [worker[w] EXCEPT !.todo = @ \ {d}] \in WorkerStates
    BY <1>0 DEF WorkerStates
  <2>3. worker' \in [Workers -> WorkerStates]
    BY <2>1, <2>2, BecomeTyped
  <2>4. active' \subseteq Devices
    BY <1>9 DEF PushRefused, TypeOK
  <2>5. UNCHANGED <<row, wanted, shown, counters>>
    BY <1>9 DEF PushRefused
  <2> QED
    BY <2>3, <2>4, <2>5 DEF TypeOK, row, counters
<1>10. ASSUME NEW w \in Workers, Mark(w) \/ MarkCaught(w) PROVE TypeOK'
  <2>0. worker[w].batch \in SUBSET Items /\ worker[w].seen \in [Items -> Nat]
        /\ worker[w].outcome \in Status
    BY <1>0 DEF WorkerStates
  <2>1. /\ Doing("next", worker[w].batch, worker[w].seen, 0) \in WorkerStates
        /\ {worker[w].outcome, RetryOrDie(w)} \subseteq Status
    BY <2>0, DoingTyped DEF Steps, RetryOrDie, Status, Final
  <2>2. worker' \in [Workers -> WorkerStates]
    BY <1>10, <2>1, BecomeTyped DEF Mark, MarkCaught
  <2>3. status' \in [Items -> Status] /\ due' \in [Items -> BOOLEAN]
          /\ lock' \in [Items -> {"free", "held", "lapsed"}] /\ attempts' = attempts
    <3>1. PICK outcome \in Status : MarkRow(worker[w].item, outcome)
      BY <1>10, <2>1 DEF Mark, MarkCaught
    <3>2. /\ status \in [Items -> Status] /\ due \in [Items -> BOOLEAN]
          /\ lock \in [Items -> {"free", "held", "lapsed"}]
      BY DEF TypeOK
    <3> QED
      BY <3>1, <3>2 DEF MarkRow
  <2>4. UNCHANGED <<wanted, active, shown, counters>>
    BY <1>10 DEF Mark, MarkCaught
  <2> QED
    BY <2>2, <2>3, <2>4 DEF TypeOK, counters
<1>11. ASSUME NEW w \in Workers, Raise(w) \/ PushBreaks(w) \/ Abandon(w) PROVE TypeOK'
  <2>1. [worker[w] EXCEPT !.pc = "caught"] \in WorkerStates
    BY <1>0 DEF WorkerStates, Steps
  <2>2. worker' \in [Workers -> WorkerStates]
    BY <1>11, <2>1, IdleTyped, BecomeTyped DEF Raise, PushBreaks, Abandon
  <2>3. shown' \in [Items -> [Devices -> Nat]]
    <3>1. shown' = shown \/ \E d \in Devices : Show(worker[w].item, d)
      BY <1>0, <1>11 DEF Raise, PushBreaks, Abandon, WorkerStates
    <3>2. worker[w].item \in Items \union {0}
      BY <1>0 DEF WorkerStates
    <3> QED
      BY <3>1, <3>2, ShowTyped DEF TypeOK
  <2>4. faults' \in 0 .. MaxFaults /\ slow' = slow
    BY <1>11 DEF TypeOK, Raise, PushBreaks, Abandon, Fault
  <2> QED
    BY <1>11, <2>2, <2>3, <2>4 DEF TypeOK, Raise, PushBreaks, Abandon, row
<1>12. CASE UNCHANGED vars
  BY <1>12 DEF TypeOK, vars, row, counters
<1> QED
  BY <1>1, <1>2, <1>3, <1>5, <1>6, <1>7, <1>8, <1>9, <1>10, <1>11, <1>12 DEF Next, Deliver

LEMMA TypeInit == Init => TypeOK
BY BoundsAssumption, IdleTyped DEF Init, TypeOK, Nothing, Status, Wanted
-----------------------------------------------------------------------------
LEMMA EnqueueStep ==
    ASSUME IInv, TypeOK', NEW j \in Items, Enqueue(j)
    PROVE  IInv'
<1>0. /\ Hands /\ Marks /\ Shows /\ TypeOK
      /\ \A v \in Workers : worker[v] \in WorkerStates
  BY DEF IInv, TypeOK
<1> USE <1>0 DEF Hands, Marks, Shows
<1>1. Shape'
  BY DEF Shape, Enqueue, counters
<1>2. Known'
  BY DEF Known, Holds, Untouched, TypeOK, Enqueue, counters
<1>3. Owned'
  BY DEF Owned, Known, Holds, Secure, Untouched, Enqueue, counters
<1>4. Alone'
  BY DEF Alone, Holds, Secure, Enqueue, counters
<1>5. OnePusher'
  BY DEF OnePusher, Pushing, Enqueue, counters
<1>6. Planned'
  BY DEF Planned, Enqueue, counters
<1>7. Reached'
  BY DEF Reached, Enqueue, counters
<1>8. DeliveredWasShown'
  BY DEF DeliveredWasShown, TypeOK, Enqueue, counters
<1>9. AttemptLeft'
  BY MaxAttemptsAssumption DEF AttemptLeft, Known, Holds, Untouched, TypeOK, Enqueue, counters
<1>10. Quiet'
  BY DEF Quiet, Secure, Untouched, Enqueue, counters
<1>11. Fresh'
  BY DEF Fresh, Known, Secure, Untouched, Holds, Enqueue, counters
<1>12. ShownOnce'
  BY DEF ShownOnce, Enqueue, counters
<1>13. NotDeliveredWasNotShown'
  BY DEF NotDeliveredWasNotShown, Untouched, TypeOK, Enqueue, counters
<1> QED
  BY <1>1, <1>2, <1>3, <1>4, <1>5, <1>6, <1>7, <1>8, <1>9, <1>10, <1>11, <1>12, <1>13 DEF IInv

LEMMA SettleStep ==
    ASSUME IInv, TypeOK', NEW j \in Items, Settle(j)
    PROVE  IInv'
<1>0. /\ Hands /\ Marks /\ Shows /\ TypeOK
      /\ \A v \in Workers : worker[v] \in WorkerStates
  BY DEF IInv, TypeOK
<1> USE <1>0 DEF Hands, Marks, Shows
<1>1. Shape'
  BY DEF Shape, Settle, row, counters
<1>2. Known'
  BY DEF Known, Holds, Untouched, Settle, row, counters
<1>3. Owned'
  BY DEF Owned, Holds, Secure, TypeOK, Settle, row, counters
<1>4. Alone'
  BY DEF Alone, Holds, Secure, TypeOK, Settle, row, counters
<1>5. OnePusher'
  BY DEF OnePusher, Pushing, TypeOK, Settle, row, counters
<1>6. Planned'
  BY DEF Planned, Settle, row, counters
<1>7. Reached'
  BY DEF Reached, Settle, row, counters
<1>8. DeliveredWasShown'
  BY DEF DeliveredWasShown, Settle, row, counters
<1>9. AttemptLeft'
  BY DEF AttemptLeft, Settle, row, counters
<1>10. Quiet'
  BY DEF Quiet, Secure, Untouched, TypeOK, Settle, row, counters
<1>11. Fresh'
  BY DEF Fresh, Secure, Untouched, TypeOK, Settle, row, counters
<1>12. ShownOnce'
  BY DEF ShownOnce, TypeOK, Settle, row, counters
<1>13. NotDeliveredWasNotShown'
  BY DEF NotDeliveredWasNotShown, Untouched, Settle, row, counters
<1> QED
  BY <1>1, <1>2, <1>3, <1>4, <1>5, <1>6, <1>7, <1>8, <1>9, <1>10, <1>11, <1>12, <1>13 DEF IInv

LEMMA LapseStep ==
    ASSUME IInv, TypeOK', NEW j \in Items, Lapse(j)
    PROVE  IInv'
<1>0. /\ Hands /\ Marks /\ Shows /\ TypeOK
      /\ \A v \in Workers : worker[v] \in WorkerStates
  BY DEF IInv, TypeOK
<1> USE <1>0 DEF Hands, Marks, Shows
<1>1. Shape'
  BY DEF Shape, TypeOK, Lapse
<1>2. Known'
  BY DEF Known, Holds, Untouched, TypeOK, Lapse
<1>3. Owned'
  BY DEF Owned, Holds, Secure, InHand, TypeOK, Lapse
<1>4. Alone'
  BY DEF Alone, Holds, Secure, InHand, TypeOK, Lapse
<1>5. OnePusher'
  BY DEF OnePusher, Pushing, TypeOK, Lapse
<1>6. Planned'
  BY DEF Planned, TypeOK, Lapse
<1>7. Reached'
  BY DEF Reached, TypeOK, Lapse
<1>8. DeliveredWasShown'
  BY DEF DeliveredWasShown, TypeOK, Lapse
<1>9. AttemptLeft'
  BY DEF AttemptLeft, TypeOK, Lapse
<1>10. Quiet'
  BY DEF Quiet, Secure, Untouched, TypeOK, Lapse
<1>11. Fresh'
  BY DEF Fresh, Secure, Untouched, TypeOK, Lapse
<1>12. ShownOnce'
  BY DEF ShownOnce, TypeOK, Lapse
<1>13. NotDeliveredWasNotShown'
  BY DEF NotDeliveredWasNotShown, Untouched, TypeOK, Lapse
<1> QED
  BY <1>1, <1>2, <1>3, <1>4, <1>5, <1>6, <1>7, <1>8, <1>9, <1>10, <1>11, <1>12, <1>13 DEF IInv

LEMMA OtherStep ==
    ASSUME IInv, TypeOK',
           \/ \E d \in Devices : Subscribe(d) \/ Unsubscribe(d)
           \/ \E i \in Items : BecomeDue(i)
           \/ UNCHANGED <<row, wanted, active, worker, shown, counters>>
    PROVE  IInv'
<1>0. /\ Hands /\ Marks /\ Shows /\ TypeOK
      /\ \A v \in Workers : worker[v] \in WorkerStates
  BY DEF IInv, TypeOK
<1> USE <1>0 DEF Hands, Marks, Shows
<1>1. Shape'
  BY DEF Shape, Subscribe, Unsubscribe, BecomeDue, row, counters, vars
<1>2. Known'
  BY DEF Known, Holds, Untouched, Subscribe, Unsubscribe, BecomeDue, row, counters, vars
<1>3. Owned'
  BY DEF Owned, Holds, Secure, Subscribe, Unsubscribe, BecomeDue, row, counters, vars
<1>4. Alone'
  BY DEF Alone, Holds, Secure, Subscribe, Unsubscribe, BecomeDue, row, counters, vars
<1>5. OnePusher'
  BY DEF OnePusher, Pushing, Subscribe, Unsubscribe, BecomeDue, row, counters, vars
<1>6. Planned'
  BY DEF Planned, Subscribe, Unsubscribe, BecomeDue, row, counters, vars
<1>7. Reached'
  BY DEF Reached, Subscribe, Unsubscribe, BecomeDue, row, counters, vars
<1>8. DeliveredWasShown'
  BY DEF DeliveredWasShown, Subscribe, Unsubscribe, BecomeDue, row, counters, vars
<1>9. AttemptLeft'
  BY DEF AttemptLeft, Subscribe, Unsubscribe, BecomeDue, row, counters, vars
<1>10. Quiet'
  BY DEF Quiet, Secure, Untouched, Subscribe, Unsubscribe, BecomeDue, row, counters, vars
<1>11. Fresh'
  BY DEF Fresh, Secure, Untouched, Subscribe, Unsubscribe, BecomeDue, row, counters, vars
<1>12. ShownOnce'
  BY DEF ShownOnce, Subscribe, Unsubscribe, BecomeDue, row, counters, vars
<1>13. NotDeliveredWasNotShown'
  BY DEF NotDeliveredWasNotShown, Untouched, Subscribe, Unsubscribe, BecomeDue, row, counters, vars
<1> QED
  BY <1>1, <1>2, <1>3, <1>4, <1>5, <1>6, <1>7, <1>8, <1>9, <1>10, <1>11, <1>12, <1>13 DEF IInv

LEMMA TakeStep ==
    ASSUME IInv, TypeOK', NEW w \in Workers, NEW batch \in SUBSET Claimable, Take(w, batch)
    PROVE  IInv'
<1>0. /\ Hands /\ Marks /\ Shows /\ TypeOK
      /\ \A v \in Workers : worker[v] \in WorkerStates
  BY DEF IInv, TypeOK
<1> USE <1>0 DEF Hands, Marks, Shows
<1>w. /\ worker[w].pc = "idle"
      /\ \A v \in Workers \ {w} : worker'[v] = worker[v]
      /\ worker'[w] = Doing("next", batch, [i \in Items |-> IF i \in batch THEN attempts[i] + 1 ELSE 0], 0)
  BY Others DEF Take, At
<1>x. /\ worker'[w].pc = "next"
      /\ worker'[w].batch = batch
      /\ worker'[w].item = 0
      /\ \A i \in batch : worker'[w].seen[i] = attempts[i] + 1
  BY <1>w DEF Doing, Claimable
<1>y. \A v \in Workers, i \in Items : Holds(v, i)' =>
        IF v = w THEN i \in batch ELSE Holds(v, i)
  BY <1>w, <1>x, IdsAssumption DEF Holds
<1>z. \A i \in batch, v \in Workers : Secure(i) => ~Holds(v, i)
  BY DEF Owned, Claimable
<1>u. \A i \in Items : Secure(i)' <=> Secure(i)
  BY DEF Take, Secure, counters
<1> USE <1>w, <1>x, <1>y, <1>z, <1>u
<1>1. Shape'
  BY IdsAssumption DEF Shape, Claimable, Take, counters
<1>2. Known'
  BY IdsAssumption DEF Known, Holds, Untouched, TypeOK, Claimable, Take, counters
<1>3. Owned'
  <2> SUFFICES ASSUME NEW v \in Workers, NEW i \in Items, Secure(i), Holds(v, i)'
               PROVE  (status[i] = "pending" /\ lock[i] = "held" /\ worker[v].seen[i] = attempts[i])'
    BY <1>u DEF Owned
  <2>1. CASE i \in batch
    BY <2>1, <1>z, <1>y DEF TypeOK, Claimable, Take
  <2>2. CASE i \notin batch
    BY <2>2, <1>y DEF Owned, TypeOK, Take
  <2> QED
    BY <2>1, <2>2
<1>4. Alone'
  BY DEF Alone
<1>5. OnePusher'
  BY IdsAssumption DEF OnePusher, Pushing, Take, counters
<1>6. Planned'
  BY DEF Planned, Take, counters
<1>7. Reached'
  BY DEF Reached, Take, counters
<1>8. DeliveredWasShown'
  BY DEF DeliveredWasShown, Take, counters
<1>9. AttemptLeft'
  BY DEF AttemptLeft, TypeOK, Take, counters
<1>10. Quiet'
  BY IdsAssumption DEF Quiet, Secure, Untouched, Take, counters
<1>11. Fresh'
  BY IdsAssumption DEF Fresh, Owned, Shape, Secure, Untouched, Holds, TypeOK, Take, counters
<1>12. ShownOnce'
  BY DEF ShownOnce, Take, counters
<1>13. NotDeliveredWasNotShown'
  BY DEF NotDeliveredWasNotShown, Untouched, Take, counters
<1> QED
  BY <1>1, <1>2, <1>3, <1>4, <1>5, <1>6, <1>7, <1>8, <1>9, <1>10, <1>11, <1>12, <1>13 DEF IInv

LEMMA PickStep ==
    ASSUME IInv, TypeOK', NEW w \in Workers, Pick(w)
    PROVE  IInv'
<1>0. /\ Hands /\ Marks /\ Shows /\ TypeOK
      /\ \A v \in Workers : worker[v] \in WorkerStates
  BY DEF IInv, TypeOK
<1> USE <1>0 DEF Hands, Marks, Shows
<1>w. \A v \in Workers \ {w} : worker'[v] = worker[v]
  BY Others DEF Pick
<1>x. /\ worker[w].pc = "next"
      /\ \/ worker'[w].pc = "idle" /\ worker'[w].item = 0 /\ worker'[w].batch = {}
         \/ \E i \in worker[w].batch : /\ worker'[w].pc = "check"
                                       /\ worker'[w].item = i
                                       /\ worker'[w].batch = worker[w].batch \ {i}
                                       /\ worker'[w].seen = worker[w].seen
                                       /\ ~worker'[w].reached
  <2>1. CASE Become(w, Idle)
    BY <2>1, Others DEF Pick, At, Doing, Idle
  <2>2. ASSUME NEW i \in worker[w].batch,
               Become(w, Doing("check", worker[w].batch \ {i}, worker[w].seen, i))
        PROVE  /\ worker'[w].pc = "check"
               /\ worker'[w].item = i
               /\ worker'[w].batch = worker[w].batch \ {i}
               /\ worker'[w].seen = worker[w].seen
               /\ ~worker'[w].reached
    BY <2>2, Others DEF Doing
  <2> QED
    BY <2>1, <2>2 DEF Pick, At
<1>y. \A v \in Workers, i \in Items : Holds(v, i)' => Holds(v, i) /\ worker'[v].seen = worker[v].seen
  BY <1>w, <1>x, IdsAssumption DEF Holds
<1> USE <1>w, <1>x, <1>y
<1>1. Shape'
  BY IdsAssumption DEF Shape, Pick, row, counters
<1>2. Known'
  BY DEF Known, Untouched, Pick, row
<1>3. Owned'
  BY DEF Owned, Secure, Pick, row, counters
<1>4. Alone'
  BY DEF Alone, Secure, Pick, row, counters
<1>5. OnePusher'
  BY DEF OnePusher, Pushing, Pick, row, counters
<1>6. Planned'
  BY DEF Planned, Pick, row, counters
<1>7. Reached'
  BY DEF Reached, Pick, row, counters
<1>8. DeliveredWasShown'
  BY DEF DeliveredWasShown, Pick, row, counters
<1>9. AttemptLeft'
  BY DEF AttemptLeft, Pick, row, counters
<1>10. Quiet'
  BY DEF Quiet, Secure, Untouched, Pick, row, counters
<1>11. Fresh'
  BY IdsAssumption DEF Fresh, Shape, Secure, Untouched, Pick, row, counters
<1>12. ShownOnce'
  BY DEF ShownOnce, Pick, row, counters
<1>13. NotDeliveredWasNotShown'
  BY DEF NotDeliveredWasNotShown, Untouched, Pick, row, counters
<1> QED
  BY <1>1, <1>2, <1>3, <1>4, <1>5, <1>6, <1>7, <1>8, <1>9, <1>10, <1>11, <1>12, <1>13 DEF IInv

LEMMA CheckStep ==
    ASSUME IInv, TypeOK', NEW w \in Workers, Check(w)
    PROVE  IInv'
<1>0. /\ Hands /\ Marks /\ Shows /\ TypeOK
      /\ \A v \in Workers : worker[v] \in WorkerStates
  BY DEF IInv, TypeOK
<1> USE <1>0 DEF Hands, Marks, Shows
<1>w. /\ worker[w].pc = "check"
      /\ \A v \in Workers \ {w} : worker'[v] = worker[v]
      /\ \/ worker'[w] = [worker[w] EXCEPT !.pc = "mark", !.outcome = "suppressed"]
         \/ /\ worker'[w] = [worker[w] EXCEPT !.pc = "load"]
            /\ wanted[worker[w].item] # "no"
  BY Others DEF Check, At, Conclude, Obsolete
<1>x. /\ worker'[w].item = worker[w].item
      /\ worker'[w].batch = worker[w].batch
      /\ worker'[w].seen = worker[w].seen
      /\ ~worker'[w].reached
      /\ \/ worker'[w].pc = "mark" /\ worker'[w].outcome = "suppressed"
         \/ worker'[w].pc = "load" /\ wanted[worker[w].item] # "no"
  BY <1>w DEF WorkerStates, Shape
<1>u. UNCHANGED <<row, wanted, active, shown, counters>>
  BY DEF Check
<1> USE <1>w, <1>x, <1>u
<1>1. Shape'
  BY DEF Shape, row, counters
<1>2. Known'
  BY DEF Known, Holds, Untouched, Check, row, counters
<1>3. Owned'
  BY DEF Owned, Holds, Secure, row, counters
<1>4. Alone'
  BY DEF Alone, Holds, Secure, row, counters
<1>5. OnePusher'
  BY DEF OnePusher, Alone, Pushing, Holds, Secure, Secure, Holds, row, counters
<1>6. Planned'
  BY DEF Planned, row, counters
<1>7. Reached'
  BY DEF Reached, row, counters
<1>8. DeliveredWasShown'
  BY DEF DeliveredWasShown, row, counters
<1>9. AttemptLeft'
  BY DEF AttemptLeft, row, counters
<1>10. Quiet'
  BY DEF Quiet, Fresh, Alone, Owned, Secure, Untouched, Holds, row, counters
<1>11. Fresh'
  BY DEF Fresh, Alone, Secure, Untouched, Holds, row, counters
<1>12. ShownOnce'
  BY DEF ShownOnce, row, counters
<1>13. NotDeliveredWasNotShown'
  BY DEF NotDeliveredWasNotShown, Untouched, row, counters
<1> QED
  BY <1>1, <1>2, <1>3, <1>4, <1>5, <1>6, <1>7, <1>8, <1>9, <1>10, <1>11, <1>12, <1>13 DEF IInv

LEMMA LoadStep ==
    ASSUME IInv, TypeOK', NEW w \in Workers, Load(w)
    PROVE  IInv'
<1>0. /\ Hands /\ Marks /\ Shows /\ TypeOK
      /\ \A v \in Workers : worker[v] \in WorkerStates
  BY DEF IInv, TypeOK
<1> USE <1>0 DEF Hands, Marks, Shows
<1>w. /\ worker[w].pc = "load"
      /\ \A v \in Workers \ {w} : worker'[v] = worker[v]
      /\ \/ worker'[w] = [worker[w] EXCEPT !.pc = "mark", !.outcome = "dead"]
         \/ worker'[w] = [worker[w] EXCEPT !.pc = "push", !.todo = active]
  BY Others DEF Load, At, Conclude
<1>x. /\ worker'[w].item = worker[w].item
      /\ worker'[w].batch = worker[w].batch
      /\ worker'[w].seen = worker[w].seen
      /\ \/ worker'[w].pc = "mark" /\ worker'[w].outcome = "dead"
         \/ /\ worker'[w].pc = "push"
            /\ ~worker'[w].reached
            /\ worker'[w].todo \subseteq Devices
  <2>1. worker[w] \in WorkerStates /\ ~worker[w].reached /\ active \subseteq Devices
    BY <1>w DEF Shape, TypeOK
  <2> QED
    BY <1>w, <2>1 DEF WorkerStates
<1>u. UNCHANGED <<row, wanted, active, shown, counters>>
  BY DEF Load
<1> USE <1>w, <1>x, <1>u
<1>1. Shape'
  BY DEF Shape, row, counters
<1>2. Known'
  BY DEF Known, Holds, Untouched, row, counters
<1>3. Owned'
  BY DEF Owned, Holds, Secure, row, counters
<1>4. Alone'
  BY DEF Alone, Holds, Secure, row, counters
<1>5. OnePusher'
  BY DEF OnePusher, Pushing, row, counters
<1>6. Planned'
  BY DEF Planned, row, counters
<1>7. Reached'
  BY DEF Reached, row, counters
<1>8. DeliveredWasShown'
  BY DEF DeliveredWasShown, row, counters
<1>9. AttemptLeft'
  BY DEF AttemptLeft, row, counters
<1>10. Quiet'
  BY DEF Quiet, Secure, Untouched, row, counters
<1>11. Fresh'
  BY IdsAssumption DEF Fresh, Shape, Secure, Untouched, row, counters
<1>12. ShownOnce'
  BY DEF ShownOnce, row, counters
<1>13. NotDeliveredWasNotShown'
  BY DEF NotDeliveredWasNotShown, Untouched, row, counters
<1> QED
  BY <1>1, <1>2, <1>3, <1>4, <1>5, <1>6, <1>7, <1>8, <1>9, <1>10, <1>11, <1>12, <1>13 DEF IInv

LEMMA WeighStep ==
    ASSUME IInv, TypeOK', NEW w \in Workers, Weigh(w)
    PROVE  IInv'
<1>0. /\ Hands /\ Marks /\ Shows /\ TypeOK
      /\ \A v \in Workers : worker[v] \in WorkerStates
  BY DEF IInv, TypeOK
<1> USE <1>0 DEF Hands, Marks, Shows
<1> DEFINE outcome == IF worker[w].reached THEN "delivered" ELSE RetryOrDie(w)
<1>p. /\ worker[w].pc = "push"
      /\ \A v \in Workers \ {w} : worker'[v] = worker[v]
      /\ worker'[w] = [worker[w] EXCEPT !.pc = "mark", !.outcome = outcome]
  BY Others DEF Weigh, At, Conclude
<1>w. worker[w].pc = "push" /\ \A v \in Workers \ {w} : worker'[v] = worker[v]
  BY <1>p
<1>o. /\ worker[w].reached => outcome = "delivered"
      /\ ~worker[w].reached => outcome \in {"dead", "pending"}
      /\ outcome = "pending" => worker[w].seen[worker[w].item] < MaxAttempts
  <2>1. worker[w].seen[worker[w].item] \in Nat
    BY <1>w DEF WorkerStates, Shape
  <2> QED
    BY <2>1, <1>w, MaxAttemptsAssumption DEF RetryOrDie
<1> HIDE DEF outcome
<1>x. /\ worker'[w].item = worker[w].item
      /\ worker'[w].batch = worker[w].batch
      /\ worker'[w].seen = worker[w].seen
      /\ worker'[w].pc = "mark"
      /\ worker'[w].outcome = outcome
  BY <1>p DEF WorkerStates
<1>u. UNCHANGED <<row, wanted, active, shown, counters>>
  BY DEF Weigh
<1> USE <1>w, <1>o, <1>x, <1>u
<1>1. Shape'
  BY DEF Shape, row, counters
<1>2. Known'
  BY DEF Known, Holds, Untouched, row, counters
<1>3. Owned'
  BY DEF Owned, Holds, Secure, row, counters
<1>4. Alone'
  BY DEF Alone, Holds, Secure, row, counters
<1>5. OnePusher'
  BY DEF OnePusher, Pushing, row, counters
<1>6. Planned'
  BY DEF Planned, row, counters
<1>7. Reached'
  BY DEF Reached, row, counters
<1>8. DeliveredWasShown'
  BY DEF DeliveredWasShown, row, counters
<1>9. AttemptLeft'
  BY DEF AttemptLeft, row, counters
<1>10. Quiet'
  BY DEF Quiet, Secure, Untouched, row, counters
<1>11. Fresh'
  BY IdsAssumption DEF Fresh, Shape, Secure, Untouched, row, counters
<1>12. ShownOnce'
  BY DEF ShownOnce, row, counters
<1>13. NotDeliveredWasNotShown'
  BY DEF NotDeliveredWasNotShown, Untouched, row, counters
<1> QED
  BY <1>1, <1>2, <1>3, <1>4, <1>5, <1>6, <1>7, <1>8, <1>9, <1>10, <1>11, <1>12, <1>13 DEF IInv

LEMMA RefusedStep ==
    ASSUME IInv, TypeOK', NEW w \in Workers, PushRefused(w)
    PROVE  IInv'
<1>0. /\ Hands /\ Marks /\ Shows /\ TypeOK
      /\ \A v \in Workers : worker[v] \in WorkerStates
  BY DEF IInv, TypeOK
<1> USE <1>0 DEF Hands, Marks, Shows
<1>p. PICK d \in worker[w].todo :
         /\ worker[w].pc = "push"
         /\ \A v \in Workers \ {w} : worker'[v] = worker[v]
         /\ worker'[w] = [worker[w] EXCEPT !.todo = @ \ {d}]
  BY Others DEF PushRefused, At
<1>w. worker[w].pc = "push" /\ \A v \in Workers \ {w} : worker'[v] = worker[v]
  BY <1>p
<1>x. /\ worker'[w].item = worker[w].item
      /\ worker'[w].batch = worker[w].batch
      /\ worker'[w].seen = worker[w].seen
      /\ worker'[w].pc = "push"
      /\ worker'[w].todo \subseteq worker[w].todo
      /\ worker'[w].reached = worker[w].reached
  BY <1>p DEF WorkerStates
<1>u. UNCHANGED <<row, wanted, shown, counters>>
  BY DEF PushRefused
<1> USE <1>w, <1>x, <1>u
<1>1. Shape'
  BY DEF Shape, row, counters
<1>2. Known'
  BY DEF Known, Holds, Untouched, row, counters
<1>3. Owned'
  BY DEF Owned, Holds, Secure, row, counters
<1>4. Alone'
  BY DEF Alone, Holds, Secure, row, counters
<1>5. OnePusher'
  BY DEF OnePusher, Pushing, row, counters
<1>6. Planned'
  BY DEF Planned, row, counters
<1>7. Reached'
  BY DEF Reached, row, counters
<1>8. DeliveredWasShown'
  BY DEF DeliveredWasShown, row, counters
<1>9. AttemptLeft'
  BY DEF AttemptLeft, row, counters
<1>10. Quiet'
  BY DEF Quiet, Secure, Untouched, row, counters
<1>11. Fresh'
  BY IdsAssumption DEF Fresh, Shape, Secure, Untouched, row, counters
<1>12. ShownOnce'
  BY DEF ShownOnce, row, counters
<1>13. NotDeliveredWasNotShown'
  BY DEF NotDeliveredWasNotShown, Untouched, row, counters
<1> QED
  BY <1>1, <1>2, <1>3, <1>4, <1>5, <1>6, <1>7, <1>8, <1>9, <1>10, <1>11, <1>12, <1>13 DEF IInv

LEMMA AcceptedStep ==
    ASSUME IInv, TypeOK', NEW w \in Workers, PushAccepted(w)
    PROVE  IInv'
<1>0. /\ Hands /\ Marks /\ Shows /\ TypeOK
      /\ \A v \in Workers : worker[v] \in WorkerStates
  BY DEF IInv, TypeOK
<1> USE <1>0 DEF Hands, Marks, Shows
<1>p. PICK d \in worker[w].todo :
         /\ worker[w].pc = "push"
         /\ \A v \in Workers \ {w} : worker'[v] = worker[v]
         /\ worker'[w] = [worker[w] EXCEPT !.todo = @ \ {d}, !.reached = TRUE]
         /\ Show(worker[w].item, d)
  BY Others DEF PushAccepted, At
<1>w. worker[w].pc = "push" /\ \A v \in Workers \ {w} : worker'[v] = worker[v]
  BY <1>p
<1>x. /\ worker'[w].item = worker[w].item
      /\ worker'[w].batch = worker[w].batch
      /\ worker'[w].seen = worker[w].seen
      /\ worker'[w].pc = "push"
      /\ worker'[w].todo = worker[w].todo \ {d}
      /\ worker'[w].reached
      /\ worker[w].item \in Items
      /\ d \in Devices
  BY <1>p DEF WorkerStates, Shape
<1>u. UNCHANGED <<row, wanted, active, counters>>
  BY DEF PushAccepted
<1>s. \A i \in Items, e \in Devices :
         /\ shown[i][e] \in Nat
         /\ shown'[i][e] = IF i = worker[w].item /\ e = d THEN shown[i][e] + 1 ELSE shown[i][e]
  BY <1>p, <1>x DEF Show, TypeOK
<1>i. \A v \in Workers : worker[v].pc \in {"push", "mark"} => worker[v].item \in Items
  BY DEF WorkerStates, Shape
<1> USE <1>w, <1>x, <1>u, <1>s, <1>i
<1>1. Shape'
  BY DEF Shape, row, counters
<1>2. Known'
  BY DEF Known, Holds, Untouched, Holds, row, counters
<1>3. Owned'
  BY DEF Owned, Holds, Secure, row, counters
<1>4. Alone'
  BY DEF Alone, Holds, Secure, row, counters
<1>5. OnePusher'
  BY DEF OnePusher, Pushing, row, counters
<1>6. Planned'
  BY DEF Planned, row, counters
<1>7. Reached'
  <2> SUFFICES ASSUME NEW v \in Workers,
                      \/ worker'[v].pc = "push" /\ worker'[v].reached
                      \/ worker'[v].pc = "mark" /\ worker'[v].outcome = "delivered"
               PROVE  \E e \in Devices : shown'[worker'[v].item][e] > 0
    BY DEF Reached
  <2>1. CASE v = w
    BY <2>1
  <2>2. CASE v # w
    <3>1. PICK e \in Devices : shown[worker[v].item][e] > 0
      BY <2>2 DEF Reached
    <3> QED
      BY <2>2, <3>1
  <2> QED
    BY <2>1, <2>2
<1>8. DeliveredWasShown'
  BY DEF DeliveredWasShown, row, counters
<1>9. AttemptLeft'
  BY DEF AttemptLeft, row, counters
<1>10. Quiet'
  <2> SUFFICES ASSUME faults = 0, NEW v \in Workers, NEW i \in Items, worker'[v].item = i
               PROVE  /\ (slow = 0 \/ i \in Calls) /\ worker'[v].pc = "load" => Untouched(i)'
                      /\ (slow = 0 \/ i \in Calls) /\ worker'[v].pc = "push" =>
                            /\ \A e \in worker'[v].todo : shown'[i][e] = 0
                            /\ ~worker'[v].reached => Untouched(i)'
                      /\ Secure(i) /\ worker'[v].pc = "mark" /\ worker'[v].outcome # "delivered"
                            => Untouched(i)'
    BY DEF Quiet, Secure, counters
  <2>1. CASE v = w
    BY <2>1 DEF Quiet, WorkerStates
  <2>2. CASE v # w /\ i = worker[w].item
    BY <2>2 DEF OnePusher, Alone, Pushing, Holds
  <2>3. CASE v # w /\ i # worker[w].item
    BY <2>3 DEF Quiet, Untouched, WorkerStates
  <2> QED
    BY <2>1, <2>2, <2>3
<1>11. Fresh'
  BY IdsAssumption DEF Fresh, Shape, Secure, Untouched, row, counters
<1>12. ShownOnce'
  BY DEF ShownOnce, Quiet, Secure, Untouched, row, counters
<1>13. NotDeliveredWasNotShown'
  BY DEF NotDeliveredWasNotShown, Owned, Untouched, Holds, Secure, Holds, Secure, row, counters
<1> QED
  BY <1>1, <1>2, <1>3, <1>4, <1>5, <1>6, <1>7, <1>8, <1>9, <1>10, <1>11, <1>12, <1>13 DEF IInv

LEMMA MarkStep ==
    ASSUME IInv, TypeOK', NEW w \in Workers, NEW outcome \in Status \ {"none"},
           worker[w].pc \in {"mark", "caught"},
           MarkRow(worker[w].item, outcome),
           Become(w, Doing("next", worker[w].batch, worker[w].seen, 0)),
           UNCHANGED <<wanted, active, shown, counters>>,
           outcome = "pending" => worker[w].seen[worker[w].item] < MaxAttempts,
           outcome = "delivered" => \E d \in Devices : shown[worker[w].item][d] > 0,
           faults = 0 /\ Secure(worker[w].item) /\ outcome # "delivered" => Untouched(worker[w].item)
    PROVE  IInv'
<1>0. /\ Hands /\ Marks /\ Shows /\ TypeOK
      /\ \A v \in Workers : worker[v] \in WorkerStates
  BY DEF IInv, TypeOK
<1> USE <1>0 DEF Hands, Marks, Shows
<1>w. \A v \in Workers \ {w} : worker'[v] = worker[v]
  BY Others
<1>x. /\ worker'[w].pc = "next"
      /\ worker'[w].item = 0
      /\ worker'[w].batch = worker[w].batch
      /\ worker'[w].seen = worker[w].seen
  BY Others DEF Doing
<1>i. worker[w].item \in Items /\ worker[w].item \notin worker[w].batch
  BY DEF WorkerStates, Shape
<1>r. /\ attempts' = attempts
      /\ \A i \in Items :
            IF i = worker[w].item THEN status'[i] = outcome /\ lock'[i] = "free"
                                  ELSE status'[i] = status[i] /\ lock'[i] = lock[i]
  BY <1>i DEF MarkRow, TypeOK
<1>y. \A v \in Workers, i \in Items : Holds(v, i)' =>
         /\ Holds(v, i)
         /\ v = w => i # worker[w].item
         /\ worker'[v].seen = worker[v].seen
  BY <1>w, <1>x, <1>i, IdsAssumption DEF Holds
<1>h. Holds(w, worker[w].item)
  BY DEF Holds
<1> USE <1>w, <1>x, <1>i, <1>r, <1>y, <1>h
<1>1. Shape'
  BY IdsAssumption DEF Shape, WorkerStates, counters
<1>2. Known'
  BY DEF Known, Untouched, counters
<1>3. Owned'
  BY DEF Owned, Alone, Secure, counters
<1>4. Alone'
  BY DEF Alone, Secure, counters
<1>5. OnePusher'
  BY IdsAssumption DEF OnePusher, Pushing, counters
<1>6. Planned'
  BY DEF Planned, counters
<1>7. Reached'
  BY DEF Reached, counters
<1>8. DeliveredWasShown'
  BY DEF DeliveredWasShown, counters
<1>9. AttemptLeft'
  BY DEF AttemptLeft, Owned, Secure, counters
<1>10. Quiet'
  BY IdsAssumption DEF Quiet, Secure, Untouched, counters
<1>11. Fresh'
  BY DEF Fresh, Alone, Secure, Untouched, Holds, counters
<1>12. ShownOnce'
  BY DEF ShownOnce, counters
<1>13. NotDeliveredWasNotShown'
  BY DEF NotDeliveredWasNotShown, Untouched, Secure, counters
<1> QED
  BY <1>1, <1>2, <1>3, <1>4, <1>5, <1>6, <1>7, <1>8, <1>9, <1>10, <1>11, <1>12, <1>13 DEF IInv

LEMMA MarksStep ==
    ASSUME IInv, TypeOK', NEW w \in Workers, Mark(w) \/ MarkCaught(w)
    PROVE  IInv'
<1>0. /\ Hands /\ Marks /\ Shows /\ TypeOK
      /\ \A v \in Workers : worker[v] \in WorkerStates
  BY DEF IInv, TypeOK
<1>1. CASE Mark(w)
  <2>1. worker[w].pc = "mark" /\ worker[w].outcome \in Status \ {"none"}
    BY <1>0, <1>1 DEF Hands, Shape, Mark, At, WorkerStates
  <2>2. worker[w].outcome = "pending" => worker[w].seen[worker[w].item] < MaxAttempts
    BY <1>0, <2>1 DEF Marks, Planned
  <2>3. worker[w].outcome = "delivered" => \E d \in Devices : shown[worker[w].item][d] > 0
    BY <1>0, <2>1 DEF Marks, Reached
  <2>4. worker[w].item \in Items
    BY <1>0, <2>1 DEF Hands, Shape, WorkerStates
  <2>5. faults = 0 /\ Secure(worker[w].item) /\ worker[w].outcome # "delivered"
            => Untouched(worker[w].item)
    BY <1>0, <2>1, <2>4 DEF Shows, Quiet
  <2> QED
    BY <1>1, <2>1, <2>2, <2>3, <2>5, MarkStep DEF Mark
<1>2. CASE MarkCaught(w)
  <2>1. worker[w].pc = "caught" /\ faults > 0
    BY <1>0, <1>2 DEF Hands, Shape, MarkCaught, At
  <2>2. worker[w].seen[worker[w].item] \in Nat
    BY <1>0, <2>1 DEF Hands, Shape, WorkerStates
  <2>3. /\ RetryOrDie(w) \in {"dead", "pending"}
        /\ RetryOrDie(w) = "pending" => worker[w].seen[worker[w].item] < MaxAttempts
    BY <2>2, MaxAttemptsAssumption DEF RetryOrDie
  <2> QED
    BY <1>2, <2>1, <2>3, MarkStep DEF MarkCaught, Status, Final
<1> QED
  BY <1>1, <1>2

LEMMA FaultStep ==
    ASSUME IInv, TypeOK', NEW w \in Workers, Raise(w) \/ PushBreaks(w) \/ Abandon(w)
    PROVE  IInv'
<1>0. /\ Hands /\ Marks /\ Shows /\ TypeOK
      /\ \A v \in Workers : worker[v] \in WorkerStates
  BY DEF IInv, TypeOK
<1> USE <1>0 DEF Hands, Marks, Shows
<1>w. \A v \in Workers \ {w} : worker'[v] = worker[v]
  BY Others DEF Raise, PushBreaks, Abandon
<1>p. \/ worker'[w] = [worker[w] EXCEPT !.pc = "caught"] /\ worker[w].pc \in {"check", "load", "mark", "push"}
      \/ worker'[w] = Idle
  BY Others DEF Raise, PushBreaks, Abandon, At
<1>x. \/ /\ worker'[w].pc = "caught"
         /\ worker'[w].item = worker[w].item
         /\ worker'[w].batch = worker[w].batch
         /\ worker'[w].seen = worker[w].seen
         /\ worker[w].pc \in {"check", "load", "mark", "push"}
      \/ /\ worker'[w].pc = "idle"
         /\ worker'[w].item = 0
         /\ worker'[w].batch = {}
  BY <1>p DEF WorkerStates, Idle, Doing
<1>f. /\ faults' > 0
      /\ UNCHANGED <<row, wanted, active, slow>>
  BY DEF Raise, PushBreaks, Abandon, Fault, TypeOK
<1>q. \/ shown' = shown
      \/ /\ worker[w].pc = "push" /\ worker[w].item \in Items
         /\ \E d \in Devices : Show(worker[w].item, d)
  BY DEF Raise, PushBreaks, Abandon, WorkerStates, Shape, At
<1>s. \A i \in Items, d \in Devices : shown[i][d] > 0 => shown'[i][d] > 0
  <2>1. CASE shown' = shown
    BY <2>1 DEF TypeOK
  <2>2. ASSUME worker[w].item \in Items, NEW d \in Devices, Show(worker[w].item, d)
        PROVE  \A i \in Items, e \in Devices : shown[i][e] > 0 => shown'[i][e] > 0
    BY <2>2 DEF Show, TypeOK
  <2> QED
    BY <1>q, <2>1, <2>2
<1>t. \A i \in Items : shown'[i] # shown[i] => worker[w].item = i /\ worker[w].pc = "push"
  BY <1>q DEF Show, TypeOK
<1>y. \A v \in Workers, i \in Items : Holds(v, i)' => Holds(v, i) /\ worker'[v].seen = worker[v].seen
  BY <1>w, <1>x, IdsAssumption DEF Holds
<1>h. Holds(w, worker[w].item)
  BY DEF Holds
<1>i. \A v \in Workers : worker[v].pc \in {"push", "mark"} => worker[v].item \in Items
  BY DEF WorkerStates, Shape
<1> USE <1>w, <1>x, <1>f, <1>s, <1>t, <1>i, <1>y, <1>h
<1>1. Shape'
  BY IdsAssumption DEF Shape, TypeOK, row
<1>2. Known'
  BY DEF Known, Untouched, row, TypeOK
<1>3. Owned'
  BY DEF Owned, Secure, row
<1>4. Alone'
  BY DEF Alone, Secure, row
<1>5. OnePusher'
  BY IdsAssumption DEF OnePusher, Pushing, row
<1>6. Planned'
  BY DEF Planned, row
<1>7. Reached'
  <2> SUFFICES ASSUME NEW v \in Workers,
                      \/ worker'[v].pc = "push" /\ worker'[v].reached
                      \/ worker'[v].pc = "mark" /\ worker'[v].outcome = "delivered"
               PROVE  \E d \in Devices : shown'[worker'[v].item][d] > 0
    BY DEF Reached
  <2>1. v # w
    OBVIOUS
  <2>2. PICK d \in Devices : shown[worker[v].item][d] > 0
    BY <2>1 DEF Reached
  <2> QED
    BY <2>1, <2>2
<1>8. DeliveredWasShown'
  <2> SUFFICES ASSUME NEW i \in Items, status'[i] = "delivered"
               PROVE  \E d \in Devices : shown'[i][d] > 0
    BY DEF DeliveredWasShown
  <2>1. PICK d \in Devices : shown[i][d] > 0
    BY DEF DeliveredWasShown, row
  <2> QED
    BY <2>1
<1>9. AttemptLeft'
  BY DEF AttemptLeft, row
<1>10. Quiet'
  BY DEF Quiet, Secure, Untouched, row
<1>11. Fresh'
  BY DEF Fresh, Secure, Untouched, row
<1>12. ShownOnce'
  BY DEF ShownOnce, row
<1>13. NotDeliveredWasNotShown'
  BY DEF NotDeliveredWasNotShown, Untouched, row
<1> QED
  BY <1>1, <1>2, <1>3, <1>4, <1>5, <1>6, <1>7, <1>8, <1>9, <1>10, <1>11, <1>12, <1>13 DEF IInv

LEMMA Initial == Init => IInv
<1> SUFFICES ASSUME Init PROVE IInv
  OBVIOUS
<1>1. TypeOK
  BY TypeInit
<1>2. \A w \in Workers : worker[w].pc = "idle" /\ worker[w].batch = {} /\ worker[w].item = 0
  BY DEF Init, Idle, Doing
<1>3. \A w \in Workers, i \in Items : ~Holds(w, i)
  BY <1>2, IdsAssumption DEF Holds
<1>4. Hands
  BY <1>2, <1>3, IdsAssumption
     DEF Hands, Shape, Known, Owned, Alone, OnePusher, Pushing, Untouched, Init, Nothing
<1>5. Marks
  BY <1>2 DEF Marks, Planned, Reached, DeliveredWasShown, AttemptLeft, Init
<1>6. Shows
  BY <1>2, IdsAssumption
     DEF Shows, Quiet, Fresh, ShownOnce, NotDeliveredWasNotShown, Untouched, Init
<1> QED
  BY <1>1, <1>4, <1>5, <1>6 DEF IInv

LEMMA Inductive == IInv /\ [Next]_vars => IInv'
<1> SUFFICES ASSUME IInv, [Next]_vars PROVE IInv'
  OBVIOUS
<1>1. TypeOK'
  BY TypeStep DEF IInv
<1>2. ASSUME NEW i \in Items, Enqueue(i) \/ Settle(i) \/ BecomeDue(i) \/ Lapse(i) PROVE IInv'
  BY <1>1, <1>2, EnqueueStep, SettleStep, OtherStep, LapseStep
<1>3. CASE \E d \in Devices : Subscribe(d) \/ Unsubscribe(d)
  BY <1>1, <1>3, OtherStep
<1>4. ASSUME NEW w \in Workers, ClaimDue(w) \/ ClaimCall(w) PROVE IInv'
  <2>1. PICK batch \in SUBSET Claimable : Take(w, batch)
    BY <1>4 DEF ClaimDue, ClaimCall
  <2> QED
    BY <1>1, <2>1, TakeStep
<1>5. ASSUME NEW w \in Workers, Deliver(w) PROVE IInv'
  BY <1>1, <1>5, PickStep, CheckStep, LoadStep, AcceptedStep, RefusedStep, WeighStep, MarksStep
     DEF Deliver
<1>6. ASSUME NEW w \in Workers, Raise(w) \/ PushBreaks(w) \/ Abandon(w) PROVE IInv'
  BY <1>1, <1>6, FaultStep
<1>7. CASE UNCHANGED vars
  <2>1. UNCHANGED <<row, wanted, active, worker, shown, counters>>
    BY <1>7 DEF vars
  <2> QED
    BY <1>1, <2>1, OtherStep
<1> QED
  BY <1>2, <1>3, <1>4, <1>5, <1>6, <1>7 DEF Next

LEMMA Invariance == Spec => []IInv
BY Initial, Inductive, PTL DEF Spec
-----------------------------------------------------------------------------
\* Rows, workers and devices keep their types (team_notification_outbox and the
\* local variables of _deliver_claimed).
THEOREM PushTypeCorrectness == Spec => []TypeOK
BY Invariance, PTL DEF IInv

\* While no worker is slower than its lock, the scheduled job and the
\* announcement of a call never work on one item (_claim, _claim_event_keys).
THEOREM WorkersAreApart == Spec => []OneWorker
<1>1. IInv => OneWorker
  BY DEF IInv, Hands, Alone, Holds, Secure, OneWorker, TypeOK, WorkerStates
<1> QED
  BY <1>1, Invariance, PTL

\* While nothing fails, no device shows a notification twice, and a call not
\* even when a worker is slower than its lock.
THEOREM NoDeviceShowsTwice == Spec => []ShownOnce
BY Invariance, PTL DEF IInv, Shows

\* The outbox tells the truth: delivered rows were shown, and suppressed and dead
\* ones were not while nothing failed and nobody was slow (_mark).
THEOREM RowsTellTheTruth == Spec => []OutboxIsTrue
<1>1. IInv => OutboxIsTrue
  BY DEF IInv, Marks, Shows, OutboxIsTrue
<1> QED
  BY <1>1, Invariance, PTL

\* A pending row that nobody claimed has an attempt left, while nobody is slow.
THEOREM PendingHasAttempt == Spec => []AttemptLeft
BY Invariance, PTL DEF IInv, Marks

\* While no worker is slower than its lock, what is delivered, suppressed or dead
\* stays so, although _mark writes whatever the row says.
THEOREM FinalIsKept == Spec => FinalStays
<1>1. IInv /\ [Next]_vars =>
        [\A i \in Items : slow = 0 /\ status[i] \in Final => status'[i] = status[i]]_vars
  <2> SUFFICES ASSUME IInv, Next, NEW i \in Items, slow = 0, status[i] \in Final
               PROVE  status'[i] = status[i]
    OBVIOUS
  <2>1. /\ TypeOK /\ Owned
        /\ \A w \in Workers : ~Holds(w, i)
    BY DEF IInv, Hands, Owned, Secure, Final
  <2>2. ASSUME NEW j \in Items, Enqueue(j) \/ Settle(j) \/ BecomeDue(j) \/ Lapse(j)
        PROVE  status'[i] = status[i]
    BY <2>1, <2>2 DEF Enqueue, Settle, BecomeDue, Lapse, row, TypeOK, Final
  <2>3. CASE \E d \in Devices : Subscribe(d) \/ Unsubscribe(d)
    BY <2>3 DEF Subscribe, Unsubscribe, row
  <2>4. ASSUME NEW w \in Workers, ClaimDue(w) \/ ClaimCall(w) PROVE status'[i] = status[i]
    BY <2>4 DEF ClaimDue, ClaimCall, Take
  <2>5. ASSUME NEW w \in Workers, Deliver(w) PROVE status'[i] = status[i]
    <3>1. worker[w].item # i
      BY <2>1 DEF Holds
    <3>2. CASE Mark(w) \/ MarkCaught(w)
      BY <2>1, <3>1, <3>2 DEF Mark, MarkCaught, MarkRow, TypeOK
    <3> QED
      BY <2>5, <3>2 DEF Deliver, Pick, Check, Load, PushAccepted, PushRefused, Weigh, row
  <2>6. ASSUME NEW w \in Workers, Raise(w) \/ PushBreaks(w) \/ Abandon(w)
        PROVE  status'[i] = status[i]
    BY <2>6 DEF Raise, PushBreaks, Abandon, row
  <2> QED
    BY <2>2, <2>3, <2>4, <2>5, <2>6 DEF Next
<1> QED
  BY <1>1, Invariance, PTL DEF Spec, FinalStays
====
