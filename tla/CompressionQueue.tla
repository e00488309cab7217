-------------------------- MODULE CompressionQueue ---------------------------
(***************************************************************************)
(* The durable queue of PDF compression jobs,                              *)
(* backend/src/compression_job_queue.py.                                   *)
(*                                                                         *)
(* Jobs are rows of an SQLite file, each with a copy of its PDF beside it. *)
(* One process runs the queue; in it run the request threads that enqueue, *)
(* one worker thread that takes jobs from the executor's queue, a          *)
(* heartbeat that renews the lease of the job being run, and a janitor:    *)
(* the constructor that recovers what an earlier process left, then the    *)
(* sweeper that recovers jobs whose lease lapsed.  A statement or           *)
(* transaction is one step, and so is the removal of files after it, so a  *)
(* crash may fall between the two.                                         *)
(*                                                                         *)
(* Abstracted: times (a lease has lapsed or not, a row is past retention   *)
(* or not), messages and results.  Outside: close, which the program does  *)
(* not call; the status 'cancelled', which nothing sets; reading a job.    *)
(***************************************************************************)
EXTENDS Naturals, Sequences, FiniteSets

CONSTANTS Jobs,         \* the jobs clients may enqueue
          NoJob,        \* what an idle worker works on
          MaxAttempts,  \* max_attempts
          MaxCrashes,   \* bound: the times the process is killed and restarted
          MaxFaults     \* bound: failing statements and late heartbeats

ASSUME NoJobAssumption == NoJob \notin Jobs
ASSUME MaxAttemptsAssumption == MaxAttempts \in Nat \ {0}   \* __init__, line 70
ASSUME BoundsAssumption == MaxCrashes \in Nat /\ MaxFaults \in Nat

VARIABLES
    row,      \* the status of each job in compression_jobs
    tries,    \* attempt_count
    lapsed,   \* lease_expires_at has passed
    old,      \* updated_at is past retention
    file,     \* the managed copy of the source exists
    fifo,     \* the executor's queue
    worker,   \* the worker thread
    beat,     \* the job has a running heartbeat
    caller,   \* the request that enqueues each job
    janitor,  \* the constructor, then the sweeper
    phase,    \* of the queue in this process
    crashes, faults

table    == <<row, tries, lapsed, old>>
threads  == <<fifo, worker, beat>>
counters == <<crashes, faults>>
vars     == <<table, file, threads, caller, janitor, phase, counters>>
-----------------------------------------------------------------------------
Terminal == {"completed", "failed"}
Live     == {"queued", "processing"}
Status   == {"none"} \union Live \union Terminal

WorkerSteps  == {"idle", "load", "run", "complete", "fail", "unlink", "stop"}
CallerSteps  == {"new", "copied", "discard", "delete", "clean", "submit", "done"}
JanitorSteps == {"recover", "update", "unlink", "submit", "discard", "delete", "clean",
                 "pending"}

\* "off": the constructor failed and the process runs without the queue.
Phases == {"boot", "starting", "up", "off"}

TypeOK ==
    /\ row \in [Jobs -> Status]
    /\ tries \in [Jobs -> 0 .. MaxAttempts]
    /\ lapsed \in [Jobs -> BOOLEAN]
    /\ old \in [Jobs -> BOOLEAN]
    /\ file \in [Jobs -> BOOLEAN]
    /\ fifo \in Seq(Jobs)
    /\ worker \in [pc : WorkerSteps, job : Jobs \union {NoJob}]
    /\ worker.pc # "idle" => worker.job \in Jobs
    /\ beat \in [Jobs -> BOOLEAN]
    /\ caller \in [Jobs -> [pc : CallerSteps, doomed : SUBSET Jobs]]
    /\ janitor \in [pc : JanitorSteps, doomed : SUBSET Jobs, todo : SUBSET Jobs]
    /\ phase \in Phases
    /\ crashes \in 0 .. MaxCrashes
    /\ faults \in 0 .. MaxFaults
-----------------------------------------------------------------------------
IdleWorker == [pc |-> "idle", job |-> NoJob]
Boot       == [pc |-> "recover", doomed |-> {}, todo |-> {}]

Init ==
    /\ row = [j \in Jobs |-> "none"]
    /\ tries = [j \in Jobs |-> 0]
    /\ lapsed = [j \in Jobs |-> FALSE]
    /\ old = [j \in Jobs |-> FALSE]
    /\ file = [j \in Jobs |-> FALSE]
    /\ fifo = << >>
    /\ worker = IdleWorker
    /\ beat = [j \in Jobs |-> FALSE]
    /\ caller = [j \in Jobs |-> [pc |-> "new", doomed |-> {}]]
    /\ janitor = Boot
    /\ phase = "boot"
    /\ crashes = 0
    /\ faults = 0

\* A statement fails; at most MaxFaults times.
Fault ==
    /\ faults < MaxFaults
    /\ faults' = faults + 1
    /\ UNCHANGED crashes

\* The rows move to new statuses, which stamps updated_at and ends the lease.
Move(S, status) ==
    /\ row' = [j \in Jobs |-> IF j \in S THEN status ELSE row[j]]
    /\ old' = [j \in Jobs |-> IF j \in S THEN FALSE ELSE old[j]]
    /\ lapsed' = [j \in Jobs |-> IF j \in S THEN FALSE ELSE lapsed[j]]

Unlink(S) == file' = [j \in Jobs |-> file[j] /\ j \notin S]

PastRetention == {j \in Jobs : row[j] \in Terminal /\ old[j]}

DeleteRows == /\ row' = [j \in Jobs |-> IF j \in PastRetention THEN "none" ELSE row[j]]
              /\ UNCHANGED <<tries, lapsed, old>>
-----------------------------------------------------------------------------
(* enqueue_compress_pdf, in a request thread. *)

CopySource(j) ==
    /\ phase = "up"
    /\ caller[j].pc = "new"
    /\ caller' = [caller EXCEPT ![j].pc = "copied"]
    /\ file' = [file EXCEPT ![j] = TRUE]
    /\ UNCHANGED <<table, threads, janitor, phase, counters>>

InsertRow(j) ==
    /\ caller[j].pc = "copied"
    /\ caller' = [caller EXCEPT ![j].pc = "discard"]
    /\ Move({j}, "queued")
    /\ UNCHANGED <<tries, file, threads, janitor, phase, counters>>

InsertFails(j) ==
    /\ caller[j].pc = "copied"
    /\ Fault
    /\ caller' = [caller EXCEPT ![j].pc = "done"]
    /\ Unlink({j})
    /\ UNCHANGED <<table, threads, janitor, phase>>

\* _discard_expired_jobs: which files go, then the rows, then the files.
CallerSelectsOld(j) ==
    /\ caller[j].pc = "discard"
    /\ caller' = [caller EXCEPT ![j] = [pc |-> "delete", doomed |-> PastRetention]]
    /\ UNCHANGED <<table, file, threads, janitor, phase, counters>>

CallerDeletesOld(j) ==
    /\ caller[j].pc = "delete"
    /\ caller' = [caller EXCEPT ![j].pc = "clean"]
    /\ DeleteRows
    /\ UNCHANGED <<file, threads, janitor, phase, counters>>

CallerUnlinks(j) ==
    /\ caller[j].pc = "clean"
    /\ caller' = [caller EXCEPT ![j] = [pc |-> "submit", doomed |-> {}]]
    /\ Unlink(caller[j].doomed)
    /\ UNCHANGED <<table, threads, janitor, phase, counters>>

\* The exception leaves enqueue: the row stays, and nobody submits it.
CallerDiscardFails(j) ==
    /\ caller[j].pc \in {"discard", "delete"}
    /\ Fault
    /\ caller' = [caller EXCEPT ![j] = [pc |-> "done", doomed |-> {}]]
    /\ UNCHANGED <<table, file, threads, janitor, phase>>

CallerSubmits(j) ==
    /\ caller[j].pc = "submit"
    /\ caller' = [caller EXCEPT ![j].pc = "done"]
    /\ fifo' = Append(fifo, j)
    /\ UNCHANGED <<table, file, worker, beat, janitor, phase, counters>>

Caller(j) == \/ InsertRow(j) \/ CallerSelectsOld(j) \/ CallerDeletesOld(j)
             \/ CallerUnlinks(j) \/ CallerSubmits(j)
-----------------------------------------------------------------------------
(* _run_job, in the worker thread. *)

\* Bug: the claim does not ask whether the job is still queued.
CanClaim_AnyStatus(j) == tries[j] < MaxAttempts

CanClaim(j) == row[j] = "queued" /\ tries[j] < MaxAttempts

Claim ==
    LET j == Head(fifo) IN
    /\ worker.pc = "idle"
    /\ fifo # << >>
    /\ fifo' = Tail(fifo)
    /\ IF CanClaim(j)
       THEN /\ Move({j}, "processing")
            /\ tries' = [tries EXCEPT ![j] = @ + 1]
            /\ worker' = [pc |-> "load", job |-> j]
       ELSE UNCHANGED <<table, worker>>
    /\ UNCHANGED <<file, beat, caller, janitor, phase, counters>>

\* The future fails with the claim, and is only logged.
ClaimFails ==
    /\ worker.pc = "idle"
    /\ fifo # << >>
    /\ Fault
    /\ fifo' = Tail(fifo)
    /\ UNCHANGED <<table, file, worker, beat, caller, janitor, phase>>

\* Bug: the lease is never renewed.
Load_NoHeartbeat ==
    /\ worker.pc = "load"
    /\ worker' = [worker EXCEPT !.pc = "run"]
    /\ UNCHANGED <<table, file, fifo, beat, caller, janitor, phase, counters>>

\* The job's parameters are read and its heartbeat starts.
Load ==
    /\ worker.pc = "load"
    /\ IF row[worker.job] = "none"
       THEN /\ worker' = IdleWorker
            /\ UNCHANGED beat
       ELSE /\ worker' = [worker EXCEPT !.pc = "run"]
            /\ beat' = [beat EXCEPT ![worker.job] = TRUE]
    /\ UNCHANGED <<table, file, fifo, caller, janitor, phase, counters>>

LoadFails ==
    /\ worker.pc = "load"
    /\ Fault
    /\ worker' = IdleWorker
    /\ UNCHANGED <<table, file, fifo, beat, caller, janitor, phase>>

\* The processor returns a result or raises.
Process ==
    /\ worker.pc = "run"
    /\ \E outcome \in {"complete", "fail"} : worker' = [worker EXCEPT !.pc = outcome]
    /\ UNCHANGED <<table, file, fifo, beat, caller, janitor, phase, counters>>

\* _complete_job and _fail_job write whatever the row says by now, unless it is gone.
Record(status) ==
    /\ IF row[worker.job] = "none"
       THEN /\ worker' = [worker EXCEPT !.pc = "stop"]
            /\ UNCHANGED <<row, old, lapsed>>
       ELSE /\ worker' = [worker EXCEPT !.pc = "unlink"]
            /\ Move({worker.job}, status)
    /\ UNCHANGED <<tries, file, fifo, beat, caller, janitor, phase, counters>>

Complete == worker.pc = "complete" /\ Record("completed")

\* Bug: a failed job gets a status that polling clients do not know.
Fail_Cancels == worker.pc = "fail" /\ Record("cancelled")

Fail == worker.pc = "fail" /\ Record("failed")

\* A result that cannot be recorded is a failure; a failure that cannot be
\* recorded leaves the job processing.
RecordFails ==
    /\ worker.pc \in {"complete", "fail"}
    /\ Fault
    /\ worker' = [worker EXCEPT !.pc = IF @ = "complete" THEN "fail" ELSE "stop"]
    /\ UNCHANGED <<table, file, fifo, beat, caller, janitor, phase>>

\* Bug: the source of a job that ended is kept.
WorkerUnlinks_Nothing ==
    /\ worker.pc = "unlink"
    /\ worker' = [worker EXCEPT !.pc = "stop"]
    /\ UNCHANGED <<table, file, fifo, beat, caller, janitor, phase, counters>>

WorkerUnlinks ==
    /\ worker.pc = "unlink"
    /\ worker' = [worker EXCEPT !.pc = "stop"]
    /\ Unlink({worker.job})
    /\ UNCHANGED <<table, fifo, beat, caller, janitor, phase, counters>>

StopHeartbeat ==
    /\ worker.pc = "stop"
    /\ worker' = IdleWorker
    /\ beat' = [beat EXCEPT ![worker.job] = FALSE]
    /\ UNCHANGED <<table, file, fifo, caller, janitor, phase, counters>>

Worker == \/ Claim \/ Load \/ Process \/ Complete \/ Fail \/ WorkerUnlinks \/ StopHeartbeat
-----------------------------------------------------------------------------
(* _maintain_lease and the passing of time. *)

Renew(j) ==
    /\ beat[j]
    /\ row[j] = "processing"
    /\ lapsed[j]
    /\ lapsed' = [lapsed EXCEPT ![j] = FALSE]
    /\ UNCHANGED <<row, tries, old, file, threads, caller, janitor, phase, counters>>

\* Its thread ends with the first statement that fails.
HeartbeatDies(j) ==
    /\ beat[j]
    /\ Fault
    /\ beat' = [beat EXCEPT ![j] = FALSE]
    /\ UNCHANGED <<table, file, fifo, worker, caller, janitor, phase>>

Watched(j) == worker.job = j /\ (worker.pc = "load" \/ beat[j])

\* A lease lasts three heartbeats: it lapses when there is none, and only a
\* thread that does not get to run for so long lets it lapse otherwise.
Lapse(j) ==
    /\ row[j] = "processing"
    /\ ~lapsed[j]
    /\ IF Watched(j) THEN Fault ELSE UNCHANGED counters
    /\ lapsed' = [lapsed EXCEPT ![j] = TRUE]
    /\ UNCHANGED <<row, tries, old, file, threads, caller, janitor, phase>>

Age(j) ==
    /\ row[j] \in Terminal
    /\ ~old[j]
    /\ old' = [old EXCEPT ![j] = TRUE]
    /\ UNCHANGED <<row, tries, lapsed, file, threads, caller, janitor, phase, counters>>
-----------------------------------------------------------------------------
(* The janitor: __init__ while the phase is "boot" or "starting", then      *)
(* _sweep_expired_leases.                                                   *)

\* Bug: leases are looked at only when the process starts.
SelectLapsed_OnlyAtStart ==
    /\ janitor.pc = "recover"
    /\ phase # "off"
    /\ janitor' = [pc |-> "update", doomed |-> {},
                   todo |-> {j \in Jobs : phase = "boot" /\ row[j] = "processing" /\ lapsed[j]}]
    /\ UNCHANGED <<table, file, threads, caller, phase, counters>>

\* _recover_expired_jobs: the lapsed jobs are selected ...
SelectLapsed ==
    /\ janitor.pc = "recover"
    /\ phase # "off"
    /\ janitor' = [pc |-> "update", doomed |-> {},
                   todo |-> {j \in Jobs : row[j] = "processing" /\ lapsed[j]}]
    /\ UNCHANGED <<table, file, threads, caller, phase, counters>>

StillLapsed == {j \in janitor.todo : row[j] = "processing" /\ lapsed[j]}

\* Bug: an attempt too many is allowed.
Exhausted_OffByOne == {j \in Jobs : tries[j] > MaxAttempts}

Exhausted == {j \in Jobs : tries[j] >= MaxAttempts}

\* ... and those whose lease is still lapsed are queued again, or failed when
\* no attempt is left.
UpdateLapsed ==
    LET lost == StillLapsed \intersect Exhausted
    IN  /\ janitor.pc = "update"
        /\ row' = [j \in Jobs |-> IF j \in lost THEN "failed"
                                  ELSE IF j \in StillLapsed THEN "queued" ELSE row[j]]
        /\ old' = [j \in Jobs |-> old[j] /\ j \notin StillLapsed]
        /\ lapsed' = [j \in Jobs |-> lapsed[j] /\ j \notin StillLapsed]
        /\ janitor' = [pc |-> "unlink", doomed |-> lost, todo |-> StillLapsed \ lost]
        /\ UNCHANGED <<tries, file, threads, caller, phase, counters>>

\* Bug: the sources of all recovered jobs are removed.
UnlinkExhausted_All ==
    /\ janitor.pc = "unlink"
    /\ Unlink(janitor.doomed \union janitor.todo)
    /\ janitor' = IF phase = "boot" THEN [pc |-> "discard", doomed |-> {}, todo |-> {}]
                                    ELSE [janitor EXCEPT !.pc = "submit", !.doomed = {}]
    /\ UNCHANGED <<table, threads, caller, phase, counters>>

\* The constructor makes nothing of what was recovered: _recover_pending_jobs
\* will find it queued.
UnlinkExhausted ==
    /\ janitor.pc = "unlink"
    /\ Unlink(janitor.doomed)
    /\ janitor' = IF phase = "boot" THEN [pc |-> "discard", doomed |-> {}, todo |-> {}]
                                    ELSE [janitor EXCEPT !.pc = "submit", !.doomed = {}]
    /\ UNCHANGED <<table, threads, caller, phase, counters>>

\* Bug: the sweeper leaves the recovered jobs to the next start.
Resubmit_Nothing ==
    /\ janitor.pc = "submit"
    /\ janitor' = [janitor EXCEPT !.pc = "discard", !.todo = {}]
    /\ phase' = "up"
    /\ UNCHANGED <<table, file, threads, caller, counters>>

Resubmit ==
    /\ janitor.pc = "submit"
    /\ \/ \E j \in janitor.todo : /\ fifo' = Append(fifo, j)
                                  /\ janitor' = [janitor EXCEPT !.todo = @ \ {j}]
                                  /\ UNCHANGED phase
       \/ /\ janitor.todo = {}
          /\ janitor' = [janitor EXCEPT !.pc = IF phase = "starting" THEN "recover"
                                                                     ELSE "discard"]
          /\ phase' = "up"
          /\ UNCHANGED fifo
    /\ UNCHANGED <<table, file, worker, beat, caller, counters>>

JanitorSelectsOld ==
    /\ janitor.pc = "discard"
    /\ janitor' = [pc |-> "delete", doomed |-> PastRetention, todo |-> {}]
    /\ UNCHANGED <<table, file, threads, caller, phase, counters>>

JanitorDeletesOld ==
    /\ janitor.pc = "delete"
    /\ janitor' = [janitor EXCEPT !.pc = "clean"]
    /\ DeleteRows
    /\ UNCHANGED <<file, threads, caller, phase, counters>>

JanitorUnlinks ==
    /\ janitor.pc = "clean"
    /\ Unlink(janitor.doomed)
    /\ janitor' = [janitor EXCEPT !.pc = IF phase = "boot" THEN "pending" ELSE "recover",
                                  !.doomed = {}]
    /\ UNCHANGED <<table, threads, caller, phase, counters>>

\* _recover_pending_jobs
RecoverPending ==
    LET queued == {j \in Jobs : row[j] = "queued"}
        lost   == queued \intersect Exhausted
    IN  /\ janitor.pc = "pending"
        /\ Move(lost, "failed")
        /\ janitor' = [pc |-> "unlink", doomed |-> lost, todo |-> queued \ lost]
        /\ phase' = "starting"
        /\ UNCHANGED <<tries, file, threads, caller, counters>>

\* The sweeper logs the exception and goes on at its next turn; out of the
\* constructor it leaves the process without the queue.
JanitorFails ==
    /\ janitor.pc \in {"recover", "update", "discard", "delete", "pending"}
    /\ phase # "off"
    /\ Fault
    /\ janitor' = Boot
    /\ phase' = IF phase = "boot" THEN "off" ELSE phase
    /\ UNCHANGED <<table, file, threads, caller>>

Janitor == \/ SelectLapsed \/ UpdateLapsed \/ UnlinkExhausted \/ Resubmit
           \/ JanitorSelectsOld \/ JanitorDeletesOld \/ JanitorUnlinks \/ RecoverPending
-----------------------------------------------------------------------------
\* The process is killed; the next one starts with the rows and the files.
\* (A process without its queue may be restarted beyond the bound.)
Crash ==
    /\ crashes < MaxCrashes \/ phase = "off"
    /\ crashes' = IF phase = "off" THEN crashes ELSE crashes + 1
    /\ fifo' = << >>
    /\ worker' = IdleWorker
    /\ beat' = [j \in Jobs |-> FALSE]
    /\ caller' = [j \in Jobs |-> IF caller[j].pc = "new" THEN caller[j]
                                 ELSE [pc |-> "done", doomed |-> {}]]
    /\ janitor' = Boot
    /\ phase' = "boot"
    /\ UNCHANGED <<table, file, faults>>

Next ==
    \/ \E j \in Jobs : \/ CopySource(j) \/ Caller(j)
                       \/ InsertFails(j) \/ CallerDiscardFails(j)
                       \/ Renew(j) \/ HeartbeatDies(j) \/ Lapse(j) \/ Age(j)
    \/ Worker \/ ClaimFails \/ LoadFails \/ RecordFails
    \/ Janitor \/ JanitorFails
    \/ Crash

Spec == Init /\ [][Next]_vars

\* Threads run, the processor returns, and an unwatched lease lapses.
Fairness ==
    /\ WF_vars(Worker)
    /\ WF_vars(Janitor)
    /\ \A j \in Jobs : WF_vars(Caller(j)) /\ WF_vars(~Watched(j) /\ Lapse(j))

FairSpec == Spec /\ Fairness
-----------------------------------------------------------------------------
\* Safety: a job that is queued or being processed has its source: no clean-up,
\* of this process or an earlier one, removes what a later attempt will read.
SourceHeld == \A j \in Jobs : row[j] \in Live => file[j]

\* Safety: a queued job has an attempt left, so whoever takes it from the
\* executor can claim it ("recovered only while attempts remain", lines 24-31).
QueuedCanRun == \A j \in Jobs : row[j] = "queued" => tries[j] < MaxAttempts

\* Safety: unless a statement failed, a queued job is in the executor's queue
\* or somebody is about to put it there: it does not wait for a restart.
QueuedWillRun ==
    faults = 0 => \A j \in Jobs : row[j] = "queued" =>
        \/ \E i \in DOMAIN fifo : fifo[i] = j
        \/ caller[j].pc \in {"discard", "delete", "clean", "submit"}
        \/ janitor.pc \in {"unlink", "submit"} /\ j \in janitor.todo
        \/ phase = "boot"

\* Safety: unless something failed, the job the worker runs is its own: no
\* sweep hands it to a second attempt while the first goes on.
NotTakenFromWorker ==
    faults = 0 /\ worker.pc \in {"load", "run", "complete", "fail"} =>
        row[worker.job] = "processing"

\* Safety: unless the process was killed or a statement failed, a source
\* outlives its job only until the clean-up that is under way removes it.
NoSourceLeft ==
    crashes = 0 /\ faults = 0 => \A j \in Jobs : file[j] =>
        \/ row[j] \in Live
        \/ caller[j].pc = "copied"
        \/ worker.job = j /\ worker.pc = "unlink"
        \/ j \in janitor.doomed
        \/ \E i \in Jobs : j \in caller[i].doomed

\* Action property: a completed job stays completed until it is discarded,
\* although a job may be queued again while it still runs.
CompletedIsFinal ==
    [][\A j \in Jobs : row[j] = "completed" => row'[j] \in {"completed", "none"}]_vars

\* Liveness: whatever fails, no job stays in processing, unless the process
\* could not start its queue.
ProcessingIsLeft ==
    \A j \in Jobs : (row[j] = "processing") ~> (row[j] # "processing" \/ phase = "off")

\* Liveness: a job that was accepted is completed or failed, however often the
\* process is killed, unless a statement fails.
AcceptedEnds ==
    \A j \in Jobs : (row[j] = "queued") ~> (row[j] \notin Live \/ faults > 0)

\* Liveness: both: neither lapsed leases nor killed processes strand a job.
JobsSettle == ProcessingIsLeft /\ AcceptedEnds
=============================================================================
