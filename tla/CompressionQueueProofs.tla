----------------------- MODULE CompressionQueueProofs ------------------------
(***************************************************************************)
(* What holds of the compression queue for any number of jobs, attempts,   *)
(* crashes and faults.                                                     *)
(***************************************************************************)
EXTENDS CompressionQueue, TLAPS

\* Nobody is about to remove the source of the job.
Spared(j) ==
    /\ j \notin janitor.doomed
    /\ \A i \in Jobs : j \notin caller[i].doomed
    /\ ~ (worker.pc = "unlink" /\ worker.job = j)

\* A job that was not inserted yet has no trace in the table.
Fresh ==
    \A j \in Jobs : caller[j].pc \in {"new", "copied"} =>
        row[j] = "none" /\ tries[j] = 0 /\ Spared(j)

\* The source of a job that is live, or about to be, exists and stays.
Sources ==
    \A j \in Jobs :
        /\ row[j] \in Live => file[j] /\ Spared(j)
        /\ caller[j].pc = "copied" => file[j]

\* Only the worker completes the job it runs.
Unfinished ==
    worker.pc \in {"load", "run", "complete", "fail"} => row[worker.job] # "completed"

\* What the theorems rest on, beside the types.
Kept == Fresh /\ Sources /\ QueuedCanRun /\ Unfinished

IInv == TypeOK /\ Kept
-----------------------------------------------------------------------------
LEMMA InitTypeOK == Init => TypeOK
BY MaxAttemptsAssumption, BoundsAssumption
   DEF Init, TypeOK, IdleWorker, Boot, Status, WorkerSteps, CallerSteps, JanitorSteps, Phases

LEMMA InitIInv == Init => IInv
<1> SUFFICES ASSUME Init PROVE Kept
    BY InitTypeOK DEF IInv
<1>1. Fresh BY DEF Init, Fresh, Spared, IdleWorker, Boot
<1>2. Sources BY DEF Init, Sources, Spared, IdleWorker, Boot, Live
<1>3. QueuedCanRun BY DEF Init, QueuedCanRun
<1>4. Unfinished BY DEF Init, Unfinished, IdleWorker
<1> QED BY <1>1, <1>2, <1>3, <1>4 DEF Kept
-----------------------------------------------------------------------------
Callers == [pc : CallerSteps, doomed : SUBSET Jobs]

\* A request that takes a step keeps the shape of a request.
LEMMA CallerMoves ==
    ASSUME NEW c \in [Jobs -> Callers], NEW j \in Jobs, NEW p \in CallerSteps
    PROVE  /\ [c EXCEPT ![j].pc = p] \in [Jobs -> Callers]
           /\ \A i \in Jobs : /\ [c EXCEPT ![j].pc = p][i].doomed = c[i].doomed
                             /\ [c EXCEPT ![j].pc = p][i].pc = IF i = j THEN p ELSE c[i].pc
<1> DEFINE d == [c EXCEPT ![j].pc = p]
<1>1. d = [c EXCEPT ![j] = [c[j] EXCEPT !.pc = p]]
    OBVIOUS
<1>2. c[j] \in Callers
    OBVIOUS
<1>3. /\ [c[j] EXCEPT !.pc = p] \in Callers
      /\ [c[j] EXCEPT !.pc = p].pc = p
      /\ [c[j] EXCEPT !.pc = p].doomed = c[j].doomed
    BY <1>2 DEF Callers
<1> QED
    BY <1>1, <1>3

\* Statements that update or delete rows keep the types of the table.
LEMMA TableTypes ==
    ASSUME row \in [Jobs -> Status], old \in [Jobs -> BOOLEAN], lapsed \in [Jobs -> BOOLEAN],
           DeleteRows \/ \E S \in SUBSET Jobs, status \in Status : Move(S, status)
    PROVE  row' \in [Jobs -> Status] /\ old' \in [Jobs -> BOOLEAN] /\ lapsed' \in [Jobs -> BOOLEAN]
<1>1. CASE DeleteRows
    BY <1>1 DEF DeleteRows, Status
<1>2. CASE \E S \in SUBSET Jobs, status \in Status : Move(S, status)
    BY <1>2 DEF Move
<1> QED BY <1>1, <1>2

LEMMA RecordTypes ==
    ASSUME TypeOK, NEW status \in Terminal, worker.pc # "idle", Record(status)
    PROVE  TypeOK'
<1> USE DEF TypeOK, Status, Live, Terminal, WorkerSteps
<1>1. worker.job \in Jobs
    OBVIOUS
<1>2. CASE row[worker.job] = "none"
    <2>1. worker' = [worker EXCEPT !.pc = "stop"] /\ UNCHANGED <<row, old, lapsed>>
        BY <1>2 DEF Record
    <2> QED BY <1>1, <2>1 DEF Record, counters
<1>3. CASE row[worker.job] # "none"
    <2>1. worker' = [worker EXCEPT !.pc = "unlink"]
        BY <1>3 DEF Record
    <2>2. worker' \in [pc : WorkerSteps, job : Jobs \union {NoJob}] /\ worker'.job \in Jobs
        BY <1>1, <2>1
    <2>3. Move({worker.job}, status)
        BY <1>3 DEF Record
    <2>4. row' \in [Jobs -> Status]
        BY <2>3 DEF Move
    <2>5. old' \in [Jobs -> BOOLEAN] /\ lapsed' \in [Jobs -> BOOLEAN]
        BY <2>3 DEF Move
    <2> QED BY <2>2, <2>4, <2>5 DEF Record, counters
<1> QED BY <1>2, <1>3

LEMMA TypeStep == TypeOK /\ [Next]_vars => TypeOK'
<1> SUFFICES ASSUME TypeOK, [Next]_vars PROVE TypeOK'
    OBVIOUS
<1> USE MaxAttemptsAssumption, BoundsAssumption
        DEF TypeOK, Status, Live, Terminal, WorkerSteps, CallerSteps, JanitorSteps, Phases,
            table, threads, counters, PastRetention
<1>0. caller \in [Jobs -> Callers]
    BY DEF Callers
<1>1. ASSUME NEW j \in Jobs, CopySource(j) PROVE TypeOK'
    <2>1. caller' \in [Jobs -> Callers]
        BY <1>0, <1>1, CallerMoves DEF CopySource
    <2> QED BY <1>1, <2>1 DEF CopySource, Callers
<1>2. ASSUME NEW j \in Jobs, InsertRow(j) PROVE TypeOK'
    <2>1. caller' \in [Jobs -> Callers]
        BY <1>0, <1>2, CallerMoves DEF InsertRow
    <2>2. row' \in [Jobs -> Status] /\ old' \in [Jobs -> BOOLEAN] /\ lapsed' \in [Jobs -> BOOLEAN]
        BY <1>2, TableTypes DEF InsertRow
    <2> QED BY <1>2, <2>1, <2>2 DEF InsertRow, Callers
<1>3. ASSUME NEW j \in Jobs, InsertFails(j) PROVE TypeOK'
    <2>1. caller' \in [Jobs -> Callers]
        BY <1>0, <1>3, CallerMoves DEF InsertFails
    <2>2. file' \in [Jobs -> BOOLEAN]
        BY <1>3 DEF InsertFails, Unlink
    <2>3. faults' \in 0 .. MaxFaults /\ UNCHANGED crashes
        BY <1>3 DEF InsertFails, Fault
    <2> QED BY <1>3, <2>1, <2>2, <2>3 DEF InsertFails, Callers
<1>4. ASSUME NEW j \in Jobs, CallerSelectsOld(j) PROVE TypeOK'
    BY <1>4 DEF CallerSelectsOld
<1>5. ASSUME NEW j \in Jobs, CallerDeletesOld(j) PROVE TypeOK'
    <2>1. caller' \in [Jobs -> Callers]
        BY <1>0, <1>5, CallerMoves DEF CallerDeletesOld
    <2>2. row' \in [Jobs -> Status] /\ old' \in [Jobs -> BOOLEAN] /\ lapsed' \in [Jobs -> BOOLEAN]
        BY <1>5, TableTypes DEF CallerDeletesOld
    <2>3. tries' = tries
        BY <1>5 DEF CallerDeletesOld, DeleteRows
    <2> QED BY <1>5, <2>1, <2>2, <2>3 DEF CallerDeletesOld, Callers
<1>6. ASSUME NEW j \in Jobs, CallerUnlinks(j) PROVE TypeOK'
    BY <1>6 DEF CallerUnlinks, Unlink
<1>7. ASSUME NEW j \in Jobs, CallerDiscardFails(j) PROVE TypeOK'
    BY <1>7 DEF CallerDiscardFails, Fault
<1>8. ASSUME NEW j \in Jobs, CallerSubmits(j) PROVE TypeOK'
    <2>1. caller' \in [Jobs -> Callers]
        BY <1>0, <1>8, CallerMoves DEF CallerSubmits
    <2>2. fifo' \in Seq(Jobs)
        BY <1>8 DEF CallerSubmits
    <2> QED BY <1>8, <2>1, <2>2 DEF CallerSubmits, Callers
<1>9. ASSUME Claim PROVE TypeOK'
    <2> DEFINE j == Head(fifo)
    <2>1. j \in Jobs /\ Tail(fifo) \in Seq(Jobs)
        BY <1>9 DEF Claim
    <2>2. CASE CanClaim(j)
        <3>1. row' = [k \in Jobs |-> IF k \in {j} THEN "processing" ELSE row[k]]
              /\ old' = [k \in Jobs |-> IF k \in {j} THEN FALSE ELSE old[k]]
              /\ lapsed' = [k \in Jobs |-> IF k \in {j} THEN FALSE ELSE lapsed[k]]
              /\ tries' = [tries EXCEPT ![j] = @ + 1]
              /\ worker' = [pc |-> "load", job |-> j]
            BY <1>9, <2>2 DEF Claim, Move
        <3>2. tries[j] + 1 \in 0 .. MaxAttempts
            BY <2>1, <2>2 DEF CanClaim
        <3> HIDE DEF j
        <3> QED BY <1>9, <2>1, <3>1, <3>2 DEF Claim, j
    <2>3. CASE ~CanClaim(j)
        BY <1>9, <2>1, <2>3 DEF Claim
    <2> QED BY <2>2, <2>3
<1>10. ASSUME ClaimFails PROVE TypeOK'
    BY <1>10 DEF ClaimFails, Fault
<1>11. ASSUME Load PROVE TypeOK'
    <2>1. worker.job \in Jobs
        BY <1>11 DEF Load
    <2>2. worker' \in [pc : WorkerSteps, job : Jobs \union {NoJob}]
          /\ (worker'.pc # "idle" => worker'.job \in Jobs)
        <3>1. CASE row[worker.job] = "none"
            BY <1>11, <3>1 DEF Load, IdleWorker
        <3>2. CASE row[worker.job] # "none"
            <4>1. worker' = [worker EXCEPT !.pc = "run"]
                BY <1>11, <3>2 DEF Load
            <4> QED BY <2>1, <4>1
        <3> QED BY <3>1, <3>2
    <2>3. beat' \in [Jobs -> BOOLEAN]
        BY <1>11, <2>1 DEF Load
    <2> QED BY <1>11, <2>2, <2>3 DEF Load
<1>12. ASSUME LoadFails PROVE TypeOK'
    BY <1>12 DEF LoadFails, IdleWorker, Fault
<1>13. ASSUME Process PROVE TypeOK'
    BY <1>13 DEF Process
<1>14. ASSUME Complete PROVE TypeOK'
    BY <1>14, RecordTypes DEF Complete
<1>15. ASSUME Fail PROVE TypeOK'
    BY <1>15, RecordTypes DEF Fail
<1>16. ASSUME RecordFails PROVE TypeOK'
    <2>1. worker' \in [pc : WorkerSteps, job : Jobs \union {NoJob}]
          /\ worker'.job = worker.job
        BY <1>16 DEF RecordFails
    <2>2. worker'.job \in Jobs
        BY <1>16, <2>1 DEF RecordFails
    <2> QED BY <1>16, <2>1, <2>2 DEF RecordFails, Fault
<1>17. ASSUME WorkerUnlinks PROVE TypeOK'
    BY <1>17 DEF WorkerUnlinks, Unlink
<1>18. ASSUME StopHeartbeat PROVE TypeOK'
    BY <1>18 DEF StopHeartbeat, IdleWorker
<1>19. ASSUME NEW j \in Jobs, Renew(j) PROVE TypeOK'
    BY <1>19 DEF Renew
<1>20. ASSUME NEW j \in Jobs, HeartbeatDies(j) PROVE TypeOK'
    BY <1>20 DEF HeartbeatDies, Fault
<1>21. ASSUME NEW j \in Jobs, Lapse(j) PROVE TypeOK'
    BY <1>21 DEF Lapse, Fault
<1>22. ASSUME NEW j \in Jobs, Age(j) PROVE TypeOK'
    BY <1>22 DEF Age
<1>23. ASSUME SelectLapsed PROVE TypeOK'
    BY <1>23 DEF SelectLapsed
<1>24. ASSUME UpdateLapsed PROVE TypeOK'
    BY <1>24 DEF UpdateLapsed, StillLapsed
<1>25. ASSUME UnlinkExhausted PROVE TypeOK'
    BY <1>25 DEF UnlinkExhausted, Unlink
<1>26. ASSUME Resubmit PROVE TypeOK'
    <2>1. CASE janitor.todo = {} /\ UNCHANGED fifo
        BY <1>26, <2>1 DEF Resubmit
    <2>2. ASSUME NEW j \in janitor.todo, fifo' = Append(fifo, j),
                 janitor' = [janitor EXCEPT !.todo = @ \ {j}], UNCHANGED phase
          PROVE TypeOK'
        <3>1. fifo' \in Seq(Jobs)
            BY <2>2
        <3>2. janitor' \in [pc : JanitorSteps, doomed : SUBSET Jobs, todo : SUBSET Jobs]
            BY <2>2
        <3> QED BY <1>26, <2>2, <3>1, <3>2 DEF Resubmit
    <2> QED BY <1>26, <2>1, <2>2 DEF Resubmit
<1>27. ASSUME JanitorSelectsOld PROVE TypeOK'
    BY <1>27 DEF JanitorSelectsOld
<1>28. ASSUME JanitorDeletesOld PROVE TypeOK'
    BY <1>28 DEF JanitorDeletesOld, DeleteRows
<1>29. ASSUME JanitorUnlinks PROVE TypeOK'
    BY <1>29 DEF JanitorUnlinks, Unlink
<1>30. ASSUME RecoverPending PROVE TypeOK'
    BY <1>30 DEF RecoverPending, Move
<1>31. ASSUME JanitorFails PROVE TypeOK'
    BY <1>31 DEF JanitorFails, Boot, Fault
<1>32. ASSUME Crash PROVE TypeOK'
    BY <1>32 DEF Crash, IdleWorker, Boot
<1>33. CASE UNCHANGED vars
    BY <1>33 DEF vars
<1> QED
    BY <1>1, <1>2, <1>3, <1>4, <1>5, <1>6, <1>7, <1>8, <1>9, <1>10, <1>11, <1>12, <1>13,
       <1>14, <1>15, <1>16, <1>17, <1>18, <1>19, <1>20, <1>21, <1>22, <1>23, <1>24, <1>25,
       <1>26, <1>27, <1>28, <1>29, <1>30, <1>31, <1>32, <1>33
    DEF Next, Caller, Worker, Janitor

\* Recording the outcome of a job that the table no longer has changes nothing;
\* of any other job it ends the work on the row before it touches the source.
LEMMA RecordKeeps ==
    ASSUME IInv, NEW status \in Terminal, worker.pc \in {"complete", "fail"}, Record(status)
    PROVE  Kept'
<1> USE DEF IInv, TypeOK, Kept
<1> DEFINE k == worker.job
<1>1. k \in Jobs
    OBVIOUS
<1>2. UNCHANGED <<tries, file, caller, janitor>>
    BY DEF Record
<1>3. worker'.pc \in {"stop", "unlink"} /\ worker'.job = k
    BY DEF Record
<1>4. CASE row[k] = "none"
    <2>1. row' = row /\ worker'.pc = "stop"
        BY <1>4 DEF Record
    <2>2. \A i \in Jobs : Spared(i) => Spared(i)'
        BY <1>2, <2>1 DEF Spared
    <2> QED BY <1>2, <2>1, <2>2 DEF Fresh, Sources, QueuedCanRun, Unfinished
<1>5. CASE row[k] # "none"
    <2>1. \A i \in Jobs : row'[i] = IF i = k THEN status ELSE row[i]
        BY <1>5 DEF Record, Move
    <2> HIDE DEF k
    <2>2. \A i \in Jobs \ {k} : Spared(i) => Spared(i)'
        BY <1>2, <1>3 DEF Spared
    <2>3. caller[k].pc \notin {"new", "copied"}
        BY <1>1, <1>5 DEF Fresh
    <2>4. Fresh'
        BY <1>2, <2>1, <2>2, <2>3 DEF Fresh
    <2>5. Sources'
        BY <1>2, <2>1, <2>2, <2>3 DEF Sources, Live, Terminal
    <2>6. QueuedCanRun'
        BY <1>2, <2>1 DEF QueuedCanRun, Terminal
    <2>7. Unfinished'
        BY <1>3 DEF Unfinished
    <2> QED BY <2>4, <2>5, <2>6, <2>7
<1> QED BY <1>4, <1>5

LEMMA InvStep == IInv /\ [Next]_vars => Kept'
<1> SUFFICES ASSUME IInv, [Next]_vars PROVE Kept'
    OBVIOUS
<1> USE MaxAttemptsAssumption DEF IInv, TypeOK, Kept, table, threads, counters, Live, Terminal
<1>1. ASSUME NEW j \in Jobs, CopySource(j) PROVE Kept'
    BY <1>1 DEF CopySource, Unlink, Fresh, Sources, Spared, QueuedCanRun, Unfinished
<1>2. ASSUME NEW j \in Jobs, InsertRow(j) PROVE Kept'
    BY <1>2 DEF InsertRow, Move, Fresh, Sources, Spared, QueuedCanRun, Unfinished
<1>3. ASSUME NEW j \in Jobs, InsertFails(j) PROVE Kept'
    BY <1>3 DEF InsertFails, Fault, Unlink, Fresh, Sources, Spared, QueuedCanRun, Unfinished
<1>4. ASSUME NEW j \in Jobs, CallerSelectsOld(j) PROVE Kept'
    BY <1>4
    DEF CallerSelectsOld, PastRetention, Fresh, Sources, Spared, QueuedCanRun, Unfinished
<1>5. ASSUME NEW j \in Jobs, CallerDeletesOld(j) PROVE Kept'
    BY <1>5
    DEF CallerDeletesOld, DeleteRows, PastRetention, Fresh, Sources, Spared, QueuedCanRun, Unfinished
<1>6. ASSUME NEW j \in Jobs, CallerUnlinks(j) PROVE Kept'
    BY <1>6 DEF CallerUnlinks, Unlink, Fresh, Sources, Spared, QueuedCanRun, Unfinished
<1>7. ASSUME NEW j \in Jobs, CallerDiscardFails(j) PROVE Kept'
    BY <1>7 DEF CallerDiscardFails, Fault, Fresh, Sources, Spared, QueuedCanRun, Unfinished
<1>8. ASSUME NEW j \in Jobs, CallerSubmits(j) PROVE Kept'
    BY <1>8 DEF CallerSubmits, Fresh, Sources, Spared, QueuedCanRun, Unfinished
<1>9. ASSUME Claim PROVE Kept'
    <2> DEFINE k == Head(fifo)
    <2>1. k \in Jobs
        BY <1>9 DEF Claim
    <2>2. CASE ~CanClaim(k)
        BY <1>9, <2>2 DEF Claim, Fresh, Sources, Spared, QueuedCanRun, Unfinished
    <2>3. CASE CanClaim(k)
        <3>1. /\ Move({k}, "processing")
              /\ tries' = [tries EXCEPT ![k] = @ + 1]
              /\ worker' = [pc |-> "load", job |-> k]
              /\ UNCHANGED <<file, caller, janitor>>
              /\ worker.pc = "idle"
            BY <1>9, <2>3 DEF Claim
        <3>2. row[k] = "queued" /\ caller[k].pc \notin {"new", "copied"}
            BY <2>1, <2>3 DEF CanClaim, Fresh
        <3> HIDE DEF k
        <3>3. \A i \in Jobs : /\ row'[i] = IF i = k THEN "processing" ELSE row[i]
                              /\ i # k => tries'[i] = tries[i]
            BY <2>1, <3>1 DEF Move
        <3>4. \A i \in Jobs : Spared(i) => Spared(i)'
            BY <3>1 DEF Spared
        <3>5. Fresh'
            BY <3>1, <3>2, <3>3, <3>4 DEF Fresh
        <3>6. Sources'
            BY <2>1, <3>1, <3>2, <3>3, <3>4 DEF Sources, Live
        <3>7. QueuedCanRun'
            BY <3>3 DEF QueuedCanRun
        <3>8. Unfinished'
            BY <2>1, <3>1, <3>3 DEF Unfinished
        <3> QED BY <3>5, <3>6, <3>7, <3>8
    <2> QED BY <2>2, <2>3
<1>10. ASSUME ClaimFails PROVE Kept'
    BY <1>10 DEF ClaimFails, Fault, Fresh, Sources, Spared, QueuedCanRun, Unfinished
<1>11. ASSUME Load PROVE Kept'
    <2>1. Fresh' /\ Sources' /\ QueuedCanRun'
        BY <1>11 DEF Load, IdleWorker, Fresh, Sources, QueuedCanRun, Spared, Live
    <2>2. Unfinished'
        <3>1. CASE row[worker.job] = "none"
            BY <1>11, <3>1 DEF Load, IdleWorker, Unfinished
        <3>2. CASE row[worker.job] # "none"
            <4>1. worker'.job = worker.job /\ row' = row /\ worker.pc = "load"
                BY <1>11, <3>2 DEF Load
            <4> QED BY <4>1 DEF Unfinished
        <3> QED BY <3>1, <3>2
    <2> QED BY <2>1, <2>2
<1>12. ASSUME LoadFails PROVE Kept'
    BY <1>12 DEF LoadFails, IdleWorker, Fault, Fresh, Sources, Spared, QueuedCanRun, Unfinished
<1>13. ASSUME Process PROVE Kept'
    BY <1>13 DEF Process, Fresh, Sources, Spared, QueuedCanRun, Unfinished
<1>14. ASSUME Complete PROVE Kept'
    BY <1>14, RecordKeeps DEF Complete, Terminal
<1>15. ASSUME Fail PROVE Kept'
    BY <1>15, RecordKeeps DEF Fail, Terminal
<1>16. ASSUME RecordFails PROVE Kept'
    BY <1>16 DEF RecordFails, Fault, Fresh, Sources, Spared, QueuedCanRun, Unfinished
<1>17. ASSUME WorkerUnlinks PROVE Kept'
    BY <1>17 DEF WorkerUnlinks, Unlink, Fresh, Sources, Spared, QueuedCanRun, Unfinished
<1>18. ASSUME StopHeartbeat PROVE Kept'
    BY <1>18 DEF StopHeartbeat, IdleWorker, Fresh, Sources, Spared, QueuedCanRun, Unfinished
<1>19. ASSUME NEW j \in Jobs, Renew(j) PROVE Kept'
    BY <1>19 DEF Renew, Fresh, Sources, Spared, QueuedCanRun, Unfinished
<1>20. ASSUME NEW j \in Jobs, HeartbeatDies(j) PROVE Kept'
    BY <1>20 DEF HeartbeatDies, Fault, Fresh, Sources, Spared, QueuedCanRun, Unfinished
<1>21. ASSUME NEW j \in Jobs, Lapse(j) PROVE Kept'
    BY <1>21 DEF Lapse, Fault, Fresh, Sources, Spared, QueuedCanRun, Unfinished
<1>22. ASSUME NEW j \in Jobs, Age(j) PROVE Kept'
    BY <1>22 DEF Age, Fresh, Sources, Spared, QueuedCanRun, Unfinished
<1>23. ASSUME SelectLapsed PROVE Kept'
    BY <1>23 DEF SelectLapsed, Fresh, Sources, Spared, QueuedCanRun, Unfinished
<1>24. ASSUME UpdateLapsed PROVE Kept'
    BY <1>24
    DEF UpdateLapsed, StillLapsed, Exhausted, Fresh, Sources, Spared, QueuedCanRun, Unfinished
<1>25. ASSUME UnlinkExhausted PROVE Kept'
    <2>1. /\ UNCHANGED <<row, tries, worker, caller>>
          /\ janitor'.doomed = {}
          /\ \A j \in Jobs : file'[j] = (file[j] /\ j \notin janitor.doomed)
        BY <1>25 DEF UnlinkExhausted, Unlink, table, threads
    <2>2. Fresh'
        BY <2>1 DEF Fresh, Spared
    <2>3. Sources'
        <3>1. ASSUME NEW j \in Jobs, row[j] \in Live PROVE file'[j] /\ Spared(j)'
            BY <2>1, <3>1 DEF Sources, Spared
        <3>2. ASSUME NEW j \in Jobs, caller[j].pc = "copied" PROVE file'[j]
            BY <2>1, <3>2 DEF Fresh, Sources, Spared
        <3> QED BY <2>1, <3>1, <3>2 DEF Sources
    <2>4. QueuedCanRun' /\ Unfinished'
        BY <2>1 DEF QueuedCanRun, Unfinished
    <2> QED BY <2>2, <2>3, <2>4
<1>26. ASSUME Resubmit PROVE Kept'
    <2>1. /\ UNCHANGED <<row, tries, worker, caller, file>>
          /\ janitor'.doomed = janitor.doomed
        BY <1>26 DEF Resubmit, table
    <2> QED BY <2>1 DEF Fresh, Sources, Spared, QueuedCanRun, Unfinished
<1>27. ASSUME JanitorSelectsOld PROVE Kept'
    BY <1>27
    DEF JanitorSelectsOld, PastRetention, Fresh, Sources, Spared, QueuedCanRun, Unfinished
<1>28. ASSUME JanitorDeletesOld PROVE Kept'
    BY <1>28
    DEF JanitorDeletesOld, DeleteRows, PastRetention, Fresh, Sources, Spared, QueuedCanRun, Unfinished
<1>29. ASSUME JanitorUnlinks PROVE Kept'
    BY <1>29 DEF JanitorUnlinks, Unlink, Fresh, Sources, Spared, QueuedCanRun, Unfinished
<1>30. ASSUME RecoverPending PROVE Kept'
    BY <1>30
    DEF RecoverPending, Move, Exhausted, Fresh, Sources, Spared, QueuedCanRun, Unfinished
<1>31. ASSUME JanitorFails PROVE Kept'
    BY <1>31 DEF JanitorFails, Boot, Fault, Fresh, Sources, Spared, QueuedCanRun, Unfinished
<1>32. ASSUME Crash PROVE Kept'
    BY <1>32 DEF Crash, IdleWorker, Boot, Fresh, Sources, Spared, QueuedCanRun, Unfinished
<1>33. CASE UNCHANGED vars
    BY <1>33 DEF vars, Fresh, Sources, Spared, QueuedCanRun, Unfinished
<1> QED
    BY <1>1, <1>2, <1>3, <1>4, <1>5, <1>6, <1>7, <1>8, <1>9, <1>10, <1>11, <1>12,
       <1>13, <1>14, <1>15, <1>16, <1>17, <1>18, <1>19, <1>20, <1>21, <1>22, <1>23, <1>24,
       <1>25, <1>26, <1>27, <1>28, <1>29, <1>30, <1>31, <1>32, <1>33
    DEF Next, Caller, Worker, Janitor
-----------------------------------------------------------------------------
LEMMA Invariance == Spec => []IInv
<1>1. IInv /\ [Next]_vars => IInv'
    BY TypeStep, InvStep DEF IInv
<1> QED BY InitIInv, <1>1, PTL DEF Spec

\* Every reachable state is well typed: in particular no job is claimed more
\* than MaxAttempts times.
THEOREM QueueTypeCorrectness == Spec => []TypeOK
<1>1. IInv => TypeOK
    BY DEF IInv
<1> QED BY Invariance, <1>1, PTL

\* The source of a job that is queued or being processed exists, whatever is
\* cleaned up at the same time and whenever the process is killed.
THEOREM SourcesAreHeld == Spec => []SourceHeld
<1>1. IInv => SourceHeld
    BY DEF IInv, Kept, Sources, SourceHeld
<1> QED BY Invariance, <1>1, PTL

\* A queued job has an attempt left.
THEOREM AttemptsRemain == Spec => []QueuedCanRun
<1>1. IInv => QueuedCanRun
    BY DEF IInv, Kept
<1> QED BY Invariance, <1>1, PTL
-----------------------------------------------------------------------------
CompletedStays == \A j \in Jobs : row[j] = "completed" => row'[j] \in {"completed", "none"}

LEMMA CompletedStep == IInv /\ [Next]_vars => CompletedStays
<1> SUFFICES ASSUME IInv, [Next]_vars PROVE CompletedStays
    OBVIOUS
<1> USE DEF IInv, TypeOK, Kept, CompletedStays
<1>1. CASE UNCHANGED row
    BY <1>1
<1>2. ASSUME NEW j \in Jobs, InsertRow(j) PROVE CompletedStays
    BY <1>2 DEF InsertRow, Move, Fresh
<1>3. CASE DeleteRows
    BY <1>3 DEF DeleteRows
<1>4. ASSUME Claim PROVE CompletedStays
    <2> DEFINE k == Head(fifo)
    <2>1. k \in Jobs /\ (row' = row \/ (CanClaim(k) /\ Move({k}, "processing")))
        BY <1>4 DEF Claim, table
    <2> HIDE DEF k
    <2> QED BY <2>1 DEF CanClaim, Move
<1>5. ASSUME Complete PROVE CompletedStays
    <2>1. row' = row \/ Move({worker.job}, "completed")
        BY <1>5 DEF Complete, Record
    <2> HIDE DEF IInv, TypeOK, Kept
    <2> QED BY <2>1 DEF Move
<1>6. ASSUME Fail PROVE CompletedStays
    <2>1. row[worker.job] # "completed"
        BY <1>6 DEF Fail, Unfinished
    <2>2. row' = row \/ Move({worker.job}, "failed")
        BY <1>6 DEF Fail, Record
    <2>3. \A j \in Jobs : row[j] = "completed" => j \notin {worker.job}
        BY <2>1
    <2> HIDE DEF IInv, TypeOK, Kept
    <2> QED BY <2>2, <2>3 DEF Move
<1>7. ASSUME UpdateLapsed PROVE CompletedStays
    <2>1. \A j \in Jobs : row[j] = "completed" => j \notin StillLapsed
        BY DEF StillLapsed
    <2>2. \A j \in Jobs : j \notin StillLapsed => row'[j] = row[j]
        BY <1>7 DEF UpdateLapsed
    <2> HIDE DEF IInv, TypeOK
    <2> QED BY <2>1, <2>2
<1>8. ASSUME RecoverPending PROVE CompletedStays
    BY <1>8 DEF RecoverPending, Move
<1>9. \A j \in Jobs : CopySource(j) \/ InsertFails(j) \/ CallerSelectsOld(j) \/ CallerUnlinks(j)
                        \/ CallerDiscardFails(j) \/ CallerSubmits(j) \/ Renew(j)
                        \/ HeartbeatDies(j) \/ Lapse(j) \/ Age(j) => UNCHANGED row
    BY DEF CopySource, InsertFails, CallerSelectsOld, CallerUnlinks, CallerDiscardFails,
           CallerSubmits, Renew, HeartbeatDies, Lapse, Age, table
<1>10. ClaimFails \/ Load \/ LoadFails \/ Process \/ RecordFails \/ WorkerUnlinks
        \/ StopHeartbeat \/ SelectLapsed \/ UnlinkExhausted \/ Resubmit \/ JanitorSelectsOld
        \/ JanitorUnlinks \/ JanitorFails \/ Crash \/ UNCHANGED vars => UNCHANGED row
    BY DEF ClaimFails, Load, LoadFails, Process, RecordFails, WorkerUnlinks, StopHeartbeat,
           SelectLapsed, UnlinkExhausted, Resubmit, JanitorSelectsOld, JanitorUnlinks,
           JanitorFails, Crash, vars, table
<1>11. (JanitorDeletesOld => DeleteRows) /\ (\A j \in Jobs : CallerDeletesOld(j) => DeleteRows)
    BY DEF JanitorDeletesOld, CallerDeletesOld
<1> QED
    BY <1>1, <1>2, <1>3, <1>4, <1>5, <1>6, <1>7, <1>8, <1>9, <1>10, <1>11
    DEF Next, Caller, Worker, Janitor

\* No late worker, sweep or second attempt changes a completed job.
THEOREM CompletionIsFinal == Spec => CompletedIsFinal
<1>1. IInv /\ [Next]_vars
      => [\A j \in Jobs : row[j] = "completed" => row'[j] \in {"completed", "none"}]_vars
    BY CompletedStep DEF CompletedStays
<1> QED BY Invariance, <1>1, PTL DEF Spec, CompletedIsFinal
-----------------------------------------------------------------------------
(* What holds as long as nothing failed: nobody but the worker touches the   *)
(* job it runs, and no job or source is forgotten between two steps.         *)

\* What the threads have in hand: nobody resubmits for a constructor, and whoever
\* is not discarding or recovering has no source to remove.
Handover ==
    /\ phase = "boot" => janitor.pc # "submit"
    /\ faults = 0 => phase # "off"
    /\ \A i \in Jobs : caller[i].pc \notin {"delete", "clean"} => caller[i].doomed = {}
    /\ janitor.pc \notin {"unlink", "delete", "clean"} => janitor.doomed = {}

Working == worker.pc \in {"load", "run", "complete", "fail"}

\* The lease of the job being run does not lapse: its heartbeat runs.
LeaseIsKept ==
    faults = 0 /\ Working =>
        /\ row[worker.job] = "processing"
        /\ ~lapsed[worker.job]
        /\ worker.pc = "load" \/ beat[worker.job]

\* The invariant of the steps that nothing disturbed.
FInv == Handover /\ LeaseIsKept /\ QueuedWillRun /\ NoSourceLeft

LEMMA InitFInv == Init => FInv
<1> SUFFICES ASSUME Init PROVE FInv
    OBVIOUS
<1>1. Handover
    BY DEF Init, Handover, Boot
<1>2. LeaseIsKept
    BY DEF Init, LeaseIsKept, Working, IdleWorker
<1>3. QueuedWillRun /\ NoSourceLeft
    BY DEF Init, QueuedWillRun, NoSourceLeft
<1> QED BY <1>1, <1>2, <1>3 DEF FInv

\* A step that counts a fault is no longer undisturbed.
LEMMA FaultCounts == ASSUME TypeOK, Fault PROVE faults' # 0
BY BoundsAssumption DEF TypeOK, Fault

LEMMA HandoverStep == IInv /\ FInv /\ [Next]_vars => Handover'
<1> SUFFICES ASSUME IInv, Handover, [Next]_vars PROVE Handover'
    BY DEF FInv
<1> USE DEF IInv, TypeOK, Handover
<1>1. ASSUME UNCHANGED <<caller, janitor, phase>>, faults' = faults \/ faults' # 0
      PROVE  Handover'
    BY <1>1
<1>2. ASSUME NEW j \in Jobs, NEW p \in CallerSteps, p \notin {"delete", "clean"},
             caller[j].pc \notin {"delete", "clean"},
             caller' = [caller EXCEPT ![j].pc = p],
             UNCHANGED <<janitor, phase>>, faults' = faults \/ faults' # 0
      PROVE  Handover'
    <2>1. \A i \in Jobs : /\ caller'[i].doomed = caller[i].doomed
                          /\ caller'[i].pc = IF i = j THEN p ELSE caller[i].pc
        BY <1>2, CallerMoves DEF Callers
    <2> QED BY <1>2, <2>1
<1>3. ASSUME NEW j \in Jobs, CopySource(j) \/ InsertRow(j) \/ InsertFails(j) \/ CallerSubmits(j)
      PROVE  Handover'
    BY <1>2, <1>3, FaultCounts
    DEF CopySource, InsertRow, InsertFails, CallerSubmits, CallerSteps, counters
<1>4. ASSUME NEW j \in Jobs, CallerSelectsOld(j) \/ CallerUnlinks(j) \/ CallerDiscardFails(j)
      PROVE  Handover'
    <2>1. CASE CallerSelectsOld(j)
        BY <2>1 DEF CallerSelectsOld, counters
    <2>2. CASE CallerUnlinks(j)
        BY <2>2 DEF CallerUnlinks, counters
    <2>3. CASE CallerDiscardFails(j)
        BY <2>3, FaultCounts DEF CallerDiscardFails
    <2> QED BY <1>4, <2>1, <2>2, <2>3
<1>5. ASSUME NEW j \in Jobs, CallerDeletesOld(j) PROVE Handover'
    <2>1. \A i \in Jobs : /\ caller'[i].doomed = caller[i].doomed
                          /\ caller'[i].pc = IF i = j THEN "clean" ELSE caller[i].pc
        BY <1>5, CallerMoves DEF CallerDeletesOld, Callers, CallerSteps
    <2> QED BY <1>5, <2>1 DEF CallerDeletesOld, counters
<1>6. ASSUME Worker \/ ClaimFails \/ LoadFails \/ RecordFails \/ UNCHANGED vars
      PROVE  Handover'
    <2>1. UNCHANGED <<caller, janitor, phase>>
        BY <1>6 DEF Worker, Claim, ClaimFails, Load, LoadFails, Process, Complete, Fail, Record,
                    RecordFails, WorkerUnlinks, StopHeartbeat, vars
    <2>2. faults' = faults \/ faults' # 0
        BY <1>6, FaultCounts
        DEF Worker, Claim, ClaimFails, Load, LoadFails, Process, Complete, Fail, Record,
            RecordFails, WorkerUnlinks, StopHeartbeat, vars, counters
    <2> QED BY <1>1, <2>1, <2>2
<1>7. ASSUME NEW j \in Jobs, Renew(j) \/ HeartbeatDies(j) \/ Lapse(j) \/ Age(j)
      PROVE  Handover'
    BY <1>1, <1>7, FaultCounts DEF Renew, HeartbeatDies, Lapse, Age, counters
<1>8. ASSUME SelectLapsed \/ UpdateLapsed PROVE Handover'
    BY <1>8 DEF SelectLapsed, UpdateLapsed, counters
<1>9. ASSUME UnlinkExhausted PROVE Handover'
    BY <1>9 DEF UnlinkExhausted, counters
<1>10. ASSUME Resubmit PROVE Handover'
    BY <1>10 DEF Resubmit, counters
<1>11. ASSUME JanitorSelectsOld \/ JanitorDeletesOld \/ JanitorUnlinks \/ RecoverPending
       PROVE  Handover'
    <2>1. CASE JanitorSelectsOld
        BY <2>1 DEF JanitorSelectsOld, counters
    <2>2. CASE JanitorDeletesOld
        BY <2>2 DEF JanitorDeletesOld, counters
    <2>3. CASE JanitorUnlinks
        BY <2>3 DEF JanitorUnlinks, counters
    <2>4. CASE RecoverPending
        BY <2>4 DEF RecoverPending, counters
    <2> QED BY <1>11, <2>1, <2>2, <2>3, <2>4
<1>12. ASSUME JanitorFails PROVE Handover'
    BY <1>12, FaultCounts DEF JanitorFails, Boot
<1>13. ASSUME Crash PROVE Handover'
    BY <1>13 DEF Crash, Boot
<1> QED
    BY <1>3, <1>4, <1>5, <1>6, <1>7, <1>8, <1>9, <1>10, <1>11, <1>12, <1>13
    DEF Next, Caller, Janitor

LEMMA LeaseStep == IInv /\ FInv /\ [Next]_vars => LeaseIsKept'
<1> DEFINE Goal == /\ row'[worker'.job] = "processing"
                   /\ ~lapsed'[worker'.job]
                   /\ worker'.pc = "load" \/ beat'[worker'.job]
<1> SUFFICES ASSUME IInv, LeaseIsKept, [Next]_vars, faults' = 0, Working'
             PROVE  Goal
    BY DEF FInv, LeaseIsKept, Working
<1> USE DEF IInv, TypeOK, Working
<1>1. ~Fault /\ (faults' = faults => faults = 0)
    BY FaultCounts
\* The worker's job is being processed and its lease runs: whoever changes rows
\* that are gone, queued, terminal or lapsed leaves it alone.
<1>2. ASSUME UNCHANGED <<worker, beat, faults>>,
             \A j \in Jobs : row[j] = "processing" /\ ~lapsed[j] =>
                 row'[j] = "processing" /\ ~lapsed'[j]
      PROVE  Goal
    BY <1>1, <1>2 DEF LeaseIsKept
<1>3. ASSUME NEW j \in Jobs, CopySource(j) \/ Caller(j) \/ Renew(j) \/ Age(j) PROVE Goal
    <2>1. CASE CopySource(j) \/ CallerSelectsOld(j) \/ CallerUnlinks(j) \/ CallerSubmits(j)
        BY <1>2, <2>1
        DEF CopySource, CallerSelectsOld, CallerUnlinks, CallerSubmits, table, threads, counters
    <2>2. CASE InsertRow(j)
        BY <1>2, <2>2 DEF InsertRow, Move, Kept, Fresh, threads, counters
    <2>3. CASE CallerDeletesOld(j)
        BY <1>2, <2>3 DEF CallerDeletesOld, DeleteRows, PastRetention, Terminal, threads, counters
    <2>4. CASE Renew(j) \/ Age(j)
        BY <1>2, <2>4 DEF Renew, Age, threads, counters
    <2> QED BY <1>3, <2>1, <2>2, <2>3, <2>4 DEF Caller
<1>4. ASSUME NEW j \in Jobs, Lapse(j) PROVE Goal
    <2>1. ~Watched(j) /\ UNCHANGED <<worker, beat, faults, row>>
        BY <1>1, <1>4 DEF Lapse, threads, counters
    <2>2. worker.job # j
        BY <1>1, <2>1 DEF LeaseIsKept, Watched
    <2> QED BY <1>1, <1>4, <2>1, <2>2 DEF Lapse, LeaseIsKept
<1>5. ASSUME Claim PROVE Goal
    <2> DEFINE k == Head(fifo)
    <2>1. k \in Jobs /\ worker.pc = "idle"
        BY <1>5 DEF Claim
    <2>2. CanClaim(k)
        BY <1>5, <2>1 DEF Claim
    <2>3. Move({k}, "processing") /\ worker' = [pc |-> "load", job |-> k]
        BY <1>5, <2>2 DEF Claim
    <2> HIDE DEF k
    <2>4. row'[k] = "processing" /\ ~lapsed'[k]
        BY <2>1, <2>3 DEF Move
    <2> QED BY <2>3, <2>4
<1>6. ASSUME Load PROVE Goal
    <2>1. worker.pc = "load" /\ row[worker.job] = "processing" /\ ~lapsed[worker.job]
        BY <1>1, <1>6 DEF Load, LeaseIsKept, counters
    <2>2. /\ worker' = [worker EXCEPT !.pc = "run"]
          /\ beat' = [beat EXCEPT ![worker.job] = TRUE]
          /\ UNCHANGED <<row, lapsed>>
        BY <1>6, <2>1 DEF Load, table
    <2> QED BY <2>1, <2>2
<1>7. ASSUME Process PROVE Goal
    BY <1>1, <1>7 DEF Process, LeaseIsKept, table, counters
<1>8. ASSUME Complete \/ Fail \/ WorkerUnlinks \/ StopHeartbeat PROVE Goal
    BY <1>8 DEF Complete, Fail, Record, WorkerUnlinks, StopHeartbeat, IdleWorker
<1>9. ASSUME SelectLapsed \/ UnlinkExhausted \/ Resubmit \/ JanitorSelectsOld \/ JanitorUnlinks
      PROVE  Goal
    BY <1>2, <1>9
    DEF SelectLapsed, UnlinkExhausted, Resubmit, JanitorSelectsOld, JanitorUnlinks, table,
        threads, counters
<1>10. ASSUME UpdateLapsed PROVE Goal
    BY <1>2, <1>10 DEF UpdateLapsed, StillLapsed, threads, counters
<1>11. ASSUME JanitorDeletesOld PROVE Goal
    BY <1>2, <1>11 DEF JanitorDeletesOld, DeleteRows, PastRetention, Terminal, threads, counters
<1>12. ASSUME RecoverPending PROVE Goal
    BY <1>2, <1>12 DEF RecoverPending, Move, threads, counters
<1>13. ASSUME Crash PROVE Goal
    BY <1>13 DEF Crash, IdleWorker
<1>14. CASE UNCHANGED vars
    BY <1>2, <1>14 DEF vars, table, threads, counters
<1>15. /\ \A j \in Jobs : ~InsertFails(j) /\ ~CallerDiscardFails(j) /\ ~HeartbeatDies(j)
       /\ ~ClaimFails /\ ~LoadFails /\ ~RecordFails /\ ~JanitorFails
    BY <1>1 DEF InsertFails, CallerDiscardFails, HeartbeatDies, ClaimFails, LoadFails,
                RecordFails, JanitorFails
<1> HIDE DEF Goal, IInv, TypeOK, Working
<1> QED
    BY <1>3, <1>4, <1>5, <1>6, <1>7, <1>8, <1>9, <1>10, <1>11, <1>12, <1>13, <1>14, <1>15
    DEF Next, Worker, Janitor

\* What is behind the head of a sequence moves up by one.
LEMMA TailKeeps ==
    ASSUME NEW s \in Seq(Jobs), NEW i \in 1 .. Len(s), i # 1
    PROVE  i - 1 \in DOMAIN Tail(s) /\ Tail(s)[i - 1] = s[i]
OBVIOUS

LEMMA QueuedStep == IInv /\ FInv /\ [Next]_vars => QueuedWillRun'
<1> DEFINE Awaited(j) == \/ \E i \in DOMAIN fifo : fifo[i] = j
                         \/ caller[j].pc \in {"discard", "delete", "clean", "submit"}
                         \/ janitor.pc \in {"unlink", "submit"} /\ j \in janitor.todo
                         \/ phase = "boot"
<1> SUFFICES ASSUME IInv, FInv, [Next]_vars, faults' = 0, NEW j \in Jobs, row'[j] = "queued"
             PROVE  Awaited(j)'
    BY DEF QueuedWillRun
<1> USE DEF IInv, TypeOK
<1>1. ~Fault /\ (faults' = faults => faults = 0)
    BY FaultCounts
<1>2. faults' = faults /\ row[j] = "queued" => Awaited(j)
    BY <1>1 DEF FInv, QueuedWillRun
<1>3. ASSUME NEW k \in Jobs, CopySource(k) \/ Caller(k) PROVE Awaited(j)'
    <2>1. CASE CallerSubmits(k)
        <3>1. \A i \in Jobs : caller'[i].pc = IF i = k THEN "done" ELSE caller[i].pc
            BY <2>1, CallerMoves DEF CallerSubmits, Callers, CallerSteps
        <3>2. fifo' = Append(fifo, k) /\ UNCHANGED <<row, janitor, phase, faults>>
            BY <2>1 DEF CallerSubmits, table, counters
        <3>3. \A i \in DOMAIN fifo : i \in DOMAIN fifo' /\ fifo'[i] = fifo[i]
            BY <3>2
        <3>4. Len(fifo) + 1 \in DOMAIN fifo' /\ fifo'[Len(fifo) + 1] = k
            BY <3>2
        <3> QED BY <1>2, <3>1, <3>2, <3>3, <3>4
    <2>2. ASSUME NEW p \in CallerSteps, caller' = [caller EXCEPT ![k].pc = p],
                 UNCHANGED <<fifo, janitor, phase, faults>>,
                 k # j => row'[j] = row[j],
                 p \in {"discard", "clean"} \/ row'[k] = "none"
          PROVE  Awaited(j)'
        <3>1. \A i \in Jobs : caller'[i].pc = IF i = k THEN p ELSE caller[i].pc
            BY <2>2, CallerMoves DEF Callers
        <3> QED BY <1>2, <2>2, <3>1
    <2>3. CASE CopySource(k)
        BY <2>2, <2>3
        DEF CopySource, Kept, Fresh, table, threads, counters, CallerSteps
    <2>4. CASE InsertRow(k)
        BY <2>2, <2>4 DEF InsertRow, Move, threads, counters, CallerSteps
    <2>5. CASE CallerDeletesOld(k)
        <3>1. row'[j] = row[j]
            BY <2>5 DEF CallerDeletesOld, DeleteRows
        <3> QED BY <2>2, <2>5, <3>1 DEF CallerDeletesOld, threads, counters, CallerSteps
    <2>6. CASE CallerSelectsOld(k)
        BY <1>2, <2>6 DEF CallerSelectsOld, table, threads, counters
    <2>7. CASE CallerUnlinks(k)
        BY <1>2, <2>7 DEF CallerUnlinks, table, threads, counters
    <2> QED BY <1>3, <2>1, <2>3, <2>4, <2>5, <2>6, <2>7 DEF Caller
<1>4. ASSUME UNCHANGED <<fifo, caller, janitor, phase, faults>>, row'[j] = row[j]
      PROVE  Awaited(j)'
    BY <1>2, <1>4
<1>5. ASSUME NEW k \in Jobs, Renew(k) \/ Lapse(k) \/ Age(k) PROVE Awaited(j)'
    BY <1>1, <1>4, <1>5 DEF Renew, Lapse, Age, threads, counters
<1>6. ASSUME Claim PROVE Awaited(j)'
    <2> DEFINE k == Head(fifo)
    <2>1. /\ k \in Jobs /\ fifo # << >> /\ fifo' = Tail(fifo)
          /\ UNCHANGED <<caller, janitor, phase, faults>>
          /\ CanClaim(k) => Move({k}, "processing")
          /\ ~CanClaim(k) => row' = row
        BY <1>6 DEF Claim, table, counters
    <2>2. row[k] = "queued" => CanClaim(k)
        BY <2>1 DEF CanClaim, Kept, QueuedCanRun
    <2> HIDE DEF k
    <2>3. j # k /\ row[j] = "queued"
        <3>1. CASE CanClaim(k)
            <4>1. \A i \in Jobs : row'[i] = IF i = k THEN "processing" ELSE row[i]
                BY <2>1, <3>1 DEF Move
            <4> QED BY <1>2, <4>1
        <3>2. CASE ~CanClaim(k)
            BY <1>2, <2>1, <2>2, <3>2
        <3> QED BY <3>1, <3>2
    <2>4. ASSUME NEW i \in DOMAIN fifo, fifo[i] = j
          PROVE  \E n \in DOMAIN fifo' : fifo'[n] = j
        <3>1. fifo \in Seq(Jobs) /\ fifo # << >> /\ i \in 1 .. Len(fifo)
            BY <2>1, <2>4
        <3>2. fifo[1] = k /\ i # 1
            BY <2>3, <2>4, <3>1 DEF k
        <3>3. i - 1 \in DOMAIN Tail(fifo) /\ Tail(fifo)[i - 1] = fifo[i]
            BY <3>1, <3>2, TailKeeps
        <3> QED BY <2>1, <2>4, <3>3
    <2> HIDE DEF IInv, TypeOK
    <2> QED BY <1>2, <2>1, <2>3, <2>4
<1>7. ASSUME Load \/ Process \/ Complete \/ Fail \/ WorkerUnlinks \/ StopHeartbeat
      PROVE  Awaited(j)'
    <2>1. UNCHANGED <<fifo, caller, janitor, phase, faults>>
        BY <1>7 DEF Load, Process, Complete, Fail, Record, WorkerUnlinks, StopHeartbeat, counters
    <2>2. row' = row \/ \E status \in Terminal : Move({worker.job}, status)
        BY <1>7 DEF Load, Process, Complete, Fail, Record, WorkerUnlinks, StopHeartbeat, table,
                    Terminal
    <2>3. row'[j] = row[j]
        BY <2>2 DEF Move, Terminal
    <2> QED BY <1>4, <2>1, <2>3
<1>8. ASSUME SelectLapsed \/ JanitorSelectsOld \/ JanitorUnlinks PROVE Awaited(j)'
    BY <1>2, <1>8
    DEF SelectLapsed, JanitorSelectsOld, JanitorUnlinks, table, threads, counters
<1>9. ASSUME UpdateLapsed PROVE Awaited(j)'
    BY <1>2, <1>9 DEF UpdateLapsed, threads, counters
<1>10. ASSUME UnlinkExhausted PROVE Awaited(j)'
    BY <1>2, <1>10 DEF UnlinkExhausted, table, threads, counters
<1>11. ASSUME Resubmit PROVE Awaited(j)'
    <2>1. UNCHANGED <<row, caller, faults>> /\ janitor.pc = "submit" /\ phase # "boot"
        BY <1>11 DEF Resubmit, table, counters, FInv, Handover
    <2>2. CASE janitor.todo = {} /\ UNCHANGED fifo
        BY <1>2, <2>1, <2>2
    <2>3. ASSUME NEW k \in janitor.todo, fifo' = Append(fifo, k),
                 janitor' = [janitor EXCEPT !.todo = @ \ {k}], UNCHANGED phase
          PROVE  Awaited(j)'
        <3>1. \A i \in DOMAIN fifo : i \in DOMAIN fifo' /\ fifo'[i] = fifo[i]
            BY <2>3
        <3>2. Len(fifo) + 1 \in DOMAIN fifo' /\ fifo'[Len(fifo) + 1] = k
            BY <2>3
        <3>3. janitor'.pc = "submit" /\ janitor'.todo = janitor.todo \ {k}
            BY <2>1, <2>3
        <3> QED BY <1>2, <2>1, <2>3, <3>1, <3>2, <3>3
    <2> QED BY <1>11, <2>2, <2>3 DEF Resubmit
<1>12. ASSUME JanitorDeletesOld PROVE Awaited(j)'
    BY <1>2, <1>12 DEF JanitorDeletesOld, DeleteRows, threads, counters
<1>13. ASSUME RecoverPending PROVE Awaited(j)'
    BY <1>13 DEF RecoverPending, Move
<1>14. ASSUME Crash PROVE Awaited(j)'
    BY <1>14 DEF Crash
<1>15. CASE UNCHANGED vars
    BY <1>4, <1>15 DEF vars, table, threads, counters
<1>16. /\ \A k \in Jobs : ~InsertFails(k) /\ ~CallerDiscardFails(k) /\ ~HeartbeatDies(k)
       /\ ~ClaimFails /\ ~LoadFails /\ ~RecordFails /\ ~JanitorFails
    BY <1>1 DEF InsertFails, CallerDiscardFails, HeartbeatDies, ClaimFails, LoadFails,
                RecordFails, JanitorFails
<1> HIDE DEF Awaited
<1> QED
    BY <1>3, <1>5, <1>6, <1>7, <1>8, <1>9, <1>10, <1>11, <1>12, <1>13, <1>14, <1>15, <1>16
    DEF Next, Worker, Janitor

LEMMA SourceStep == IInv /\ FInv /\ [Next]_vars => NoSourceLeft'
<1> DEFINE Due(j) == \/ row[j] \in Live
                     \/ caller[j].pc = "copied"
                     \/ worker.job = j /\ worker.pc = "unlink"
                     \/ j \in janitor.doomed
                     \/ \E i \in Jobs : j \in caller[i].doomed
<1> SUFFICES ASSUME IInv, FInv, [Next]_vars, crashes' = 0, faults' = 0,
                    NEW j \in Jobs, file'[j]
             PROVE  Due(j)'
    BY DEF NoSourceLeft
<1> USE DEF IInv, TypeOK
<1>1. ~Fault /\ (faults' = faults => faults = 0)
    BY FaultCounts
<1>2. UNCHANGED counters /\ file[j] => Due(j)
    BY <1>1 DEF FInv, NoSourceLeft, counters
<1>3. ASSUME UNCHANGED <<worker, caller, janitor, counters>>, file'[j] => file[j],
             row[j] \in Live => row'[j] \in Live
      PROVE  Due(j)'
    BY <1>2, <1>3
<1>4. ASSUME NEW k \in Jobs, NEW p \in CallerSteps, caller' = [caller EXCEPT ![k].pc = p],
             UNCHANGED <<worker, janitor, counters>>,
             k # j => file'[j] = file[j] /\ (row[j] \in Live => row'[j] \in Live),
             k = j => p = "copied" \/ row'[k] \in Live
                      \/ (caller[k].pc # "copied" /\ UNCHANGED <<row, file>>)
      PROVE  Due(j)'
    <2>1. \A i \in Jobs : /\ caller'[i].doomed = caller[i].doomed
                          /\ caller'[i].pc = IF i = k THEN p ELSE caller[i].pc
        BY <1>4, CallerMoves DEF Callers
    <2> QED BY <1>2, <1>4, <2>1
<1>5. ASSUME NEW k \in Jobs, CopySource(k) \/ Caller(k) PROVE Due(j)'
    <2>1. CASE CopySource(k)
        BY <1>4, <2>1 DEF CopySource, table, threads, CallerSteps
    <2>2. CASE InsertRow(k)
        BY <1>4, <2>2 DEF InsertRow, Move, Live, threads, CallerSteps
    <2>3. CASE CallerSelectsOld(k)
        <3>1. caller[k].doomed = {}
            BY <2>3 DEF CallerSelectsOld, FInv, Handover
        <3>2. \A i \in Jobs : caller[i].doomed \subseteq caller'[i].doomed
            BY <2>3, <3>1 DEF CallerSelectsOld
        <3>3. caller[j].pc = "copied" => caller'[j].pc = "copied"
            BY <2>3 DEF CallerSelectsOld
        <3>4. UNCHANGED <<row, file, worker, janitor, counters>>
            BY <2>3 DEF CallerSelectsOld, table, threads
        <3> QED BY <1>2, <3>2, <3>3, <3>4
    <2>4. CASE CallerDeletesOld(k)
        <3>1. /\ caller[k].pc = "delete"
              /\ caller' = [caller EXCEPT ![k].pc = "clean"]
              /\ UNCHANGED <<file, worker, janitor, counters>>
            BY <2>4 DEF CallerDeletesOld, threads
        <3>2. row[j] \in Live => row'[j] \in Live
            BY <2>4 DEF CallerDeletesOld, DeleteRows, PastRetention, Live, Terminal
        <3>3. \A i \in Jobs : /\ caller'[i].doomed = caller[i].doomed
                              /\ caller[i].pc = "copied" => caller'[i].pc = "copied"
            BY <3>1, CallerMoves DEF Callers, CallerSteps
        <3> QED BY <1>2, <3>1, <3>2, <3>3
    <2>5. CASE CallerUnlinks(k)
        <3>1. /\ caller[k].pc = "clean"
              /\ caller' = [caller EXCEPT ![k] = [pc |-> "submit", doomed |-> {}]]
              /\ file' = [i \in Jobs |-> file[i] /\ i \notin caller[k].doomed]
              /\ UNCHANGED <<row, worker, janitor, counters>>
            BY <2>5 DEF CallerUnlinks, Unlink, table, threads
        <3>2. file[j] /\ j \notin caller[k].doomed
            BY <3>1
        <3>3. \A i \in Jobs \ {k} : caller'[i] = caller[i]
            BY <3>1
        <3>4. caller[j].pc = "copied" => caller'[j].pc = "copied"
            BY <3>1
        <3> QED BY <1>2, <3>1, <3>2, <3>3, <3>4
    <2>6. CASE CallerSubmits(k)
        BY <1>4, <2>6 DEF CallerSubmits, table, CallerSteps
    <2> QED BY <1>5, <2>1, <2>2, <2>3, <2>4, <2>5, <2>6 DEF Caller
<1>6. ASSUME NEW k \in Jobs, Renew(k) \/ Lapse(k) \/ Age(k) PROVE Due(j)'
    <2>1. UNCHANGED <<row, file, worker, caller, janitor>>
        BY <1>6 DEF Renew, Lapse, Age, threads
    <2>2. UNCHANGED counters
        BY <1>1, <1>6 DEF Renew, Lapse, Age
    <2> QED BY <1>3, <2>1, <2>2
<1>7. ASSUME Claim PROVE Due(j)'
    <2> DEFINE k == Head(fifo)
    <2>1. /\ k \in Jobs /\ worker.pc = "idle"
          /\ UNCHANGED <<file, caller, janitor, counters>>
          /\ row' = row \/ Move({k}, "processing")
        BY <1>7 DEF Claim, table
    <2> HIDE DEF k
    <2>2. row[j] \in Live => row'[j] \in Live
        BY <2>1 DEF Move, Live
    <2> QED BY <1>2, <2>1, <2>2
\* Recording what became of a job leaves its source to the worker.
<1>8. ASSUME NEW status \in Terminal, worker.pc \in {"complete", "fail"}, Record(status)
      PROVE  Due(j)'
    <2> DEFINE k == worker.job
    <2>1. UNCHANGED <<file, caller, janitor, counters>>
        BY <1>8 DEF Record
    <2>2. CASE row[k] = "none"
        BY <1>2, <1>8, <2>1, <2>2 DEF Record
    <2>3. CASE row[k] # "none"
        <3>1. worker' = [worker EXCEPT !.pc = "unlink"] /\ Move({k}, status)
            BY <1>8, <2>3 DEF Record
        <3>2. worker'.job = k /\ worker'.pc = "unlink"
            BY <3>1
        <3>3. j # k => row'[j] = row[j]
            BY <3>1 DEF Move
        <3> QED BY <1>2, <1>8, <2>1, <3>2, <3>3
    <2> QED BY <2>2, <2>3
<1>9. ASSUME Load \/ Process \/ StopHeartbeat PROVE Due(j)'
    <2>1. UNCHANGED <<row, file, caller, janitor, counters>> /\ worker.pc # "unlink"
        BY <1>9 DEF Load, Process, StopHeartbeat, table
    <2> QED BY <1>2, <2>1
<1>10. ASSUME WorkerUnlinks PROVE Due(j)'
    <2>1. /\ UNCHANGED <<row, caller, janitor, counters>>
          /\ file[j] /\ j # worker.job
        BY <1>10 DEF WorkerUnlinks, Unlink, table
    <2> QED BY <1>2, <2>1
<1>11. ASSUME SelectLapsed \/ JanitorSelectsOld PROVE Due(j)'
    <2>1. UNCHANGED <<row, file, caller, worker, counters>> /\ janitor.doomed = {}
        BY <1>11 DEF SelectLapsed, JanitorSelectsOld, table, threads, FInv, Handover
    <2> QED BY <1>2, <2>1
<1>12. ASSUME UpdateLapsed PROVE Due(j)'
    <2>1. UNCHANGED <<file, caller, worker, counters>> /\ janitor.doomed = {}
        BY <1>12 DEF UpdateLapsed, threads, FInv, Handover
    <2>2. row[j] \in Live => row'[j] \in Live \/ j \in janitor'.doomed
        BY <1>12 DEF UpdateLapsed, Live
    <2> QED BY <1>2, <2>1, <2>2
<1>13. ASSUME UnlinkExhausted \/ JanitorUnlinks PROVE Due(j)'
    <2>1. /\ UNCHANGED <<row, caller, worker, counters>>
          /\ file[j] /\ j \notin janitor.doomed
        BY <1>13 DEF UnlinkExhausted, JanitorUnlinks, Unlink, table, threads
    <2> QED BY <1>2, <2>1
<1>14. ASSUME Resubmit PROVE Due(j)'
    <2>1. /\ UNCHANGED <<row, file, caller, worker, counters>>
          /\ janitor'.doomed = janitor.doomed
        BY <1>14 DEF Resubmit, table
    <2> QED BY <1>2, <2>1
<1>15. ASSUME JanitorDeletesOld PROVE Due(j)'
    <2>1. /\ UNCHANGED <<file, caller, worker, counters>>
          /\ janitor'.doomed = janitor.doomed
        BY <1>15 DEF JanitorDeletesOld, threads
    <2>2. row[j] \in Live => row'[j] \in Live
        BY <1>15 DEF JanitorDeletesOld, DeleteRows, PastRetention, Live, Terminal
    <2> QED BY <1>2, <2>1, <2>2
<1>16. ASSUME RecoverPending PROVE Due(j)'
    <2>1. UNCHANGED <<file, caller, worker, counters>> /\ janitor.doomed = {}
        BY <1>16 DEF RecoverPending, threads, FInv, Handover
    <2>2. row[j] \in Live => row'[j] \in Live \/ j \in janitor'.doomed
        BY <1>16 DEF RecoverPending, Move
    <2> QED BY <1>2, <2>1, <2>2
<1>17. ~Crash
    BY DEF Crash, FInv, Handover
<1>18. CASE UNCHANGED vars
    BY <1>3, <1>18 DEF vars, table, threads
<1>19. /\ \A k \in Jobs : ~InsertFails(k) /\ ~CallerDiscardFails(k) /\ ~HeartbeatDies(k)
       /\ ~ClaimFails /\ ~LoadFails /\ ~RecordFails /\ ~JanitorFails
    BY <1>1 DEF InsertFails, CallerDiscardFails, HeartbeatDies, ClaimFails, LoadFails,
                RecordFails, JanitorFails
<1>20. (Complete \/ Fail) => Due(j)'
    BY <1>8 DEF Complete, Fail, Terminal
<1> HIDE DEF Due, IInv, TypeOK
<1> QED
    BY <1>5, <1>6, <1>7, <1>9, <1>10, <1>11, <1>12, <1>13, <1>14, <1>15, <1>16, <1>17, <1>18,
       <1>19, <1>20
    DEF Next, Worker, Janitor
-----------------------------------------------------------------------------
\* What holds while nothing failed, on top of what always holds.
LEMMA UndisturbedInvariance == Spec => []FInv
<1>1. IInv /\ FInv /\ [Next]_vars => FInv'
    BY HandoverStep, LeaseStep, QueuedStep, SourceStep DEF FInv
<1> QED BY InitFInv, <1>1, Invariance, PTL DEF Spec

\* Without a failing statement no sweep takes a job from the worker that runs it.
THEOREM JobsKeepTheirWorker == Spec => []NotTakenFromWorker
<1>1. FInv => NotTakenFromWorker
    BY DEF FInv, LeaseIsKept, Working, NotTakenFromWorker
<1> QED BY UndisturbedInvariance, <1>1, PTL

\* Without a failing statement no queued job is forgotten, however often the
\* process is killed.
THEOREM QueuedJobsAreHeld == Spec => []QueuedWillRun
<1>1. FInv => QueuedWillRun
    BY DEF FInv
<1> QED BY UndisturbedInvariance, <1>1, PTL

\* Without a failing statement or a killed process every source that outlives
\* its job is in the hands of somebody who will remove it.
THEOREM SourcesAreRemoved == Spec => []NoSourceLeft
<1>1. FInv => NoSourceLeft
    BY DEF FInv
<1> QED BY UndisturbedInvariance, <1>1, PTL
=============================================================================
