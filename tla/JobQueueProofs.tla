--------------------------- MODULE JobQueueProofs ---------------------------
(***************************************************************************)
(* Safety of the job queue for any number of workers, jobs and failures.   *)
(***************************************************************************)
EXTENDS JobQueue, TLAPS

\* What each worker knows of its task, whatever became of the row: a handler's
\* job has been created, only a refund's is being restarted, and a handler that
\* returned has left no work that could come back.
TasksKnown ==
  \A w \in Workers : phase[w] \in Handling =>
    /\ task[w] \in Jobs /\ status[task[w]] # "ABSENT"
    /\ phase[w] = "starting" => task[w] \in Recurring
    /\ phase[w] = "finished" /\ task[w] \notin Recurring => work[task[w]] = 0

\* Only the job of a reminder is ever cancelled, and its work with it.
CancelledIsVoid ==
  \A j \in Jobs : status[j] = "CANCELLED" => j \in ReminderJobs /\ work[j] = 0

QueueInv == TypeOK /\ TasksKnown /\ SuccessMeansDone /\ CancelledIsVoid /\ NeverStranded

LEMMA InitTypeOK == Init => TypeOK
  BY BoundsAssumption DEF Init, TypeOK, JobStatus, Phases, Handling

LEMMA StepTypeOK == TypeOK /\ NeverStranded /\ TasksKnown /\ [Next]_vars => TypeOK'
<1> SUFFICES ASSUME TypeOK, NeverStranded, TasksKnown, [Next]_vars PROVE TypeOK'
  OBVIOUS
<1> USE BoundsAssumption, RecurringAssumption
<1> USE DEF TypeOK, NeverStranded, TasksKnown, JobStatus, Phases, Handling,
           rowVars, workerVars
<1>1. ASSUME NEW j \in Jobs, WorkArises(j)
      PROVE  TypeOK'
  <2>1. work' \in [Jobs -> 0 .. MaxWork]
    BY <1>1 DEF TypeOK, WorkArises
  <2>2. status' \in [Jobs -> JobStatus] /\ due' \in [Jobs -> BOOLEAN]
        /\ lease' \in [Jobs -> Workers \cup {NoWorker}] /\ alive' \in [Jobs -> BOOLEAN]
    <3>1. CASE Enqueue(j)
      BY <3>1 DEF TypeOK, Enqueue, Queue, JobStatus
    <3>2. CASE UNCHANGED <<status, due, lease, alive>>
      BY <3>2 DEF TypeOK
    <3> QED
      BY <1>1, <3>1, <3>2 DEF WorkArises
  <2> QED
    BY <1>1, <2>1, <2>2 DEF TypeOK, WorkArises, workerVars
<1>2. ASSUME NEW j \in Jobs, WorkDoneElsewhere(j)
      PROVE  TypeOK'
  BY <1>2 DEF WorkDoneElsewhere
<1>3. ASSUME NEW j \in Jobs, RetryRefundJob(j)
      PROVE  TypeOK'
  BY <1>3 DEF RetryRefundJob, Queue, RetryBusy
<1>4. ASSUME NEW j \in Jobs, ReconcileNow(j)
      PROVE  TypeOK'
  BY <1>4 DEF ReconcileNow, Schedulable, Queue
<1>5. ASSUME NEW j \in Jobs, RetryRecoveryJob(j)
      PROVE  TypeOK'
  BY <1>5 DEF RetryRecoveryJob, Queue
<1>6. ASSUME NEW j \in Jobs, RunAtReached(j)
      PROVE  TypeOK'
  BY <1>6 DEF RunAtReached
<1>7. ASSUME NEW j \in Jobs, LeaseExpires(j)
      PROVE  TypeOK'
  BY <1>7 DEF LeaseExpires
<1>8. ASSUME NEW w \in Workers, StartPass(w)
      PROVE  TypeOK'
  <2>1. ASSUME NEW j \in Jobs, Expired(j) PROVE failures[j] + 1 \in 0 .. MaxAttempts
    BY <2>1 DEF TypeOK, NeverStranded, Expired
  <2>2. failures' \in [Jobs -> 0 .. MaxAttempts]
    BY <1>8, <2>1 DEF TypeOK, StartPass
  <2>3. status' \in [Jobs -> JobStatus]
    BY <1>8 DEF TypeOK, StartPass, JobStatus
  <2>4. due' \in [Jobs -> BOOLEAN] /\ lease' \in [Jobs -> Workers \cup {NoWorker}]
    BY <1>8 DEF TypeOK, StartPass
  <2>5. phase' \in [Workers -> Phases] /\ task' \in [Workers -> Jobs \cup {NoJob}]
    BY <1>8 DEF TypeOK, StartPass, Enter, Phases
  <2> QED
    BY <1>8, <2>2, <2>3, <2>4, <2>5 DEF TypeOK, StartPass
<1>9. ASSUME NEW w \in Workers, Schedule(w)
      PROVE  TypeOK'
  BY <1>9 DEF Schedule, Enqueue, Schedulable, Queue
<1>10. ASSUME NEW w \in Workers, StartLoop(w)
      PROVE  TypeOK'
  BY <1>10 DEF StartLoop, Enter
<1>11. ASSUME NEW w \in Workers, EndPass(w)
      PROVE  TypeOK'
  BY <1>11 DEF EndPass, Enter
<1>12. ASSUME NEW w \in Workers, Crash(w)
      PROVE  TypeOK'
  BY <1>12 DEF Crash, Enter
<1>13. ASSUME NEW w \in Workers, HeartbeatFails(w)
      PROVE  TypeOK'
  BY <1>13 DEF HeartbeatFails
<1>14. ASSUME NEW w \in Workers, WorkOn(w)
      PROVE  TypeOK'
  BY <1>14 DEF WorkOn
<1>15. ASSUME NEW w \in Workers, ReadApproved(w)
      PROVE  TypeOK'
  BY <1>15 DEF ReadApproved
<1>16. ASSUME NEW w \in Workers, ClaimRefund(w)
      PROVE  TypeOK'
  BY <1>16 DEF ClaimRefund
<1>17. ASSUME NEW w \in Workers, Return(w)
      PROVE  TypeOK'
  BY <1>17 DEF Return, HandlerDone
<1>18. ASSUME NEW w \in Workers, Yield(w)
      PROVE  TypeOK'
  BY <1>18 DEF Yield
<1>19. ASSUME NEW w \in Workers, Throw(w)
      PROVE  TypeOK'
  BY <1>19 DEF Throw
<1>20. ASSUME NEW w \in Workers, FinishJob(w)
      PROVE  TypeOK'
  BY <1>20 DEF FinishJob, Owns, LetGo, Rejoin, Enter
<1>21. ASSUME NEW w \in Workers, RetryOrFailJob(w)
      PROVE  TypeOK'
  <2>1. task[w] \in Jobs
    BY <1>21 DEF TasksKnown, RetryOrFailJob, Handling
  <2>2. phase' \in [Workers -> Phases] /\ task' \in [Workers -> Jobs \cup {NoJob}]
        /\ lost' \in [Workers -> BOOLEAN] /\ work' \in [Jobs -> 0 .. MaxWork]
    BY <1>21 DEF TypeOK, RetryOrFailJob, Rejoin, Enter, Phases
  <2>3. CASE ~Owns(w)
    BY <1>21, <2>2, <2>3 DEF TypeOK, RetryOrFailJob, rowVars
  <2>4. CASE Owns(w) /\ phase[w] = "yielded"
    BY <1>21, <2>2, <2>4 DEF TypeOK, RetryOrFailJob, LetGo, JobStatus
  <2>5. CASE Owns(w) /\ phase[w] # "yielded"
    <3>1. failures[task[w]] + 1 \in 0 .. MaxAttempts
      BY <2>1, <2>5 DEF TypeOK, NeverStranded, Owns
    <3>2. failures' \in [Jobs -> 0 .. MaxAttempts]
      BY <1>21, <2>1, <2>5, <3>1 DEF TypeOK, RetryOrFailJob
    <3>3. /\ status' = [status EXCEPT ![task[w]] = IF Exhausted(task[w]) THEN "FAILED" ELSE "PENDING"]
          /\ due' = [due EXCEPT ![task[w]] = FALSE]
          /\ lease' = [lease EXCEPT ![task[w]] = NoWorker]
          /\ alive' = [alive EXCEPT ![task[w]] = FALSE]
      BY <1>21, <2>5 DEF RetryOrFailJob, LetGo
    <3> QED
      BY <2>1, <2>2, <3>2, <3>3 DEF TypeOK, JobStatus
  <2> QED
    BY <2>3, <2>4, <2>5
<1>22. ASSUME NEW w \in Workers, NEW j \in Jobs, ReadCandidate(w, j)
      PROVE  TypeOK'
  BY <1>22 DEF ReadCandidate, Schedulable
<1>23. ASSUME NEW w \in Workers, NEW j \in Jobs, Claim(w, j)
      PROVE  TypeOK'
  BY <1>23 DEF Claim, Claimable, Expired, Enter
<1>24. ASSUME NEW j \in Jobs, CancelReminderJob(j)
      PROVE  TypeOK'
  BY <1>24 DEF CancelReminderJob
<1>25. CASE UNCHANGED vars
  BY <1>25 DEF vars
<1> QED
  BY <1>1, <1>2, <1>3, <1>4, <1>5, <1>6, <1>7, <1>8, <1>9,
     <1>10, <1>11, <1>12, <1>13, <1>14, <1>15, <1>16, <1>17, <1>18,
     <1>19, <1>20, <1>21, <1>22, <1>23, <1>24, <1>25
   DEF Next, JobStep, WorkerStep

\* A handler's knowledge survives every step of every other actor.
LEMMA StepTasksKnown == TypeOK /\ TasksKnown /\ [Next]_vars => TasksKnown'
<1> SUFFICES ASSUME TypeOK, TasksKnown, [Next]_vars PROVE TasksKnown'
  OBVIOUS
<1> USE NullAssumption, RecurringAssumption
<1> USE DEF TypeOK, TasksKnown, JobStatus, Phases, Handling,
           rowVars, workerVars
<1>1. ASSUME NEW j \in Jobs, WorkArises(j)
      PROVE  TasksKnown'
  BY <1>1 DEF WorkArises, Enqueue, Schedulable, Queue
<1>2. ASSUME NEW j \in Jobs, WorkDoneElsewhere(j)
      PROVE  TasksKnown'
  BY <1>2 DEF WorkDoneElsewhere
<1>3. ASSUME NEW j \in Jobs, RetryRefundJob(j)
      PROVE  TasksKnown'
  BY <1>3 DEF RetryRefundJob, Queue, RetryBusy
<1>4. ASSUME NEW j \in Jobs, ReconcileNow(j)
      PROVE  TasksKnown'
  BY <1>4 DEF ReconcileNow, Schedulable, Queue
<1>5. ASSUME NEW j \in Jobs, RetryRecoveryJob(j)
      PROVE  TasksKnown'
  BY <1>5 DEF RetryRecoveryJob, Queue
<1>6. ASSUME NEW j \in Jobs, RunAtReached(j)
      PROVE  TasksKnown'
  BY <1>6 DEF RunAtReached
<1>7. ASSUME NEW j \in Jobs, LeaseExpires(j)
      PROVE  TasksKnown'
  BY <1>7 DEF LeaseExpires
<1>8. ASSUME NEW w \in Workers, StartPass(w)
      PROVE  TasksKnown'
  BY <1>8 DEF StartPass, Expired, Exhausted, Enter
<1>9. ASSUME NEW w \in Workers, Schedule(w)
      PROVE  TasksKnown'
  BY <1>9 DEF Schedule, Enqueue, Schedulable, Queue
<1>10. ASSUME NEW w \in Workers, StartLoop(w)
      PROVE  TasksKnown'
  BY <1>10 DEF StartLoop, Enter
<1>11. ASSUME NEW w \in Workers, EndPass(w)
      PROVE  TasksKnown'
  BY <1>11 DEF EndPass, Enter
<1>12. ASSUME NEW w \in Workers, Crash(w)
      PROVE  TasksKnown'
  BY <1>12 DEF Crash, Enter
<1>13. ASSUME NEW w \in Workers, HeartbeatFails(w)
      PROVE  TasksKnown'
  BY <1>13 DEF HeartbeatFails
<1>14. ASSUME NEW w \in Workers, WorkOn(w)
      PROVE  TasksKnown'
  BY <1>14 DEF WorkOn
<1>15. ASSUME NEW w \in Workers, ReadApproved(w)
      PROVE  TasksKnown'
  BY <1>15 DEF ReadApproved
<1>16. ASSUME NEW w \in Workers, ClaimRefund(w)
      PROVE  TasksKnown'
  BY <1>16 DEF ClaimRefund
<1>17. ASSUME NEW w \in Workers, Return(w)
      PROVE  TasksKnown'
  BY <1>17 DEF Return, HandlerDone
<1>18. ASSUME NEW w \in Workers, Yield(w)
      PROVE  TasksKnown'
  BY <1>18 DEF Yield
<1>19. ASSUME NEW w \in Workers, Throw(w)
      PROVE  TasksKnown'
  BY <1>19 DEF Throw
<1>20. ASSUME NEW w \in Workers, FinishJob(w)
      PROVE  TasksKnown'
  BY <1>20 DEF FinishJob, Owns, LetGo, Rejoin, Enter
<1>21. ASSUME NEW w \in Workers, RetryOrFailJob(w)
      PROVE  TasksKnown'
  BY <1>21 DEF RetryOrFailJob, Owns, LetGo, Rejoin, Enter, Exhausted
<1>22. ASSUME NEW w \in Workers, NEW j \in Jobs, ReadCandidate(w, j)
      PROVE  TasksKnown'
  BY <1>22 DEF ReadCandidate, Schedulable
<1>23. ASSUME NEW w \in Workers, NEW j \in Jobs, Claim(w, j)
      PROVE  TasksKnown'
  BY <1>23 DEF Claim, Claimable, Expired, Enter
<1>24. ASSUME NEW j \in Jobs, CancelReminderJob(j)
      PROVE  TasksKnown'
  BY <1>24 DEF CancelReminderJob
<1>25. CASE UNCHANGED vars
  BY <1>25 DEF vars
<1> QED
  BY <1>1, <1>2, <1>3, <1>4, <1>5, <1>6, <1>7, <1>8, <1>9,
     <1>10, <1>11, <1>12, <1>13, <1>14, <1>15, <1>16, <1>17, <1>18,
     <1>19, <1>20, <1>21, <1>22, <1>23, <1>24, <1>25
   DEF Next, JobStep, WorkerStep

LEMMA StepSuccess == TypeOK /\ TasksKnown /\ SuccessMeansDone /\ [Next]_vars => SuccessMeansDone'
<1> SUFFICES ASSUME TypeOK, TasksKnown, SuccessMeansDone, [Next]_vars PROVE SuccessMeansDone'
  OBVIOUS
<1> USE RecurringAssumption
<1> USE DEF TypeOK, TasksKnown, SuccessMeansDone, JobStatus, Phases, Handling,
           rowVars, workerVars
<1>1. ASSUME NEW j \in Jobs, WorkArises(j)
      PROVE  SuccessMeansDone'
  BY <1>1 DEF WorkArises, Enqueue, Schedulable, Queue
<1>2. ASSUME NEW j \in Jobs, WorkDoneElsewhere(j)
      PROVE  SuccessMeansDone'
  BY <1>2 DEF WorkDoneElsewhere
<1>3. ASSUME NEW j \in Jobs, RetryRefundJob(j)
      PROVE  SuccessMeansDone'
  BY <1>3 DEF RetryRefundJob, Queue, RetryBusy
<1>4. ASSUME NEW j \in Jobs, ReconcileNow(j)
      PROVE  SuccessMeansDone'
  BY <1>4 DEF ReconcileNow, Schedulable, Queue
<1>5. ASSUME NEW j \in Jobs, RetryRecoveryJob(j)
      PROVE  SuccessMeansDone'
  BY <1>5 DEF RetryRecoveryJob, Queue
<1>6. ASSUME NEW j \in Jobs, RunAtReached(j)
      PROVE  SuccessMeansDone'
  BY <1>6 DEF RunAtReached
<1>7. ASSUME NEW j \in Jobs, LeaseExpires(j)
      PROVE  SuccessMeansDone'
  BY <1>7 DEF LeaseExpires
<1>8. ASSUME NEW w \in Workers, StartPass(w)
      PROVE  SuccessMeansDone'
  BY <1>8 DEF StartPass, Expired, Exhausted, Enter
<1>9. ASSUME NEW w \in Workers, Schedule(w)
      PROVE  SuccessMeansDone'
  BY <1>9 DEF Schedule, Enqueue, Schedulable, Queue
<1>10. ASSUME NEW w \in Workers, StartLoop(w)
      PROVE  SuccessMeansDone'
  BY <1>10 DEF StartLoop, Enter
<1>11. ASSUME NEW w \in Workers, EndPass(w)
      PROVE  SuccessMeansDone'
  BY <1>11 DEF EndPass, Enter
<1>12. ASSUME NEW w \in Workers, Crash(w)
      PROVE  SuccessMeansDone'
  BY <1>12 DEF Crash, Enter
<1>13. ASSUME NEW w \in Workers, HeartbeatFails(w)
      PROVE  SuccessMeansDone'
  BY <1>13 DEF HeartbeatFails
<1>14. ASSUME NEW w \in Workers, WorkOn(w)
      PROVE  SuccessMeansDone'
  BY <1>14 DEF WorkOn
<1>15. ASSUME NEW w \in Workers, ReadApproved(w)
      PROVE  SuccessMeansDone'
  BY <1>15 DEF ReadApproved
<1>16. ASSUME NEW w \in Workers, ClaimRefund(w)
      PROVE  SuccessMeansDone'
  BY <1>16 DEF ClaimRefund
<1>17. ASSUME NEW w \in Workers, Return(w)
      PROVE  SuccessMeansDone'
  BY <1>17 DEF Return, HandlerDone
<1>18. ASSUME NEW w \in Workers, Yield(w)
      PROVE  SuccessMeansDone'
  BY <1>18 DEF Yield
<1>19. ASSUME NEW w \in Workers, Throw(w)
      PROVE  SuccessMeansDone'
  BY <1>19 DEF Throw
<1>20. ASSUME NEW w \in Workers, FinishJob(w)
      PROVE  SuccessMeansDone'
  BY <1>20 DEF FinishJob, Owns, LetGo, Rejoin, Enter
<1>21. ASSUME NEW w \in Workers, RetryOrFailJob(w)
      PROVE  SuccessMeansDone'
  BY <1>21 DEF RetryOrFailJob, Owns, LetGo, Rejoin, Enter, Exhausted
<1>22. ASSUME NEW w \in Workers, NEW j \in Jobs, ReadCandidate(w, j)
      PROVE  SuccessMeansDone'
  BY <1>22 DEF ReadCandidate, Schedulable
<1>23. ASSUME NEW w \in Workers, NEW j \in Jobs, Claim(w, j)
      PROVE  SuccessMeansDone'
  BY <1>23 DEF Claim, Claimable, Expired, Enter
<1>24. ASSUME NEW j \in Jobs, CancelReminderJob(j)
      PROVE  SuccessMeansDone'
  BY <1>24 DEF CancelReminderJob
<1>25. CASE UNCHANGED vars
  BY <1>25 DEF vars
<1> QED
  BY <1>1, <1>2, <1>3, <1>4, <1>5, <1>6, <1>7, <1>8, <1>9,
     <1>10, <1>11, <1>12, <1>13, <1>14, <1>15, <1>16, <1>17, <1>18,
     <1>19, <1>20, <1>21, <1>22, <1>23, <1>24, <1>25
   DEF Next, JobStep, WorkerStep

LEMMA StepCancelled == TypeOK /\ TasksKnown /\ CancelledIsVoid /\ [Next]_vars => CancelledIsVoid'
<1> SUFFICES ASSUME TypeOK, TasksKnown, CancelledIsVoid, [Next]_vars PROVE CancelledIsVoid'
  OBVIOUS
<1> USE RecurringAssumption
<1> USE DEF TypeOK, TasksKnown, CancelledIsVoid, JobStatus, Phases, Handling,
           rowVars, workerVars
<1>1. ASSUME NEW j \in Jobs, WorkArises(j)
      PROVE  CancelledIsVoid'
  BY <1>1 DEF WorkArises, Enqueue, Schedulable, Queue
<1>2. ASSUME NEW j \in Jobs, WorkDoneElsewhere(j)
      PROVE  CancelledIsVoid'
  BY <1>2 DEF WorkDoneElsewhere
<1>3. ASSUME NEW j \in Jobs, RetryRefundJob(j)
      PROVE  CancelledIsVoid'
  BY <1>3 DEF RetryRefundJob, Queue, RetryBusy
<1>4. ASSUME NEW j \in Jobs, ReconcileNow(j)
      PROVE  CancelledIsVoid'
  BY <1>4 DEF ReconcileNow, Schedulable, Queue
<1>5. ASSUME NEW j \in Jobs, RetryRecoveryJob(j)
      PROVE  CancelledIsVoid'
  BY <1>5 DEF RetryRecoveryJob, Queue
<1>6. ASSUME NEW j \in Jobs, RunAtReached(j)
      PROVE  CancelledIsVoid'
  BY <1>6 DEF RunAtReached
<1>7. ASSUME NEW j \in Jobs, LeaseExpires(j)
      PROVE  CancelledIsVoid'
  BY <1>7 DEF LeaseExpires
<1>8. ASSUME NEW w \in Workers, StartPass(w)
      PROVE  CancelledIsVoid'
  BY <1>8 DEF StartPass, Expired, Exhausted, Enter
<1>9. ASSUME NEW w \in Workers, Schedule(w)
      PROVE  CancelledIsVoid'
  BY <1>9 DEF Schedule, Enqueue, Schedulable, Queue
<1>10. ASSUME NEW w \in Workers, StartLoop(w)
      PROVE  CancelledIsVoid'
  BY <1>10 DEF StartLoop, Enter
<1>11. ASSUME NEW w \in Workers, EndPass(w)
      PROVE  CancelledIsVoid'
  BY <1>11 DEF EndPass, Enter
<1>12. ASSUME NEW w \in Workers, Crash(w)
      PROVE  CancelledIsVoid'
  BY <1>12 DEF Crash, Enter
<1>13. ASSUME NEW w \in Workers, HeartbeatFails(w)
      PROVE  CancelledIsVoid'
  BY <1>13 DEF HeartbeatFails
<1>14. ASSUME NEW w \in Workers, WorkOn(w)
      PROVE  CancelledIsVoid'
  BY <1>14 DEF WorkOn
<1>15. ASSUME NEW w \in Workers, ReadApproved(w)
      PROVE  CancelledIsVoid'
  BY <1>15 DEF ReadApproved
<1>16. ASSUME NEW w \in Workers, ClaimRefund(w)
      PROVE  CancelledIsVoid'
  BY <1>16 DEF ClaimRefund
<1>17. ASSUME NEW w \in Workers, Return(w)
      PROVE  CancelledIsVoid'
  BY <1>17 DEF Return, HandlerDone
<1>18. ASSUME NEW w \in Workers, Yield(w)
      PROVE  CancelledIsVoid'
  BY <1>18 DEF Yield
<1>19. ASSUME NEW w \in Workers, Throw(w)
      PROVE  CancelledIsVoid'
  BY <1>19 DEF Throw
<1>20. ASSUME NEW w \in Workers, FinishJob(w)
      PROVE  CancelledIsVoid'
  BY <1>20 DEF FinishJob, Owns, LetGo, Rejoin, Enter
<1>21. ASSUME NEW w \in Workers, RetryOrFailJob(w)
      PROVE  CancelledIsVoid'
  BY <1>21 DEF RetryOrFailJob, Owns, LetGo, Rejoin, Enter, Exhausted
<1>22. ASSUME NEW w \in Workers, NEW j \in Jobs, ReadCandidate(w, j)
      PROVE  CancelledIsVoid'
  BY <1>22 DEF ReadCandidate, Schedulable
<1>23. ASSUME NEW w \in Workers, NEW j \in Jobs, Claim(w, j)
      PROVE  CancelledIsVoid'
  BY <1>23 DEF Claim, Claimable, Expired, Enter
<1>24. ASSUME NEW j \in Jobs, CancelReminderJob(j)
      PROVE  CancelledIsVoid'
  BY <1>24 DEF CancelReminderJob
<1>25. CASE UNCHANGED vars
  BY <1>25 DEF vars
<1> QED
  BY <1>1, <1>2, <1>3, <1>4, <1>5, <1>6, <1>7, <1>8, <1>9,
     <1>10, <1>11, <1>12, <1>13, <1>14, <1>15, <1>16, <1>17, <1>18,
     <1>19, <1>20, <1>21, <1>22, <1>23, <1>24, <1>25
   DEF Next, JobStep, WorkerStep

LEMMA StepStranded == TypeOK /\ TasksKnown /\ NeverStranded /\ [Next]_vars => NeverStranded'
<1> SUFFICES ASSUME TypeOK, TasksKnown, NeverStranded, [Next]_vars PROVE NeverStranded'
  OBVIOUS
<1> USE BoundsAssumption
<1> USE DEF TypeOK, TasksKnown, NeverStranded, JobStatus, Phases, Handling,
           rowVars, workerVars
<1>1. ASSUME NEW j \in Jobs, WorkArises(j)
      PROVE  NeverStranded'
  BY <1>1 DEF WorkArises, Enqueue, Schedulable, Queue
<1>2. ASSUME NEW j \in Jobs, WorkDoneElsewhere(j)
      PROVE  NeverStranded'
  BY <1>2 DEF WorkDoneElsewhere
<1>3. ASSUME NEW j \in Jobs, RetryRefundJob(j)
      PROVE  NeverStranded'
  BY <1>3 DEF RetryRefundJob, Queue, RetryBusy
<1>4. ASSUME NEW j \in Jobs, ReconcileNow(j)
      PROVE  NeverStranded'
  BY <1>4 DEF ReconcileNow, Schedulable, Queue
<1>5. ASSUME NEW j \in Jobs, RetryRecoveryJob(j)
      PROVE  NeverStranded'
  BY <1>5 DEF RetryRecoveryJob, Queue
<1>6. ASSUME NEW j \in Jobs, RunAtReached(j)
      PROVE  NeverStranded'
  BY <1>6 DEF RunAtReached
<1>7. ASSUME NEW j \in Jobs, LeaseExpires(j)
      PROVE  NeverStranded'
  BY <1>7 DEF LeaseExpires
<1>8. ASSUME NEW w \in Workers, StartPass(w)
      PROVE  NeverStranded'
  <2> SUFFICES ASSUME NEW j \in Jobs PROVE status'[j] = "FAILED" <=> failures'[j] = MaxAttempts
    BY DEF NeverStranded
  <2>1. failures[j] \in 0 .. MaxAttempts /\ (status[j] = "FAILED" <=> failures[j] = MaxAttempts)
    BY DEF TypeOK, NeverStranded
  <2>2. CASE ~Expired(j)
    BY <1>8, <2>1, <2>2 DEF StartPass
  <2>3. CASE Expired(j)
    <3>1. failures'[j] = failures[j] + 1 /\ failures[j] < MaxAttempts
      BY <1>8, <2>1, <2>3 DEF StartPass, Expired
    <3>2. status'[j] = IF Exhausted(j) THEN "FAILED" ELSE "PENDING"
      BY <1>8, <2>3 DEF StartPass
    <3> QED
      BY <2>1, <3>1, <3>2 DEF Exhausted
  <2> QED
    BY <2>2, <2>3
<1>9. ASSUME NEW w \in Workers, Schedule(w)
      PROVE  NeverStranded'
  BY <1>9 DEF Schedule, Enqueue, Schedulable, Queue
<1>10. ASSUME NEW w \in Workers, StartLoop(w)
      PROVE  NeverStranded'
  BY <1>10 DEF StartLoop, Enter
<1>11. ASSUME NEW w \in Workers, EndPass(w)
      PROVE  NeverStranded'
  BY <1>11 DEF EndPass, Enter
<1>12. ASSUME NEW w \in Workers, Crash(w)
      PROVE  NeverStranded'
  BY <1>12 DEF Crash, Enter
<1>13. ASSUME NEW w \in Workers, HeartbeatFails(w)
      PROVE  NeverStranded'
  BY <1>13 DEF HeartbeatFails
<1>14. ASSUME NEW w \in Workers, WorkOn(w)
      PROVE  NeverStranded'
  BY <1>14 DEF WorkOn
<1>15. ASSUME NEW w \in Workers, ReadApproved(w)
      PROVE  NeverStranded'
  BY <1>15 DEF ReadApproved
<1>16. ASSUME NEW w \in Workers, ClaimRefund(w)
      PROVE  NeverStranded'
  BY <1>16 DEF ClaimRefund
<1>17. ASSUME NEW w \in Workers, Return(w)
      PROVE  NeverStranded'
  BY <1>17 DEF Return, HandlerDone
<1>18. ASSUME NEW w \in Workers, Yield(w)
      PROVE  NeverStranded'
  BY <1>18 DEF Yield
<1>19. ASSUME NEW w \in Workers, Throw(w)
      PROVE  NeverStranded'
  BY <1>19 DEF Throw
<1>20. ASSUME NEW w \in Workers, FinishJob(w)
      PROVE  NeverStranded'
  BY <1>20 DEF FinishJob, Owns, LetGo, Rejoin, Enter
<1>21. ASSUME NEW w \in Workers, RetryOrFailJob(w)
      PROVE  NeverStranded'
  <2> SUFFICES ASSUME NEW j \in Jobs PROVE status'[j] = "FAILED" <=> failures'[j] = MaxAttempts
    BY DEF NeverStranded
  <2>1. failures[j] \in 0 .. MaxAttempts /\ (status[j] = "FAILED" <=> failures[j] = MaxAttempts)
    BY DEF TypeOK, NeverStranded
  <2>2. CASE ~Owns(w) \/ task[w] # j
    BY <1>21, <2>1, <2>2 DEF TypeOK, RetryOrFailJob, LetGo, rowVars
  <2>3. CASE Owns(w) /\ task[w] = j /\ phase[w] = "yielded"
    BY <1>21, <2>1, <2>3 DEF TypeOK, RetryOrFailJob, LetGo, Owns
  <2>4. CASE Owns(w) /\ task[w] = j /\ phase[w] # "yielded"
    <3>1. failures'[j] = failures[j] + 1 /\ failures[j] < MaxAttempts
      BY <1>21, <2>1, <2>4 DEF TypeOK, RetryOrFailJob, Owns
    <3>2. status'[j] = IF Exhausted(j) THEN "FAILED" ELSE "PENDING"
      BY <1>21, <2>4 DEF TypeOK, RetryOrFailJob, LetGo
    <3> QED
      BY <2>1, <3>1, <3>2 DEF Exhausted
  <2> QED
    BY <2>2, <2>3, <2>4
<1>22. ASSUME NEW w \in Workers, NEW j \in Jobs, ReadCandidate(w, j)
      PROVE  NeverStranded'
  BY <1>22 DEF ReadCandidate, Schedulable
<1>23. ASSUME NEW w \in Workers, NEW j \in Jobs, Claim(w, j)
      PROVE  NeverStranded'
  BY <1>23 DEF Claim, Claimable, Expired, Enter
<1>24. ASSUME NEW j \in Jobs, CancelReminderJob(j)
      PROVE  NeverStranded'
  BY <1>24 DEF CancelReminderJob
<1>25. CASE UNCHANGED vars
  BY <1>25 DEF vars
<1> QED
  BY <1>1, <1>2, <1>3, <1>4, <1>5, <1>6, <1>7, <1>8, <1>9,
     <1>10, <1>11, <1>12, <1>13, <1>14, <1>15, <1>16, <1>17, <1>18,
     <1>19, <1>20, <1>21, <1>22, <1>23, <1>24, <1>25
   DEF Next, JobStep, WorkerStep

LEMMA QueueInvariant == Spec => []QueueInv
<1>1. Init => QueueInv
  BY InitTypeOK, BoundsAssumption
  DEF Init, QueueInv, TasksKnown, SuccessMeansDone, CancelledIsVoid, NeverStranded, Handling
<1>2. QueueInv /\ [Next]_vars => QueueInv'
  BY StepTypeOK, StepTasksKnown, StepSuccess, StepCancelled, StepStranded DEF QueueInv
<1> QED
  BY <1>1, <1>2, PTL DEF Spec

\* Every variable of the queue keeps its type; failureAttempts never exceeds
\* maxAttempts, although claims, retries and recovery all change it.
THEOREM TypeCorrect == Spec => []TypeOK
<1>1. QueueInv => TypeOK
  BY DEF QueueInv
<1> QED
  BY <1>1, QueueInvariant, PTL

\* For any number of workers working on one job at once, a success that one of
\* them records leaves no work behind.
THEOREM SuccessIsDone == Spec => []SuccessMeansDone
<1>1. QueueInv => SuccessMeansDone
  BY DEF QueueInv
<1> QED
  BY <1>1, QueueInvariant, PTL

\* A job that has not ended stays claimable, and fails exactly at its limit.
THEOREM JobsNeverStranded == Spec => []NeverStranded
<1>1. QueueInv => NeverStranded
  BY DEF QueueInv
<1> QED
  BY <1>1, QueueInvariant, PTL

LeaseStep ==
  \A j \in Jobs :
    /\ status[j] = "RUNNING" /\ alive[j] /\ <<status'[j], lease'[j]>> # <<status[j], lease[j]>> =>
         \/ \E w \in Workers : lease[j] = w /\ task[w] = j /\ task'[w] = NoJob
         \/ j \in ReminderJobs /\ status'[j] = "CANCELLED" /\ UNCHANGED workerVars
    /\ status[j] = "CANCELLED" =>
         <<status'[j], lease'[j], work'[j]>> = <<status[j], lease[j], work[j]>>

LEMMA StepLease == QueueInv /\ [Next]_vars => LeaseStep
<1> SUFFICES ASSUME TypeOK, TasksKnown, CancelledIsVoid, [Next]_vars PROVE LeaseStep
  BY DEF QueueInv
<1> USE RecurringAssumption
<1> USE DEF TypeOK, TasksKnown, CancelledIsVoid, LeaseStep, JobStatus, Phases, Handling,
           rowVars, workerVars
<1>1. ASSUME NEW j \in Jobs, WorkArises(j)
      PROVE  LeaseStep
  BY <1>1 DEF WorkArises, Enqueue, Schedulable, Queue
<1>2. ASSUME NEW j \in Jobs, WorkDoneElsewhere(j)
      PROVE  LeaseStep
  BY <1>2 DEF WorkDoneElsewhere
<1>3. ASSUME NEW j \in Jobs, RetryRefundJob(j)
      PROVE  LeaseStep
  BY <1>3 DEF RetryRefundJob, Queue, RetryBusy
<1>4. ASSUME NEW j \in Jobs, ReconcileNow(j)
      PROVE  LeaseStep
  BY <1>4 DEF ReconcileNow, Schedulable, Queue
<1>5. ASSUME NEW j \in Jobs, RetryRecoveryJob(j)
      PROVE  LeaseStep
  BY <1>5 DEF RetryRecoveryJob, Queue
<1>6. ASSUME NEW j \in Jobs, RunAtReached(j)
      PROVE  LeaseStep
  BY <1>6 DEF RunAtReached
<1>7. ASSUME NEW j \in Jobs, LeaseExpires(j)
      PROVE  LeaseStep
  BY <1>7 DEF LeaseExpires
<1>8. ASSUME NEW w \in Workers, StartPass(w)
      PROVE  LeaseStep
  BY <1>8 DEF StartPass, Expired, Exhausted, Enter
<1>9. ASSUME NEW w \in Workers, Schedule(w)
      PROVE  LeaseStep
  BY <1>9 DEF Schedule, Enqueue, Schedulable, Queue
<1>10. ASSUME NEW w \in Workers, StartLoop(w)
      PROVE  LeaseStep
  BY <1>10 DEF StartLoop, Enter
<1>11. ASSUME NEW w \in Workers, EndPass(w)
      PROVE  LeaseStep
  BY <1>11 DEF EndPass, Enter
<1>12. ASSUME NEW w \in Workers, Crash(w)
      PROVE  LeaseStep
  BY <1>12 DEF Crash, Enter
<1>13. ASSUME NEW w \in Workers, HeartbeatFails(w)
      PROVE  LeaseStep
  BY <1>13 DEF HeartbeatFails
<1>14. ASSUME NEW w \in Workers, WorkOn(w)
      PROVE  LeaseStep
  BY <1>14 DEF WorkOn
<1>15. ASSUME NEW w \in Workers, ReadApproved(w)
      PROVE  LeaseStep
  BY <1>15 DEF ReadApproved
<1>16. ASSUME NEW w \in Workers, ClaimRefund(w)
      PROVE  LeaseStep
  BY <1>16 DEF ClaimRefund
<1>17. ASSUME NEW w \in Workers, Return(w)
      PROVE  LeaseStep
  BY <1>17 DEF Return, HandlerDone
<1>18. ASSUME NEW w \in Workers, Yield(w)
      PROVE  LeaseStep
  BY <1>18 DEF Yield
<1>19. ASSUME NEW w \in Workers, Throw(w)
      PROVE  LeaseStep
  BY <1>19 DEF Throw
<1>20. ASSUME NEW w \in Workers, FinishJob(w)
      PROVE  LeaseStep
  BY <1>20 DEF FinishJob, Owns, LetGo, Rejoin, Enter
<1>21. ASSUME NEW w \in Workers, RetryOrFailJob(w)
      PROVE  LeaseStep
  BY <1>21 DEF RetryOrFailJob, Owns, LetGo, Rejoin, Enter, Exhausted
<1>22. ASSUME NEW w \in Workers, NEW j \in Jobs, ReadCandidate(w, j)
      PROVE  LeaseStep
  BY <1>22 DEF ReadCandidate, Schedulable
<1>23. ASSUME NEW w \in Workers, NEW j \in Jobs, Claim(w, j)
      PROVE  LeaseStep
  BY <1>23 DEF Claim, Claimable, Expired, Enter
<1>24. ASSUME NEW j \in Jobs, CancelReminderJob(j)
      PROVE  LeaseStep
  BY <1>24 DEF CancelReminderJob
<1>25. CASE UNCHANGED vars
  BY <1>25 DEF vars
<1> QED
  BY <1>1, <1>2, <1>3, <1>4, <1>5, <1>6, <1>7, <1>8, <1>9,
     <1>10, <1>11, <1>12, <1>13, <1>14, <1>15, <1>16, <1>17, <1>18,
     <1>19, <1>20, <1>21, <1>22, <1>23, <1>24, <1>25
   DEF Next, JobStep, WorkerStep

\* While a lease is alive only its holder ends the job or gives it up, unless it
\* is a reminder's that cancelSavedReminders or refreshEventReminders cancels; the
\* worker of a cancelled job can neither revive it nor do its work.
THEOREM LeasesHold == Spec => LeaseRespected
<1>1. QueueInv /\ [Next]_vars => [LeaseStep]_vars
  BY StepLease
<1>2. [][LeaseStep]_vars => LeaseRespected
  BY PTL DEF LeaseStep, LeaseRespected
<1> QED
  BY <1>1, <1>2, QueueInvariant, PTL DEF Spec
=============================================================================
