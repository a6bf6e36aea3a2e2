------------------------------ MODULE JobQueue ------------------------------
(***************************************************************************)
(* Durable jobs and the maintenance workers that run them under leases.    *)
(* Each worker repeats passes: it counts expired leases as failures,       *)
(* schedules wanted work, then claims due jobs one at a time.  Handlers    *)
(* run outside the job's row, so a worker may find its lease gone, or      *)
(* another worker on the same job, when it comes to record the result.     *)
(* Attendees and organizers cancel jobs of reminders, running ones too.    *)
(***************************************************************************)
EXTENDS Integers

CONSTANTS
  Workers,     \* worker processes
  Jobs,        \* deduplication keys: one job for one piece of work
  Recurring,   \* refund reconciliations, whose work may come back
  ReminderJobs, \* SEND_EVENT_REMINDER and REFRESH_EVENT_REMINDERS
  MaxAttempts, \* maxAttempts of every job
  MaxWork,     \* bound: batches the work of a job takes
  NoJob, NoWorker

ASSUME RecurringAssumption == Recurring \subseteq Jobs /\ ReminderJobs \subseteq Jobs \ Recurring
ASSUME BoundsAssumption == MaxAttempts \in Nat \ {0} /\ MaxWork \in Nat \ {0}
ASSUME NullAssumption == NoJob \notin Jobs /\ NoWorker \notin Workers

VARIABLES
  work,     \* batches of work left behind each job: orders to release, a refund to settle
  status,   \* status of each job
  due,      \* runAt has been reached
  failures, \* failureAttempts
  lease,    \* the worker whose claim the leaseToken stands for
  alive,    \* leaseExpiresAt lies in the future
  phase,    \* what each worker is doing
  task,     \* the job it schedules or works on
  lost      \* lostLease: a heartbeat did not renew

rowVars == <<status, due, failures, lease, alive>>
workerVars == <<phase, task, lost>>
vars == <<work, rowVars, workerVars>>

JobStatus == {"ABSENT", "PENDING", "RUNNING", "SUCCEEDED", "FAILED", "CANCELLED"}
Handling == {"working", "starting", "finished", "yielded", "failed"}
Phases == {"resting", "scheduling", "looping"} \cup Handling

TypeOK ==
  /\ work \in [Jobs -> 0 .. MaxWork]
  /\ status \in [Jobs -> JobStatus]
  /\ due \in [Jobs -> BOOLEAN]
  /\ failures \in [Jobs -> 0 .. MaxAttempts]
  /\ lease \in [Jobs -> Workers \cup {NoWorker}]
  /\ alive \in [Jobs -> BOOLEAN]
  /\ phase \in [Workers -> Phases]
  /\ task \in [Workers -> Jobs \cup {NoJob}]
  /\ lost \in [Workers -> BOOLEAN]

Init ==
  /\ work = [j \in Jobs |-> 0]
  /\ status = [j \in Jobs |-> "ABSENT"]
  /\ due = [j \in Jobs |-> FALSE]
  /\ failures = [j \in Jobs |-> 0]
  /\ lease = [j \in Jobs |-> NoWorker]
  /\ alive = [j \in Jobs |-> FALSE]
  /\ phase = [w \in Workers |-> "resting"]
  /\ task = [w \in Workers |-> NoJob]
  /\ lost = [w \in Workers |-> FALSE]

-----------------------------------------------------------------------------
(* Job rows.                                                               *)

\* The job is pending, from now on, and nobody holds it.
Queue(j) ==
  /\ status' = [status EXCEPT ![j] = "PENDING"]
  /\ due' = [due EXCEPT ![j] = TRUE]
  /\ lease' = [lease EXCEPT ![j] = NoWorker]
  /\ alive' = [alive EXCEPT ![j] = FALSE]

Schedulable_New(j) == status[j] = "ABSENT"                \* mutant: every job runs once
\* Only work without a job, or a recurring job that has run, is scheduled.
Schedulable(j) == status[j] = "ABSENT" \/ (j \in Recurring /\ status[j] = "SUCCEEDED")

\* enqueueOnce.
Enqueue(j) ==
  IF Schedulable(j) THEN Queue(j) ELSE UNCHANGED <<status, due, lease, alive>>

\* Work arises: a reservation lapses or an event ends, or a transaction, such
\* as cancelEvent's, creates the job along with its work.  Reminders always come
\* with their job, for later or, if rows have to be planned anew, for now.
WorkArises(j) ==
  /\ status[j] = "ABSENT" /\ work[j] = 0
  /\ \E n \in 1 .. MaxWork : work' = [work EXCEPT ![j] = n]
  /\ \/ Enqueue(j)
     \/ j \notin ReminderJobs /\ UNCHANGED <<status, due, lease, alive>>
     \/ /\ j \in ReminderJobs
        /\ status' = [status EXCEPT ![j] = "PENDING"]
        /\ UNCHANGED <<due, lease, alive>>
  /\ UNCHANGED <<failures, workerVars>>

\* cancelSavedReminders, and refreshEventReminders in transactions that change the
\* event: whatever was planned is void, even while a worker holds its lease.  The
\* plan that takes its place has jobs of its own.
CancelReminderJob(j) ==
  /\ j \in ReminderJobs /\ status[j] \in {"PENDING", "RUNNING"}
  /\ work' = [work EXCEPT ![j] = 0]
  /\ status' = [status EXCEPT ![j] = "CANCELLED"]
  /\ lease' = [lease EXCEPT ![j] = NoWorker]
  /\ alive' = [alive EXCEPT ![j] = FALSE]
  /\ UNCHANGED <<due, failures, workerVars>>

\* An attendee, a callback or an administrator does the work instead.
WorkDoneElsewhere(j) ==
  /\ work[j] > 0
  /\ work' = [work EXCEPT ![j] = 0]
  /\ UNCHANGED <<rowVars, workerVars>>

RetryBusy(j) == status[j] = "RUNNING" /\ alive[j]

\* queueRefundRetry: an administrator restarts a refund that failed.
RetryRefundJob(j) ==
  /\ j \in Recurring /\ status[j] # "ABSENT" /\ work[j] = 0 /\ ~RetryBusy(j)
  /\ work' = [work EXCEPT ![j] = 1]
  /\ Queue(j)
  /\ failures' = [failures EXCEPT ![j] = 0]
  /\ UNCHANGED workerVars

\* scheduleAdminReconciliation: an administrator asks for a refund's next lookup now.
ReconcileNow(j) ==
  /\ j \in Recurring /\ work[j] > 0 /\ Schedulable(j)
  /\ Queue(j)
  /\ UNCHANGED <<work, failures, workerVars>>

\* retryRecoveryJob: an operator restarts a failed job that is still needed.
RetryRecoveryJob(j) ==
  /\ status[j] = "FAILED" /\ work[j] > 0
  /\ Queue(j)
  /\ failures' = [failures EXCEPT ![j] = 0]
  /\ UNCHANGED <<work, workerVars>>

RunAtReached(j) ==
  /\ status[j] = "PENDING" /\ ~due[j]
  /\ due' = [due EXCEPT ![j] = TRUE]
  /\ UNCHANGED <<work, status, failures, lease, alive, workerVars>>

\* Sixty seconds pass without a renewal.
LeaseExpires(j) ==
  /\ status[j] = "RUNNING" /\ alive[j]
  /\ alive' = [alive EXCEPT ![j] = FALSE]
  /\ UNCHANGED <<work, status, due, failures, lease, workerVars>>

-----------------------------------------------------------------------------
(* A worker's pass.                                                        *)

Enter(w, p, j) ==
  phase' = [phase EXCEPT ![w] = p] /\ task' = [task EXCEPT ![w] = j]

Exhausted_OffByOne(j) == failures[j] + 1 > MaxAttempts    \* mutant
Exhausted(j) == failures[j] + 1 >= MaxAttempts

Expired_AnyStatus(j) == status[j] # "ABSENT" /\ ~alive[j] \* mutant
Expired(j) == status[j] = "RUNNING" /\ ~alive[j]

\* The first statement of a pass: every expired lease counts as a failure.
StartPass(w) ==
  LET expired == {j \in Jobs : Expired(j)} IN
  /\ phase[w] = "resting"
  /\ status' = [j \in Jobs |->
                  IF j \notin expired THEN status[j]
                  ELSE IF Exhausted(j) THEN "FAILED" ELSE "PENDING"]
  /\ failures' = [j \in Jobs |-> IF j \in expired THEN failures[j] + 1 ELSE failures[j]]
  /\ due' = [j \in Jobs |-> due[j] /\ j \notin expired]
  /\ lease' = [j \in Jobs |-> IF j \in expired THEN NoWorker ELSE lease[j]]
  /\ Enter(w, "scheduling", NoJob)
  /\ UNCHANGED <<work, alive, lost>>

\* scheduleMaintenanceJobs reads what is wanted, then queues it one by one.
ReadCandidate(w, j) ==
  /\ phase[w] = "scheduling" /\ task[w] = NoJob
  /\ work[j] > 0 /\ Schedulable(j)
  /\ task' = [task EXCEPT ![w] = j]
  /\ UNCHANGED <<work, rowVars, phase, lost>>

Schedule(w) ==
  /\ phase[w] = "scheduling" /\ task[w] # NoJob
  /\ Enqueue(task[w])
  /\ task' = [task EXCEPT ![w] = NoJob]
  /\ UNCHANGED <<work, failures, phase, lost>>

StartLoop(w) ==
  /\ phase[w] = "scheduling" /\ task[w] = NoJob
  /\ Enter(w, "looping", NoJob)
  /\ UNCHANGED <<work, rowVars, lost>>

Claimable(j) ==
  /\ \/ status[j] = "PENDING" /\ due[j]
     \/ Expired(j)
  /\ failures[j] < MaxAttempts

\* claimNextJob: one due job, with a lease of its own; taking over an expired
\* lease here counts nothing against the job.
Claim(w, j) ==
  /\ phase[w] = "looping"
  /\ Claimable(j)
  /\ status' = [status EXCEPT ![j] = "RUNNING"]
  /\ lease' = [lease EXCEPT ![j] = w]
  /\ alive' = [alive EXCEPT ![j] = TRUE]
  /\ Enter(w, "working", j)
  /\ UNCHANGED <<work, due, failures, lost>>

\* A heartbeat finds the lease gone, or does not reach the database.
HeartbeatFails(w) ==
  /\ phase[w] \in {"working", "starting"} /\ ~lost[w]
  /\ lost' = [lost EXCEPT ![w] = TRUE]
  /\ UNCHANGED <<work, rowVars, phase, task>>

Owns_Anyone(w) == status[task[w]] = "RUNNING"             \* mutant
\* ownedLease: the row is running under this claim, and not expired.
Owns(w) == status[task[w]] = "RUNNING" /\ lease[task[w]] = w /\ alive[task[w]]

\* One batch of the handler's work.  Only the transactions of reminders look at
\* the lease.
WorkOn(w) ==
  /\ phase[w] = "working" /\ work[task[w]] > 0
  /\ task[w] \in ReminderJobs => Owns(w)
  /\ work' = [work EXCEPT ![task[w]] = @ - 1]
  /\ UNCHANGED <<rowVars, workerVars>>

\* reconcileRefund reads an approved refund and only then claims it; the claim
\* also admits a refund that has failed meanwhile, and starts it again.
ReadApproved(w) ==
  /\ phase[w] = "working" /\ task[w] \in Recurring /\ work[task[w]] > 0
  /\ phase' = [phase EXCEPT ![w] = "starting"]
  /\ UNCHANGED <<work, rowVars, task, lost>>

ClaimRefund(w) ==
  /\ phase[w] = "starting"
  /\ phase' = [phase EXCEPT ![w] = "working"]
  /\ \/ UNCHANGED work
     \/ work[task[w]] = 0 /\ work' = [work EXCEPT ![task[w]] = 1]
  /\ UNCHANGED <<rowVars, task, lost>>

HandlerDone_Unchecked(w) == TRUE                          \* mutant: one batch is enough
HandlerDone(w) == work[task[w]] = 0

\* processJob returns only when its work is done ...
Return(w) ==
  /\ phase[w] = "working" /\ HandlerDone(w)
  /\ phase' = [phase EXCEPT ![w] = IF lost[w] THEN "failed" ELSE "finished"]
  /\ UNCHANGED <<work, rowVars, task, lost>>

\* ... asks for another run while there is more, its budget is spent or its
\* lease is lost ...
Yield(w) ==
  /\ phase[w] = "working" /\ work[task[w]] > 0
  /\ phase' = [phase EXCEPT ![w] = "yielded"]
  /\ UNCHANGED <<work, rowVars, task, lost>>

\* ... or throws.
Throw(w) ==
  /\ phase[w] = "working"
  /\ phase' = [phase EXCEPT ![w] = "failed"]
  /\ UNCHANGED <<work, rowVars, task, lost>>

\* The row's lease is given up, and the worker goes back to its loop.
LetGo(w, s) ==
  /\ status' = [status EXCEPT ![task[w]] = s]
  /\ due' = [due EXCEPT ![task[w]] = FALSE]
  /\ lease' = [lease EXCEPT ![task[w]] = NoWorker]
  /\ alive' = [alive EXCEPT ![task[w]] = FALSE]

Rejoin(w) == Enter(w, "looping", NoJob) /\ lost' = [lost EXCEPT ![w] = FALSE]

\* finishJob; without the lease it throws, and the retry changes nothing.
FinishJob(w) ==
  /\ phase[w] = "finished"
  /\ IF Owns(w) THEN LetGo(w, "SUCCEEDED") ELSE UNCHANGED <<status, due, lease, alive>>
  /\ Rejoin(w)
  /\ UNCHANGED <<work, failures>>

\* retryOrFailJob: a reschedule is no failure.
RetryOrFailJob(w) ==
  LET j == task[w] IN
  /\ phase[w] \in {"yielded", "failed"}
  /\ IF ~Owns(w) THEN UNCHANGED rowVars
     ELSE IF phase[w] = "yielded" THEN LetGo(w, "PENDING") /\ UNCHANGED failures
     ELSE /\ LetGo(w, IF Exhausted(j) THEN "FAILED" ELSE "PENDING")
          /\ failures' = [failures EXCEPT ![j] = @ + 1]
  /\ Rejoin(w)
  /\ UNCHANGED work

\* Nothing is due, or the pass has used up its time or its number of jobs.
EndPass(w) ==
  /\ phase[w] \in {"scheduling", "looping"}
  /\ Enter(w, "resting", NoJob)
  /\ UNCHANGED <<work, rowVars, lost>>

\* The process dies, or its pass fails; its next start begins a new pass.
Crash(w) ==
  /\ phase[w] # "resting"
  /\ Enter(w, "resting", NoJob)
  /\ lost' = [lost EXCEPT ![w] = FALSE]
  /\ UNCHANGED <<work, rowVars>>

JobStep(j) ==
  \/ WorkArises(j) \/ WorkDoneElsewhere(j) \/ CancelReminderJob(j)
  \/ RetryRefundJob(j) \/ ReconcileNow(j) \/ RetryRecoveryJob(j)
  \/ RunAtReached(j) \/ LeaseExpires(j)

WorkerStep(w) ==
  \/ StartPass(w) \/ Schedule(w) \/ StartLoop(w) \/ EndPass(w) \/ Crash(w)
  \/ \E j \in Jobs : ReadCandidate(w, j) \/ Claim(w, j)
  \/ HeartbeatFails(w) \/ WorkOn(w) \/ ReadApproved(w) \/ ClaimRefund(w)
  \/ Return(w) \/ Yield(w) \/ Throw(w)
  \/ FinishJob(w) \/ RetryOrFailJob(w)

Next == (\E j \in Jobs : JobStep(j)) \/ (\E w \in Workers : WorkerStep(w))

Spec == Init /\ [][Next]_vars

-----------------------------------------------------------------------------
(* Safety.                                                                 *)

\* Leases hold: as long as a claim's lease is alive nobody but its worker ends,
\* resets or takes over the job, not a worker that claimed it before, another
\* worker's pass, or an administrator; a crashed worker's lease has to run out.
\* Only the jobs of reminders can be cancelled under their worker, and then it is
\* the worker who changes nothing any more: they stay cancelled, and undone.
LeaseRespected ==
  [][\A j \in Jobs :
       /\ status[j] = "RUNNING" /\ alive[j] /\ <<status'[j], lease'[j]>> # <<status[j], lease[j]>> =>
            \/ \E w \in Workers : lease[j] = w /\ task[w] = j /\ task'[w] = NoJob
            \/ j \in ReminderJobs /\ status'[j] = "CANCELLED" /\ UNCHANGED workerVars
       /\ status[j] = "CANCELLED" =>
            <<status'[j], lease'[j], work'[j]>> = <<status[j], lease[j], work[j]>>]_vars

\* A job that succeeded leaves no work behind, although two workers may have
\* worked on it at once and the one that recorded the result may have been idle.
SuccessMeansDone ==
  \A j \in Jobs \ Recurring : status[j] = "SUCCEEDED" => work[j] = 0

\* No job is stranded: one that has not failed can be claimed, now or when it is
\* queued again, and it fails for good exactly at its last allowed failure,
\* whether a worker counts that failure or the recovery of expired leases does.
NeverStranded ==
  \A j \in Jobs : status[j] = "FAILED" <=> failures[j] = MaxAttempts

-----------------------------------------------------------------------------
(* Liveness.  Workers run a pass every minute; they may crash, run out of  *)
(* time or lose their lease at any step, but not at the same one forever.  *)

Fairness ==
  /\ \A j \in Jobs : WF_vars(RunAtReached(j))
  /\ \A j \in Jobs : WF_vars(LeaseExpires(j) /\ \A w \in Workers : task[w] # j)
  /\ \A w \in Workers :
       /\ WF_vars(StartPass(w)) /\ WF_vars(EndPass(w))
       /\ SF_vars(StartLoop(w))
       /\ WF_vars(Return(w)) /\ WF_vars(ClaimRefund(w))
       /\ WF_vars(FinishJob(w)) /\ WF_vars(RetryOrFailJob(w))
       /\ \A j \in Jobs :
            /\ SF_vars(ReadCandidate(w, j)) /\ SF_vars(task[w] = j /\ Schedule(w))
            /\ SF_vars(Claim(w, j)) /\ SF_vars(task[w] = j /\ WorkOn(w))

FairSpec == Spec /\ Fairness

\* Wanted work is done in the end, or its job is visible as failed: no crash,
\* lost lease or lost pass makes the queue forget it.
WorkFinishes ==
  \A j \in Jobs : work[j] > 0 ~> work[j] = 0 \/ status[j] = "FAILED"
=============================================================================
