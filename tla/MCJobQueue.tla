----------------------------- MODULE MCJobQueue -----------------------------
(* Instances of JobQueue small enough for TLC. *)
EXTENDS JobQueue, TLC

CONSTANTS once, again, reminder, w1, w2

WorkersAlike == Permutations(Workers)

\* Bound of job_queue: two of the three jobs have work or a row.
TwoJobs == \E j \in Jobs : status[j] = "ABSENT" /\ work[j] = 0
=============================================================================
