------------------------------ MODULE EmailQueue ------------------------------
(***************************************************************************)
(* The queue of queues/emailQueue.js and the worker of                     *)
(* queues/emailWorker.js.  The queue is BullMQ: a job is run under a lock, *)
(* up to Attempts times when its handler throws, and again when the lock   *)
(* runs out, at most MaxStalls times.  One container runs the worker; its  *)
(* death ends every execution.  An execution that lost its lock goes on    *)
(* all the same and its outcome is ignored.                                *)
(***************************************************************************)
EXTENDS Integers

CONSTANTS
    Jobs,       \* every job that may be queued
    Unsendable, \* those whose handler throws before it reaches the mail server
    Attempts,   \* the attempts option of the jobs, see Notifications!QueueAssumption
    MaxStalls   \* BullMQ's maxStalledCount, which the worker leaves at 1

VARIABLES
    jobs,  \* the job: its state, its failed attempts, its stalls
    run,   \* how far the execution has come that holds the job's lock
    late,  \* executions that lost the lock and have not yet sent
    mails, \* how often the mail server accepted the job's message
    up     \* is the worker process alive

queueVars == <<jobs, run, late, mails, up>>

Absent == [state |-> "absent", failures |-> 0, stalls |-> 0]

Ended == {"completed", "failed"}

QueueInit ==
    /\ jobs = [j \in Jobs |-> Absent]
    /\ run = [j \in Jobs |-> "none"]
    /\ late = [j \in Jobs |-> 0]
    /\ mails = [j \in Jobs |-> 0]
    /\ up = TRUE

\* emailQueue.add of the jobs new; their backoff is left to the scheduling.
Add(new) ==
    /\ jobs' = [j \in Jobs |-> IF j \in new THEN [Absent EXCEPT !.state = "waiting"]
                               ELSE jobs[j]]
    /\ UNCHANGED <<run, late, mails, up>>

\* The worker takes the job and its lock.
Pick(j) ==
    /\ up
    /\ jobs[j].state = "waiting"
    /\ jobs' = [jobs EXCEPT ![j].state = "active"]
    /\ run' = [run EXCEPT ![j] = "send"]
    /\ UNCHANGED <<late, mails, up>>

Sent(j) == mails' = [mails EXCEPT ![j] = @ + 1]

\* Mutant: sendEmail logs the error and does not throw it again.
SendSwallowed(j) ==
    /\ run[j] = "send"
    /\ \/ j \notin Unsendable /\ Sent(j)
       \/ UNCHANGED mails
    /\ run' = [run EXCEPT ![j] = "sent"]
    /\ UNCHANGED <<jobs, late, up>>

\* The handler of JOB_HANDLERS, and sendEmail: the mail server accepts the
\* message; or it refuses, or cannot be reached; or its answer to a message it
\* accepts is lost, and sendMail rejects.
Send(j) ==
    /\ run[j] = "send"
    /\ \/ /\ j \notin Unsendable
          /\ Sent(j)
          /\ run' \in {[run EXCEPT ![j] = "sent"], [run EXCEPT ![j] = "threw"]}
       \/ /\ run' = [run EXCEPT ![j] = "threw"]
          /\ UNCHANGED mails
    /\ UNCHANGED <<jobs, late, up>>

Finish(j) ==
    /\ run[j] = "sent"
    /\ jobs' = [jobs EXCEPT ![j].state = "completed"]
    /\ run' = [run EXCEPT ![j] = "none"]
    /\ UNCHANGED <<late, mails, up>>

\* Mutant: the job goes back to the queue as it was.
RetryUncounted(j) ==
    /\ run[j] = "threw"
    /\ jobs' = [jobs EXCEPT ![j].state = "waiting"]
    /\ run' = [run EXCEPT ![j] = "none"]
    /\ UNCHANGED <<late, mails, up>>

\* The handler threw: another attempt, if one is left.
Retry(j) ==
    /\ run[j] = "threw"
    /\ jobs' = [jobs EXCEPT
                   ![j].failures = @ + 1,
                   ![j].state = IF jobs[j].failures + 1 < Attempts THEN "waiting"
                                ELSE "failed"]
    /\ run' = [run EXCEPT ![j] = "none"]
    /\ UNCHANGED <<late, mails, up>>

\* Mutant: a stalled job is queued again without end.
StallUncounted(j) ==
    /\ up
    /\ jobs[j].state = "active"
    /\ jobs' = [jobs EXCEPT ![j].state = "waiting"]
    /\ late' = IF run[j] = "send" /\ j \notin Unsendable THEN [late EXCEPT ![j] = @ + 1]
               ELSE late
    /\ run' = [run EXCEPT ![j] = "none"]
    /\ UNCHANGED <<mails, up>>

\* The stalled check of a live worker finds the lock of an active job gone:
\* the process that held it died, or was too busy to renew it, or could not
\* report the outcome.
Stall(j) ==
    /\ up
    /\ jobs[j].state = "active"
    /\ jobs' = [jobs EXCEPT
                   ![j].stalls = @ + 1,
                   ![j].state = IF jobs[j].stalls < MaxStalls THEN "waiting" ELSE "failed"]
    /\ late' = IF run[j] = "send" /\ j \notin Unsendable THEN [late EXCEPT ![j] = @ + 1]
               ELSE late
    /\ run' = [run EXCEPT ![j] = "none"]
    /\ UNCHANGED <<mails, up>>

\* Mutant: the outcome of an execution counts whether or not it has the lock.
LateSendReports(j) ==
    /\ late[j] > 0
    /\ late' = [late EXCEPT ![j] = @ - 1]
    /\ \/ Sent(j) /\ jobs' = [jobs EXCEPT ![j].state = "completed"]
       \/ UNCHANGED <<jobs, mails>>
    /\ UNCHANGED <<run, up>>

\* An execution without the lock sends, or fails to.
LateSend(j) ==
    /\ late[j] > 0
    /\ late' = [late EXCEPT ![j] = @ - 1]
    /\ Sent(j) \/ UNCHANGED mails
    /\ UNCHANGED <<jobs, run, up>>

WorkerDies ==
    /\ up
    /\ up' = FALSE
    /\ run' = [j \in Jobs |-> "none"]
    /\ late' = [j \in Jobs |-> 0]
    /\ UNCHANGED <<jobs, mails>>

WorkerStarts ==
    /\ ~up
    /\ up' = TRUE
    /\ UNCHANGED <<jobs, run, late, mails>>

\* The execution with the lock goes on; a worker turns to the job.
Execute(j) == Send(j) \/ Finish(j) \/ Retry(j)

Attend(j) == Pick(j) \/ (run[j] = "none" /\ Stall(j))

QueueNext ==
    \/ \E j \in Jobs : Execute(j) \/ Pick(j) \/ Stall(j) \/ LateSend(j)
    \/ WorkerDies
    \/ WorkerStarts
=============================================================================
