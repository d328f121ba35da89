----------------------------- MODULE Notifications -----------------------------
(***************************************************************************)
(* The transaction engine and the queue that mails its notifications.  A   *)
(* job is in the queue from the step in which the engine's handler adds it.*)
(***************************************************************************)
EXTENDS TransactionEngine

CONSTANTS Attempts, MaxStalls

ASSUME QueueAssumption == Attempts \in Nat \ {0} /\ MaxStalls \in Nat

VARIABLES jobs, run, late, mails, up

Jobs == [request : Requests, template : {"deposit", "sent", "received", "withdraw"}]

\* transfer queues { email, amount, balance, type }, and the handler of
\* "transaction-notification" takes apart a transactionDetails that is not there.
Unsendable == {j \in Jobs : j.template \in {"sent", "received"}}

Queue == INSTANCE EmailQueue

queueVars == <<jobs, run, late, mails, up>>

NotifyInit == Init /\ Queue!QueueInit

EngineStep == Next /\ Queue!Add(emails' \ emails)

QueueStep == Queue!QueueNext /\ UNCHANGED vars

NotifyNext == EngineStep \/ QueueStep

NotifySpec == NotifyInit /\ [][NotifyNext]_<<vars, queueVars>>

(* Fairness: sendMail settles and its outcome reaches Redis, the worker     *)
(* process is started again when it has died, and a worker that is up again *)
(* and again gets to a job that waits or has stalled.                       *)
QueueFairness ==
    /\ WF_<<vars, queueVars>>(Queue!WorkerStarts /\ UNCHANGED vars)
    /\ \A j \in Jobs :
           /\ WF_<<vars, queueVars>>(Queue!Execute(j) /\ UNCHANGED vars)
           /\ SF_<<vars, queueVars>>(Queue!Attend(j) /\ UNCHANGED vars)

NotifyFairSpec == NotifySpec /\ QueueFairness

-----------------------------------------------------------------------------
\* The type invariant of the queue: an execution with the lock belongs to an
\* active job, and what is not in the queue has left no trace.
QueueTypeOK ==
    /\ jobs \in [Jobs -> [state : {"absent", "waiting", "active"} \cup Queue!Ended,
                          failures : 0..Attempts, stalls : 0..MaxStalls + 1]]
    /\ run \in [Jobs -> {"none", "send", "sent", "threw"}]
    /\ late \in [Jobs -> 0..MaxStalls + 1]
    /\ mails \in [Jobs -> Nat]
    /\ up \in BOOLEAN
    /\ \A j \in Jobs :
           /\ run[j] # "none" => up /\ jobs[j].state = "active"
           /\ late[j] > 0 => up
           /\ jobs[j].state = "absent" <=> j \notin emails

\* Nobody is mailed about money that did not move: a message that went out, at
\* whatever attempt, is about a committed movement and of its kind.
MailTruthful ==
    \A j \in Jobs :
        mails[j] > 0 => Committed(j.request) /\ j.template \in Notices(input[j.request])

\* One job mails at most once per attempt and once per stall, although stalled
\* executions go on beside their successors and an accepted message may be
\* reported as refused.
MailsBounded == \A j \in Jobs : mails[j] =< Attempts + MaxStalls

\* A job that counts as completed has been mailed.
CompletedMailed == \A j \in Jobs : jobs[j].state = "completed" => mails[j] > 0

\* The outcome of a job stands, whatever a stalled execution does after it.
OutcomeStands ==
    [][\A j \in Jobs : jobs[j].state \in Queue!Ended => jobs'[j] = jobs[j]]_<<vars, queueVars>>

\* Every notification is delivered or given up in the end, through any number
\* of refusals, stalls and deaths of the worker.
JobsEnd == \A j \in Jobs : jobs[j].state = "waiting" ~> jobs[j].state \in Queue!Ended

=============================================================================
