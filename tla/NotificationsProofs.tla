-------------------------- MODULE NotificationsProofs --------------------------
(* Theorems about Notifications: the email queue behind the engine, for all *)
(* values of the constants.                                                 *)
EXTENDS Notifications, TransactionEngineProofs

JobDocs == [state : {"absent", "waiting", "active"} \cup Queue!Ended,
            failures : 0..Attempts, stalls : 0..MaxStalls + 1]

\* QueueTypeOK in two parts: the types, and what ties the variables together.
QueueTyped ==
    /\ jobs \in [Jobs -> JobDocs]
    /\ run \in [Jobs -> {"none", "send", "sent", "threw"}]
    /\ late \in [Jobs -> 0..MaxStalls + 1]
    /\ mails \in [Jobs -> Nat]
    /\ up \in BOOLEAN

\* One job: what the queue knows of it, how far its execution with the lock is,
\* how many others are under way, how often it has been mailed.
JobInv(b, execution, others, sent) ==
    /\ b \in JobDocs
    /\ execution \in {"none", "send", "sent", "threw"}
    /\ others \in Nat
    /\ sent \in Nat
    /\ execution # "none" => b.state = "active"
    /\ b.state \in {"waiting", "active", "completed"} =>
           b.failures < Attempts /\ b.stalls =< MaxStalls
    /\ b.state = "failed" => b.failures + b.stalls =< Attempts + MaxStalls
    /\ b.state = "absent" => b.failures = 0 /\ b.stalls = 0 /\ sent = 0
    /\ others =< b.stalls
    /\ sent + others + (IF execution = "send" THEN 1 ELSE 0)
         =< b.failures + b.stalls + (IF b.state \in {"active", "completed"} THEN 1 ELSE 0)
    /\ execution = "sent" => sent > 0
    /\ b.state = "completed" => sent > 0

\* The queue's invariant, job by job.
QueueInv ==
    /\ QueueTyped
    /\ \A j \in Jobs :
           /\ JobInv(jobs[j], run[j], late[j], mails[j])
           /\ run[j] # "none" => up
           /\ late[j] > 0 => up
           /\ jobs[j].state = "absent" <=> j \notin emails

\* It says what the invariants of the run say.
LEMMA QueueInvMeans ==
    ASSUME QueueInv
    PROVE  QueueTypeOK /\ MailsBounded /\ CompletedMailed
<1>1. QueueTypeOK BY DEF QueueInv, QueueTyped, JobInv, JobDocs, QueueTypeOK
<1>2. MailsBounded
  <2> SUFFICES ASSUME NEW j \in Jobs PROVE mails[j] =< Attempts + MaxStalls
    BY DEF MailsBounded
  <2> DEFINE b == jobs[j]
  <2>1. JobInv(b, run[j], late[j], mails[j]) BY DEF QueueInv
  <2>2. b.failures \in Nat /\ b.stalls \in Nat /\ Attempts \in Nat /\ MaxStalls \in Nat
        /\ b.state \in {"absent", "waiting", "active", "completed", "failed"}
    BY <2>1, QueueAssumption DEF JobInv, JobDocs, Queue!Ended
  <2> HIDE DEF b
  <2> QED BY <2>1, <2>2 DEF JobInv
<1>3. CompletedMailed BY DEF QueueInv, JobInv, CompletedMailed
<1> QED BY <1>1, <1>2, <1>3

LEMMA QueueInvInit == NotifyInit => QueueInv
<1> SUFFICES ASSUME NotifyInit PROVE QueueInv OBVIOUS
<1>1. Queue!Absent \in JobDocs BY QueueAssumption DEF Queue!Absent, JobDocs
<1>2. JobInv(Queue!Absent, "none", 0, 0)
  BY <1>1, QueueAssumption DEF JobInv, Queue!Absent
<1>3. /\ jobs = [j \in Jobs |-> Queue!Absent]
      /\ run = [j \in Jobs |-> "none"] /\ late = [j \in Jobs |-> 0]
      /\ mails = [j \in Jobs |-> 0] /\ up = TRUE /\ emails = {}
  BY DEF NotifyInit, Queue!QueueInit, Init
<1>4. QueueTyped BY <1>1, <1>3, QueueAssumption DEF QueueTyped
<1> QED BY <1>2, <1>3, <1>4 DEF QueueInv, Queue!Absent

(***************************************************************************)
(* Steps of the queue.                                                     *)
(***************************************************************************)

\* What a step does to one job, as a step of its four values.
LEMMA JobSteps ==
    ASSUME NEW b, NEW execution, NEW others, NEW sent, JobInv(b, execution, others, sent)
    PROVE  /\ b.state = "waiting" =>
                  JobInv([b EXCEPT !.state = "active"], "send", others, sent)
           /\ execution = "send" =>
                  /\ JobInv(b, "sent", others, sent + 1)
                  /\ JobInv(b, "threw", others, sent + 1)
                  /\ JobInv(b, "threw", others, sent)
           /\ execution = "sent" =>
                  JobInv([b EXCEPT !.state = "completed"], "none", others, sent)
           /\ execution = "threw" =>
                  JobInv([b EXCEPT !.failures = b.failures + 1,
                                   !.state = IF b.failures + 1 < Attempts THEN "waiting"
                                             ELSE "failed"], "none", others, sent)
           /\ b.state = "active" =>
                  /\ execution = "send" =>
                         JobInv([b EXCEPT !.stalls = b.stalls + 1,
                                          !.state = IF b.stalls < MaxStalls THEN "waiting"
                                                    ELSE "failed"], "none", others + 1, sent)
                  /\ JobInv([b EXCEPT !.stalls = b.stalls + 1,
                                      !.state = IF b.stalls < MaxStalls THEN "waiting"
                                                ELSE "failed"], "none", others, sent)
           /\ others > 0 =>
                  /\ JobInv(b, execution, others - 1, sent + 1)
                  /\ JobInv(b, execution, others - 1, sent)
           /\ JobInv(b, "none", 0, sent)
<1>1. /\ b = [state |-> b.state, failures |-> b.failures, stalls |-> b.stalls]
      /\ b.state \in {"absent", "waiting", "active", "completed", "failed"}
      /\ b.failures \in Nat /\ b.failures =< Attempts
      /\ b.stalls \in Nat /\ b.stalls =< MaxStalls + 1
      /\ Attempts \in Nat \ {0} /\ MaxStalls \in Nat
      /\ others \in Nat /\ sent \in Nat
  BY QueueAssumption DEF JobInv, JobDocs, Queue!Ended
<1> USE <1>1 DEF JobInv, JobDocs, Queue!Ended
<1>2. b.state = "waiting" => JobInv([b EXCEPT !.state = "active"], "send", others, sent)
  OBVIOUS
<1>3. execution = "send" =>
          /\ JobInv(b, "sent", others, sent + 1)
          /\ JobInv(b, "threw", others, sent + 1)
          /\ JobInv(b, "threw", others, sent)
  OBVIOUS
<1>4. execution = "sent" => JobInv([b EXCEPT !.state = "completed"], "none", others, sent)
  OBVIOUS
<1>5. execution = "threw" =>
          JobInv([b EXCEPT !.failures = b.failures + 1,
                           !.state = IF b.failures + 1 < Attempts THEN "waiting"
                                     ELSE "failed"], "none", others, sent)
  <2> SUFFICES ASSUME execution = "threw"
               PROVE  JobInv([b EXCEPT !.failures = b.failures + 1,
                                       !.state = IF b.failures + 1 < Attempts THEN "waiting"
                                                 ELSE "failed"], "none", others, sent)
    OBVIOUS
  <2>1. CASE b.failures + 1 < Attempts
    <3>1. JobInv([state |-> "waiting", failures |-> b.failures + 1, stalls |-> b.stalls],
                 "none", others, sent)
      BY <2>1
    <3> QED BY <2>1, <3>1
  <2>2. CASE ~(b.failures + 1 < Attempts)
    <3>1. JobInv([state |-> "failed", failures |-> b.failures + 1, stalls |-> b.stalls],
                 "none", others, sent)
      BY <2>2
    <3> QED BY <2>2, <3>1
  <2> QED BY <2>1, <2>2
<1>6. ASSUME NEW more \in {others, others + 1}, b.state = "active",
             more = others + 1 => execution = "send"
      PROVE  JobInv([b EXCEPT !.stalls = b.stalls + 1,
                              !.state = IF b.stalls < MaxStalls THEN "waiting"
                                        ELSE "failed"], "none", more, sent)
  <2>1. CASE b.stalls < MaxStalls
    <3>1. JobInv([state |-> "waiting", failures |-> b.failures, stalls |-> b.stalls + 1],
                 "none", more, sent)
      BY <1>6, <2>1
    <3> QED BY <2>1, <3>1
  <2>2. CASE ~(b.stalls < MaxStalls)
    <3>1. JobInv([state |-> "failed", failures |-> b.failures, stalls |-> b.stalls + 1],
                 "none", more, sent)
      BY <1>6, <2>2
    <3> QED BY <2>2, <3>1
  <2> QED BY <2>1, <2>2
<1>7. /\ b.state = "active" /\ execution = "send" =>
             JobInv([b EXCEPT !.stalls = b.stalls + 1,
                              !.state = IF b.stalls < MaxStalls THEN "waiting"
                                        ELSE "failed"], "none", others + 1, sent)
      /\ b.state = "active" =>
             JobInv([b EXCEPT !.stalls = b.stalls + 1,
                              !.state = IF b.stalls < MaxStalls THEN "waiting"
                                        ELSE "failed"], "none", others, sent)
  BY <1>6
<1>8. others > 0 => /\ JobInv(b, execution, others - 1, sent + 1)
                    /\ JobInv(b, execution, others - 1, sent)
  OBVIOUS
<1>9. JobInv(b, "none", 0, sent) OBVIOUS
<1> HIDE <1>1 DEF JobInv
<1> QED BY <1>2, <1>3, <1>4, <1>5, <1>7, <1>8, <1>9

\* A step on one job keeps the invariant if it keeps that job's.
LEMMA JobChanged ==
    ASSUME QueueInv, NEW j \in Jobs, NEW b, NEW execution, NEW others, NEW sent,
           JobInv(b, execution, others, sent),
           jobs' = [jobs EXCEPT ![j] = b], run' = [run EXCEPT ![j] = execution],
           late' = [late EXCEPT ![j] = others], mails' = [mails EXCEPT ![j] = sent],
           UNCHANGED <<up, emails>>,
           execution # "none" \/ others > 0 => up,
           b.state = "absent" <=> jobs[j].state = "absent"
    PROVE  QueueInv'
<1>1. /\ jobs \in [Jobs -> JobDocs]
      /\ run \in [Jobs -> {"none", "send", "sent", "threw"}]
      /\ late \in [Jobs -> 0..MaxStalls + 1]
      /\ mails \in [Jobs -> Nat]
      /\ up \in BOOLEAN
  BY DEF QueueInv, QueueTyped
<1>2. /\ b \in JobDocs /\ execution \in {"none", "send", "sent", "threw"} /\ sent \in Nat
      /\ others \in 0..MaxStalls + 1
  <2>1. b.stalls \in 0..MaxStalls + 1 /\ others \in Nat /\ others =< b.stalls
    BY DEF JobInv, JobDocs
  <2>2. others \in 0..MaxStalls + 1 BY <2>1, QueueAssumption
  <2> QED BY <2>2 DEF JobInv
<1>3. QueueTyped' BY <1>1, <1>2 DEF QueueTyped, JobDocs, Queue!Ended
<1>4. /\ jobs'[j] = b /\ run'[j] = execution /\ late'[j] = others /\ mails'[j] = sent
      /\ \A k \in Jobs \ {j} : /\ jobs'[k] = jobs[k] /\ run'[k] = run[k]
                              /\ late'[k] = late[k] /\ mails'[k] = mails[k]
  BY <1>1
<1>5. ASSUME NEW k \in Jobs
      PROVE  /\ JobInv(jobs'[k], run'[k], late'[k], mails'[k])
             /\ run'[k] # "none" => up'
             /\ late'[k] > 0 => up'
             /\ jobs'[k].state = "absent" <=> k \notin emails'
  <2>1. CASE k = j BY <1>4, <2>1 DEF QueueInv
  <2>2. CASE k # j BY <1>4, <2>2 DEF QueueInv
  <2> QED BY <2>1, <2>2
<1> QED BY <1>3, <1>5 DEF QueueInv, JobInv, JobDocs, Queue!Ended

LEMMA QueueStepKeeps ==
    ASSUME QueueInv, QueueStep PROVE QueueInv'
<1>1. /\ jobs \in [Jobs -> JobDocs]
      /\ run \in [Jobs -> {"none", "send", "sent", "threw"}]
      /\ late \in [Jobs -> 0..MaxStalls + 1]
      /\ mails \in [Jobs -> Nat]
      /\ emails' = emails
  BY DEF QueueInv, QueueTyped, QueueStep, vars
<1>2. \A j \in Jobs :
         /\ JobInv(jobs[j], run[j], late[j], mails[j])
         /\ jobs[j] \in JobDocs /\ late[j] \in Nat
         /\ run[j] # "none" => up /\ jobs[j].state = "active"
         /\ late[j] > 0 => up /\ jobs[j].state # "absent"
         /\ jobs = [jobs EXCEPT ![j] = jobs[j]] /\ run = [run EXCEPT ![j] = run[j]]
         /\ late = [late EXCEPT ![j] = late[j]] /\ mails = [mails EXCEPT ![j] = mails[j]]
  BY <1>1 DEF QueueInv, JobInv, JobDocs
<1>3. ASSUME NEW j \in Jobs, Queue!Pick(j) PROVE QueueInv'
  <2> DEFINE b == [jobs[j] EXCEPT !.state = "active"]
  <2>1. JobInv(b, "send", late[j], mails[j]) BY <1>2, <1>3, JobSteps DEF Queue!Pick
  <2>2. jobs' = [jobs EXCEPT ![j] = b] BY <1>1, <1>3 DEF Queue!Pick
  <2>3. b.state # "absent" /\ jobs[j].state # "absent"
    BY <1>2, <1>3 DEF JobDocs, Queue!Pick
  <2> HIDE DEF b
  <2>4. /\ run' = [run EXCEPT ![j] = "send"] /\ late' = [late EXCEPT ![j] = late[j]]
        /\ mails' = [mails EXCEPT ![j] = mails[j]] /\ UNCHANGED <<up, emails>> /\ up
    BY <1>1, <1>2, <1>3 DEF Queue!Pick
  <2> QED BY <2>1, <2>2, <2>3, <2>4, JobChanged
<1>4. ASSUME NEW j \in Jobs, Queue!Send(j) PROVE QueueInv'
  <2>1. /\ JobInv(jobs[j], "sent", late[j], mails[j] + 1)
        /\ JobInv(jobs[j], "threw", late[j], mails[j] + 1)
        /\ JobInv(jobs[j], "threw", late[j], mails[j])
    BY <1>2, <1>4, JobSteps DEF Queue!Send
  <2>2. PICK after \in {"sent", "threw"} :
           /\ run' = [run EXCEPT ![j] = after]
           /\ \/ mails' = [mails EXCEPT ![j] = mails[j] + 1]
              \/ mails' = mails /\ after = "threw"
    BY <1>4 DEF Queue!Send, Queue!Sent
  <2>3. /\ jobs' = [jobs EXCEPT ![j] = jobs[j]] /\ late' = [late EXCEPT ![j] = late[j]]
        /\ UNCHANGED <<up, emails>> /\ up
    BY <1>1, <1>2, <1>4 DEF Queue!Send
  <2>4. CASE mails' = [mails EXCEPT ![j] = mails[j] + 1]
    <3>1. JobInv(jobs[j], after, late[j], mails[j] + 1) BY <2>1
    <3> QED BY <2>2, <2>3, <2>4, <3>1, JobChanged
  <2>5. CASE mails' = mails /\ after = "threw"
    <3>1. JobInv(jobs[j], after, late[j], mails[j]) BY <2>1, <2>5
    <3>2. mails' = [mails EXCEPT ![j] = mails[j]] BY <1>2, <2>5
    <3> QED BY <2>2, <2>3, <3>1, <3>2, JobChanged
  <2> QED BY <2>2, <2>4, <2>5
<1>5. ASSUME NEW j \in Jobs, Queue!Finish(j) PROVE QueueInv'
  <2> DEFINE b == [jobs[j] EXCEPT !.state = "completed"]
  <2>1. JobInv(b, "none", late[j], mails[j]) BY <1>2, <1>5, JobSteps DEF Queue!Finish
  <2>2. jobs' = [jobs EXCEPT ![j] = b] BY <1>1, <1>5 DEF Queue!Finish
  <2>3. b.state # "absent" /\ jobs[j].state # "absent"
    BY <1>2, <1>5 DEF JobDocs, Queue!Finish
  <2> HIDE DEF b
  <2>4. /\ run' = [run EXCEPT ![j] = "none"] /\ late' = [late EXCEPT ![j] = late[j]]
        /\ mails' = [mails EXCEPT ![j] = mails[j]] /\ UNCHANGED <<up, emails>> /\ up
    BY <1>1, <1>2, <1>5 DEF Queue!Finish
  <2> QED BY <2>1, <2>2, <2>3, <2>4, JobChanged
<1>6. ASSUME NEW j \in Jobs, Queue!Retry(j) PROVE QueueInv'
  <2> DEFINE b == [jobs[j] EXCEPT !.failures = jobs[j].failures + 1,
                                  !.state = IF jobs[j].failures + 1 < Attempts THEN "waiting"
                                            ELSE "failed"]
  <2>1. JobInv(b, "none", late[j], mails[j]) BY <1>2, <1>6, JobSteps DEF Queue!Retry
  <2>2. jobs' = [jobs EXCEPT ![j] = b] BY <1>1, <1>2, <1>6 DEF Queue!Retry
  <2>3. b.state # "absent" /\ jobs[j].state # "absent"
    BY <1>2, <1>6 DEF JobDocs, Queue!Retry
  <2> HIDE DEF b
  <2>4. /\ run' = [run EXCEPT ![j] = "none"] /\ late' = [late EXCEPT ![j] = late[j]]
        /\ mails' = [mails EXCEPT ![j] = mails[j]] /\ UNCHANGED <<up, emails>> /\ up
    BY <1>1, <1>2, <1>6 DEF Queue!Retry
  <2> QED BY <2>1, <2>2, <2>3, <2>4, JobChanged
<1>7. ASSUME NEW j \in Jobs, Queue!Stall(j) PROVE QueueInv'
  <2> DEFINE b == [jobs[j] EXCEPT !.stalls = jobs[j].stalls + 1,
                                  !.state = IF jobs[j].stalls < MaxStalls THEN "waiting"
                                            ELSE "failed"]
  <2>1. /\ run[j] = "send" => JobInv(b, "none", late[j] + 1, mails[j])
        /\ JobInv(b, "none", late[j], mails[j])
    BY <1>2, <1>7, JobSteps DEF Queue!Stall
  <2>2. jobs' = [jobs EXCEPT ![j] = b] BY <1>1, <1>2, <1>7 DEF Queue!Stall
  <2>3. b.state # "absent" /\ jobs[j].state # "absent"
    BY <1>2, <1>7 DEF JobDocs, Queue!Stall
  <2> HIDE DEF b
  <2>4. /\ run' = [run EXCEPT ![j] = "none"]
        /\ mails' = [mails EXCEPT ![j] = mails[j]] /\ UNCHANGED <<up, emails>> /\ up
    BY <1>1, <1>2, <1>7 DEF Queue!Stall
  <2>5. \/ run[j] = "send" /\ late' = [late EXCEPT ![j] = late[j] + 1]
        \/ late' = [late EXCEPT ![j] = late[j]]
    BY <1>2, <1>7 DEF Queue!Stall
  <2>6. CASE run[j] = "send" /\ late' = [late EXCEPT ![j] = late[j] + 1]
    BY <2>1, <2>2, <2>3, <2>4, <2>6, JobChanged
  <2>7. CASE late' = [late EXCEPT ![j] = late[j]]
    BY <2>1, <2>2, <2>3, <2>4, <2>7, JobChanged
  <2> QED BY <2>5, <2>6, <2>7
<1>8. ASSUME NEW j \in Jobs, Queue!LateSend(j) PROVE QueueInv'
  <2>1. /\ JobInv(jobs[j], run[j], late[j] - 1, mails[j] + 1)
        /\ JobInv(jobs[j], run[j], late[j] - 1, mails[j])
    BY <1>2, <1>8, JobSteps DEF Queue!LateSend
  <2>2. PICK sent \in {mails[j], mails[j] + 1} : mails' = [mails EXCEPT ![j] = sent]
    BY <1>2, <1>8 DEF Queue!LateSend, Queue!Sent
  <2>3. /\ jobs' = [jobs EXCEPT ![j] = jobs[j]] /\ run' = [run EXCEPT ![j] = run[j]]
        /\ late' = [late EXCEPT ![j] = late[j] - 1] /\ UNCHANGED <<up, emails>> /\ up
    BY <1>1, <1>2, <1>8 DEF Queue!LateSend
  <2>4. JobInv(jobs[j], run[j], late[j] - 1, sent) BY <2>1
  <2> QED BY <2>2, <2>3, <2>4, JobChanged
<1>9. CASE Queue!WorkerDies
  <2>1. /\ jobs' = jobs /\ mails' = mails /\ up' = FALSE
        /\ run' = [j \in Jobs |-> "none"] /\ late' = [j \in Jobs |-> 0]
    BY <1>9 DEF Queue!WorkerDies
  <2>2. \A j \in Jobs : JobInv(jobs[j], "none", 0, mails[j]) BY <1>2, JobSteps
  <2>3. QueueTyped'
    <3>1. late' \in [Jobs -> 0..MaxStalls + 1] BY <2>1, QueueAssumption
    <3>2. run' \in [Jobs -> {"none", "send", "sent", "threw"}] BY <2>1
    <3> QED BY <1>1, <2>1, <3>1, <3>2 DEF QueueTyped, JobDocs, Queue!Ended
  <2> QED BY <1>1, <2>1, <2>2, <2>3 DEF QueueInv, JobInv, JobDocs, Queue!Ended
<1>10. CASE Queue!WorkerStarts
  BY <1>1, <1>10 DEF Queue!WorkerStarts, QueueInv, QueueTyped, JobInv, JobDocs, Queue!Ended
<1> QED BY <1>3, <1>4, <1>5, <1>6, <1>7, <1>8, <1>9, <1>10
        DEF QueueStep, Queue!QueueNext, Queue!Execute

(***************************************************************************)
(* Steps of the engine, and the theorems.                                  *)
(***************************************************************************)

LEMMA EmailsGrow == ASSUME [Next]_vars PROVE emails \subseteq emails'
BY DEF Next, Handle, Environment, vars, Arrive, DepositUserLookupFails, CacheHit,
       CacheMiss, AcquireLock, LockBusy, LockUnavailable, RecordFound, RecordMissing,
       MongoFails, TxRead, TxRefuse, TxConflict, TxDuplicate, TxCommit, SetCache,
       Notify, NotifyFails, Release, ResponseTimeout, Crash, LockExpire, CacheExpire,
       RecordExpire

LEMMA EngineStepAdds ==
    ASSUME QueueInv, TypeInv', EngineStep PROVE QueueInv'
<1>1. emails \subseteq emails' BY EmailsGrow DEF EngineStep
<1>2. /\ jobs \in [Jobs -> JobDocs]
      /\ jobs' = [j \in Jobs |-> IF j \in emails' \ emails
                                 THEN [Queue!Absent EXCEPT !.state = "waiting"] ELSE jobs[j]]
      /\ UNCHANGED <<run, late, mails, up>>
  BY DEF QueueInv, QueueTyped, EngineStep, Queue!Add
<1> DEFINE fresh == [state |-> "waiting", failures |-> 0, stalls |-> 0]
<1>3. fresh = [Queue!Absent EXCEPT !.state = "waiting"] BY DEF Queue!Absent
<1>4. fresh \in JobDocs BY QueueAssumption DEF JobDocs
<1> HIDE DEF fresh
<1>5. ASSUME NEW j \in Jobs
      PROVE  /\ JobInv(jobs'[j], run[j], late[j], mails[j])
             /\ run[j] # "none" => up
             /\ late[j] > 0 => up
             /\ jobs'[j].state = "absent" <=> j \notin emails'
  <2>1. /\ JobInv(jobs[j], run[j], late[j], mails[j])
        /\ run[j] # "none" => up
        /\ late[j] > 0 => up
        /\ jobs[j].state = "absent" <=> j \notin emails
    BY DEF QueueInv
  <2>2. CASE j \in emails' \ emails
    <3>1. jobs'[j] = fresh BY <1>2, <1>3, <2>2
    <3>2. run[j] = "none" /\ late[j] = 0 /\ mails[j] = 0
      BY <2>1, <2>2 DEF JobInv
    <3>3. JobInv(fresh, "none", 0, 0) BY <1>4, QueueAssumption DEF JobInv, fresh
    <3> QED BY <2>1, <2>2, <3>1, <3>2, <3>3 DEF fresh
  <2>3. CASE j \notin emails' \ emails
    <3>1. jobs'[j] = jobs[j] BY <1>2, <2>3
    <3> QED BY <1>1, <2>1, <2>3, <3>1
  <2> QED BY <2>2, <2>3
<1>6. QueueTyped'
  <2>1. jobs' \in [Jobs -> JobDocs] BY <1>2, <1>3, <1>4
  <2> QED BY <1>2, <2>1 DEF QueueInv, QueueTyped, JobDocs, Queue!Ended
<1> QED BY <1>2, <1>5, <1>6 DEF QueueInv, JobInv, JobDocs, Queue!Ended

\* The invariant of the whole: the engine's, and the queue's.
NotifyInv == TypeInv /\ LinkInv /\ EmailsAnnounceMovements /\ QueueInv

LEMMA NotifyInvInit == NotifyInit => NotifyInv
<1>1. Init => EmailsAnnounceMovements BY DEF Init, EmailsAnnounceMovements
<1> QED BY <1>1, TypeInit, LinkInit, QueueInvInit DEF NotifyInit, NotifyInv

LEMMA NotifyInvNext == NotifyInv /\ [NotifyNext]_<<vars, queueVars>> => NotifyInv'
<1> SUFFICES ASSUME NotifyInv, [NotifyNext]_<<vars, queueVars>> PROVE NotifyInv' OBVIOUS
<1>1. [Next]_vars BY DEF NotifyNext, EngineStep, QueueStep
<1>2. TypeInv' /\ LinkInv' /\ EmailsAnnounceMovements'
  BY <1>1, TypeNext, LinkNext, EmailsNext DEF NotifyInv
<1>3. QueueInv'
  <2>1. CASE EngineStep BY <1>2, <2>1, EngineStepAdds DEF NotifyInv
  <2>2. CASE QueueStep BY <2>2, QueueStepKeeps DEF NotifyInv
  <2>3. CASE UNCHANGED <<vars, queueVars>>
    BY <2>3 DEF NotifyInv, QueueInv, QueueTyped, JobInv, JobDocs, Queue!Ended, vars, queueVars
  <2> QED BY <2>1, <2>2, <2>3 DEF NotifyNext
<1> QED BY <1>2, <1>3 DEF NotifyInv

\* Types, whatever the number of attempts and stalls allowed.
THEOREM QueueTypeCorrect == NotifySpec => []QueueTypeOK
<1>1. NotifyInv => QueueTypeOK BY QueueInvMeans DEF NotifyInv
<1> QED BY <1>1, NotifyInvInit, NotifyInvNext, PTL DEF NotifySpec

\* One notification is mailed at most Attempts + MaxStalls times.
THEOREM MailsAreBounded == NotifySpec => []MailsBounded
<1>1. NotifyInv => MailsBounded BY QueueInvMeans DEF NotifyInv
<1> QED BY <1>1, NotifyInvInit, NotifyInvNext, PTL DEF NotifySpec

\* A completed job has been mailed, by its own execution.
THEOREM CompletedAreMailed == NotifySpec => []CompletedMailed
<1>1. NotifyInv => CompletedMailed BY QueueInvMeans DEF NotifyInv
<1> QED BY <1>1, NotifyInvInit, NotifyInvNext, PTL DEF NotifySpec

\* No mail is about a movement that was not made, from the engine's commit to
\* the last retry of the queue.
THEOREM MailsTruthful == NotifySpec => []MailTruthful
<1>1. ASSUME NotifyInv PROVE MailTruthful
  <2> SUFFICES ASSUME NEW j \in Jobs, mails[j] > 0
               PROVE  Committed(j.request) /\ j.template \in Notices(input[j.request])
    BY DEF MailTruthful
  <2>1. JobInv(jobs[j], run[j], late[j], mails[j]) /\ (jobs[j].state = "absent" <=> j \notin emails)
    BY <1>1 DEF NotifyInv, QueueInv
  <2>2. jobs[j].state # "absent" BY <2>1 DEF JobInv
  <2> QED BY <1>1, <2>1, <2>2 DEF NotifyInv, EmailsAnnounceMovements
<1> QED BY <1>1, NotifyInvInit, NotifyInvNext, PTL DEF NotifySpec

\* An outcome is never taken back or replaced.
THEOREM OutcomesStand == NotifySpec => OutcomeStands
<1> DEFINE Stand == \A j \in Jobs : jobs[j].state \in Queue!Ended => jobs'[j] = jobs[j]
<1>1. ASSUME NotifyInv, [NotifyNext]_<<vars, queueVars>> PROVE Stand
  <2> SUFFICES ASSUME NEW j \in Jobs, jobs[j].state \in {"completed", "failed"}
               PROVE  jobs'[j] = jobs[j]
    BY DEF Queue!Ended
  <2>1. /\ jobs \in [Jobs -> JobDocs] /\ run[j] = "none"
        /\ j \in emails
        /\ \A k \in Jobs : run[k] # "none" => jobs[k].state = "active"
    BY <1>1 DEF NotifyInv, QueueInv, QueueTyped, JobInv
  <2>2. CASE EngineStep BY <2>1, <2>2 DEF EngineStep, Queue!Add
  <2>3. ASSUME NEW k \in Jobs, Queue!Execute(k) \/ Queue!Pick(k) \/ Queue!Stall(k) \/ Queue!LateSend(k)
        PROVE  jobs'[j] = jobs[j]
    <3>1. CASE Queue!Send(k) \/ Queue!LateSend(k) BY <3>1 DEF Queue!Send, Queue!LateSend
    <3>2. CASE Queue!Finish(k) \/ Queue!Retry(k) \/ Queue!Pick(k) \/ Queue!Stall(k)
      <4>1. jobs[k].state \in {"waiting", "active"}
        BY <2>1, <3>2 DEF Queue!Finish, Queue!Retry, Queue!Pick, Queue!Stall
      <4>2. j # k BY <4>1
      <4>3. \E b : jobs' = [jobs EXCEPT ![k] = b]
        <5>1. CASE Queue!Finish(k) BY <5>1 DEF Queue!Finish
        <5>2. CASE Queue!Pick(k) BY <5>2 DEF Queue!Pick
        <5>3. CASE Queue!Retry(k) BY <2>1, <5>3 DEF Queue!Retry
        <5>4. CASE Queue!Stall(k) BY <2>1, <5>4 DEF Queue!Stall
        <5> QED BY <3>2, <5>1, <5>2, <5>3, <5>4
      <4> QED BY <2>1, <4>2, <4>3
    <3> QED BY <2>3, <3>1, <3>2 DEF Queue!Execute
  <2>4. CASE QueueStep
    BY <2>3, <2>4 DEF QueueStep, Queue!QueueNext, Queue!WorkerDies, Queue!WorkerStarts
  <2>5. CASE UNCHANGED <<vars, queueVars>> BY <2>5 DEF queueVars
  <2> QED BY <1>1, <2>2, <2>4, <2>5 DEF NotifyNext
<1>2. NotifyInv /\ [NotifyNext]_<<vars, queueVars>> => [Stand]_<<vars, queueVars>> BY <1>1
<1> QED BY <1>2, NotifyInvInit, NotifyInvNext, PTL DEF NotifySpec, OutcomeStands
=============================================================================
