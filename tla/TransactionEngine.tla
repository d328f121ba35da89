-------------------------- MODULE TransactionEngine --------------------------
(***************************************************************************)
(* The money-moving pipeline of the bank: the deposit, transfer and        *)
(* withdraw handlers of controller/transaction.controller.js, with the     *)
(* Redis replay cache and lock of utils/transaction.utils.js, the MongoDB  *)
(* transaction of utils/withTransaction.js and the documents it writes.    *)
(*                                                                         *)
(* A request is one execution of a handler.  Every await of the handler is *)
(* a step boundary: between two steps of a request any other request (in   *)
(* this or another cluster worker) may step, a TTL may expire, a call may  *)
(* fail, the response may time out, or the process may die.  A client that *)
(* retries is another request with the same input.                         *)
(***************************************************************************)
EXTENDS Integers, Sequences, FiniteSetsExt

CONSTANTS
    Requests,       \* executions of the three handlers
    Users,          \* req.user.id
    Keys,           \* valid X-Idempotency-Key headers
    Accounts,       \* existing accounts
    Inputs,         \* what clients may send, see InputsAssumption
    Owner,          \* account -> its userId
    Currency,       \* account -> its currency
    OpeningBalance, \* account -> balance when the run starts
    MaxAmount,      \* purpose -> parsed maximum, or None (NaN)
    DailyLimit,     \* DAILY_TRANSFER_LIMIT
    CentsPerUnit,   \* 100
    None            \* null, undefined, NaN, no document

Purposes == {"deposit", "transfer", "withdrawal"}

\* Money is counted in hundredths of a cent: the documents hold numbers with up
\* to two decimals that some code takes for units and some for cents.  The
\* decimals divide both alike, so a cent has as many parts as a unit has cents.
Cent == CentsPerUnit

ASSUME NoneAssumption ==
    None \notin Requests \cup Users \cup Keys \cup Accounts \cup Inputs \cup Int

ASSUME BalanceAssumption == OpeningBalance \in [Accounts -> Nat]

ASSUME CentsAssumption == CentsPerUnit \in Nat \ {0}

(* An input is the request body, the header and the authenticated user.    *)
(* Account numbers are whatever the client wrote; a deposit has no sender  *)
(* and a withdrawal no receiver.  toCents rounds the amount to whole cents.*)
ASSUME InputsAssumption ==
    \A i \in Inputs :
        /\ DOMAIN i = {"purpose", "userId", "key", "sender", "receiver", "amount"}
        /\ i.purpose \in Purposes
        /\ i.userId \in Users
        /\ i.key \in Keys \cup {None}
        /\ i.amount \in Int /\ i.amount % Cent = 0
        /\ i.purpose = "deposit" => i.sender = None
        /\ i.purpose = "withdrawal" => i.receiver = None

VARIABLES
    account,      \* the BankAccount documents
    ledger,       \* the LedgerEntry documents, per account, oldest first
    transactions, \* the Transaction documents
    idempotency,  \* the Idempotency documents
    lock,         \* Redis idempotency:lock:<user>:<key> -> the holder
    cache,        \* Redis idempotency:done:<user>:<key> -> what to replay
    pc,           \* where each request's handler is
    input,        \* what each request was called with
    snapshot,     \* the documents a running MongoDB transaction has read
    reply,        \* the response each request's client received
    emails,       \* notification jobs handed to the email queue
    lapsed        \* history: requests whose lock expired while they held it

mongo == <<account, ledger, transactions, idempotency>>
redisVars == <<lock, cache>>
vars == <<account, ledger, transactions, idempotency, lock, cache, pc, input,
          snapshot, reply, emails, lapsed>>

-----------------------------------------------------------------------------
(* Inputs and documents.                                                   *)

Slots == Users \X Keys

\* The part of both Redis keys that varies: user and key, not the purpose.
Slot(i) == <<i.userId, i.key>>

Touched(i) == {i.sender, i.receiver} \ {None}

\* fromCents, which keeps two decimals: exact for an amount in whole cents.
FromCents(cents) == cents \div CentsPerUnit

\* Validation before the first await: parseAndValidateIdempotency and the
\* handlers' own checks.  A maximum that parsed to NaN bounds nothing.
Valid(i) ==
    /\ i.amount > 0
    /\ MaxAmount[i.purpose] # None => i.amount =< MaxAmount[i.purpose]
    /\ i.key # None
    /\ i.purpose # "withdrawal" => i.receiver # None
    /\ i.purpose # "deposit" => i.sender # None
    /\ i.sender # i.receiver

\* What a movement of input i adds to the balance of account a.
Delta(i, a) == (IF a = i.receiver THEN i.amount ELSE 0)
               - (IF a = i.sender THEN i.amount ELSE 0)

\* The transfer's daily total as the aggregate computes it: it matches
\* documents whose status is "completed" and sums a field amountCents that
\* Transaction documents do not have, which $sum counts as 0.
DailySpent(a) ==
    LET matched == {t \in transactions : /\ t.sender = a
                                         /\ t.type = "TRANSFER"
                                         /\ t.status = "completed"}
        AmountCents(t) == 0
    IN  MapThenSumSet(AmountCents, matched)

\* Mutant: the balance check is left to the client.
AdmissibleUnfunded(i, docs) ==
    /\ Touched(i) \subseteq Accounts
    /\ \A a \in Touched(i) : docs[a].isActive = "active"
    /\ Owner[IF i.purpose = "deposit" THEN i.receiver ELSE i.sender] = i.userId

\* The business rules inside withTransaction, evaluated on documents docs.
\* The last one is the schemas' minimum of 1 on the amount field, which a
\* withdrawal fills with fromCents(amountCents).
Admissible(i, docs) ==
    /\ Touched(i) \subseteq Accounts
    /\ \A a \in Touched(i) : docs[a].isActive = "active"
    /\ Owner[IF i.purpose = "deposit" THEN i.receiver ELSE i.sender] = i.userId
    /\ i.purpose = "transfer" =>
           /\ Currency[i.sender] = Currency[i.receiver]
           /\ DailySpent(i.sender) + i.amount =< DailyLimit
    /\ i.purpose # "deposit" => docs[i.sender].balance >= i.amount
    /\ i.purpose = "withdrawal" => FromCents(i.amount) >= Cent

\* Mutant: Transaction documents have no unique index.
DuplicateByRecordOnly(i) ==
    \E d \in idempotency : d.userId = i.userId /\ d.key = i.key /\ d.purpose = i.purpose

\* The unique indexes: idempotencyKey of Transaction, for all users and
\* purposes alike, and {userId, key, purpose} of Idempotency.
Duplicate(i) ==
    \/ \E t \in transactions : t.idempotencyKey = i.key
    \/ \E d \in idempotency : /\ d.userId = i.userId
                              /\ d.key = i.key
                              /\ d.purpose = i.purpose

\* The Account document after the movement; each handler bumps __v.
Moved(i, a, doc) ==
    [balance |-> doc.balance + Delta(i, a), isActive |-> doc.isActive, v |-> doc.v + 1]

\* The Transaction document.  The withdrawal's balanceAfter is read from the
\* document fetched before the debit, and its amount is in units.
TransactionDoc(r, i, docs) ==
    LET own == IF i.purpose = "deposit" THEN i.receiver ELSE i.sender
    IN  [id |-> r,
         type |-> CASE i.purpose = "deposit" -> "DEPOSIT"
                    [] i.purpose = "transfer" -> "TRANSFER"
                    [] OTHER -> "WITHDRAW",
         sender |-> i.sender,
         receiver |-> i.receiver,
         amount |-> IF i.purpose = "withdrawal" THEN FromCents(i.amount)
                    ELSE i.amount,
         idempotencyKey |-> i.key,
         balanceAfter |-> IF i.purpose = "withdrawal" THEN docs[own].balance
                          ELSE docs[own].balance + Delta(i, own),
         status |-> "PENDING"]

\* Mutant: every entry carries units, as the withdrawal's does.
EntryInUnits(r, i, a, doc) ==
    [transaction |-> r,
     type |-> IF a = i.receiver THEN "CREDIT" ELSE "DEBIT",
     amount |-> FromCents(i.amount),
     before |-> doc.balance,
     after |-> IF i.purpose = "withdrawal" THEN doc.balance
               ELSE doc.balance + Delta(i, a)]

\* The LedgerEntry of account a.  The withdrawal's entry carries the amount in
\* units and the balance before the debit twice.
Entry(r, i, a, doc) ==
    [transaction |-> r,
     type |-> IF a = i.receiver THEN "CREDIT" ELSE "DEBIT",
     amount |-> IF i.purpose = "withdrawal" THEN FromCents(i.amount)
                ELSE i.amount,
     before |-> doc.balance,
     after |-> IF i.purpose = "withdrawal" THEN doc.balance
               ELSE doc.balance + Delta(i, a)]

IdempotencyDoc(r, i) ==
    [userId |-> i.userId, key |-> i.key, purpose |-> i.purpose, transaction |-> r]

\* The Idempotency documents findOne matches for input i.
RecordsOf(i) == {d \in idempotency : /\ d.userId = i.userId
                                     /\ d.key = i.key
                                     /\ d.purpose = i.purpose}

-----------------------------------------------------------------------------
(* Initial state: accounts with some history, summed up in one ledger      *)
(* entry, and no request yet.                                              *)

NoReply == [kind |-> "none", transaction |-> None]
NoSnapshot == << >>

OpeningLedger(a) ==
    IF OpeningBalance[a] = 0 THEN << >>
    ELSE <<[transaction |-> None, type |-> "CREDIT", amount |-> OpeningBalance[a],
            before |-> 0, after |-> OpeningBalance[a]]>>

Init ==
    /\ account = [a \in Accounts |->
                     [balance |-> OpeningBalance[a], isActive |-> "active", v |-> 0]]
    /\ ledger = [a \in Accounts |-> OpeningLedger(a)]
    /\ transactions = {}
    /\ idempotency = {}
    /\ lock = [s \in Slots |-> None]
    /\ cache = [s \in Slots |-> None]
    /\ pc = [r \in Requests |-> "idle"]
    /\ input = [r \in Requests |-> None]
    /\ snapshot = [r \in Requests |-> NoSnapshot]
    /\ reply = [r \in Requests |-> NoReply]
    /\ emails = {}
    /\ lapsed = {}

-----------------------------------------------------------------------------
(* Steps of a handler.                                                     *)

Goto(r, label) == pc' = [pc EXCEPT ![r] = label]

\* The response, unless the response timeout has already answered.
Answer(r, kind, t) ==
    reply' = IF reply[r] = NoReply
             THEN [reply EXCEPT ![r] = [kind |-> kind, transaction |-> t]]
             ELSE reply

\* The handler is called: validation answers 400 or lets the request in.
Arrive(r, i) ==
    /\ pc[r] = "idle"
    /\ input' = [input EXCEPT ![r] = i]
    /\ \/ /\ Valid(i)
          /\ Goto(r, "cache")
          /\ UNCHANGED reply
       \/ /\ ~Valid(i)
          /\ Goto(r, "done")
          /\ Answer(r, "failed", None)
    /\ UNCHANGED <<mongo, redisVars, snapshot, emails, lapsed>>

\* The deposit looks its user up first; a missing user or a failed query
\* ends it before it holds anything.
DepositUserLookupFails(r) ==
    /\ pc[r] = "cache"
    /\ input[r].purpose = "deposit"
    /\ Answer(r, "failed", None)
    /\ Goto(r, "done")
    /\ UNCHANGED <<mongo, redisVars, input, snapshot, emails, lapsed>>

\* checkRedisCache finds a cached response and the handler replays it.
CacheHit(r) ==
    LET s == Slot(input[r])
    IN  /\ pc[r] = "cache"
        /\ cache[s] # None
        /\ Answer(r, "replayed", cache[s])
        /\ Goto(r, "done")
        /\ UNCHANGED <<mongo, redisVars, input, snapshot, emails, lapsed>>

\* checkRedisCache returns null: nothing is cached, or the GET failed and
\* the error was swallowed.
CacheMiss(r) ==
    /\ pc[r] = "cache"
    /\ Goto(r, "lock")
    /\ UNCHANGED <<mongo, redisVars, input, snapshot, reply, emails, lapsed>>

\* acquireRedisLock: SET NX PX succeeds.
AcquireLock(r) ==
    LET s == Slot(input[r])
    IN  /\ pc[r] = "lock"
        /\ lock[s] = None
        /\ lock' = [lock EXCEPT ![s] = r]
        /\ Goto(r, "record")
        /\ UNCHANGED <<mongo, cache, input, snapshot, reply, emails, lapsed>>

\* Mutant: the handler returns without a response.
LockBusySilent(r) ==
    /\ pc[r] = "lock"
    /\ lock[Slot(input[r])] # None
    /\ Goto(r, "done")
    /\ UNCHANGED <<mongo, redisVars, input, snapshot, reply, emails, lapsed>>

\* Another request holds the lock: 409.
LockBusy(r) ==
    /\ pc[r] = "lock"
    /\ lock[Slot(input[r])] # None
    /\ Answer(r, "busy", None)
    /\ Goto(r, "done")
    /\ UNCHANGED <<mongo, redisVars, input, snapshot, emails, lapsed>>

\* The SET call rejects: 503.  Redis may have executed it all the same, and
\* then nobody releases the lock: the throw is outside the try block.
LockUnavailable(r) ==
    LET s == Slot(input[r])
    IN  /\ pc[r] = "lock"
        /\ \/ UNCHANGED lock
           \/ lock[s] = None /\ lock' = [lock EXCEPT ![s] = r]
        /\ Answer(r, "unavailable", None)
        /\ Goto(r, "done")
        /\ UNCHANGED <<mongo, cache, input, snapshot, emails, lapsed>>

\* Idempotency.findOne finds the request done: refill the cache and replay.
\* The SET is awaited without a catch, so its failure is the reply; Redis may
\* have executed it all the same.
RecordFound(r) ==
    LET s == Slot(input[r])
    IN  /\ pc[r] = "record"
        /\ \E d \in RecordsOf(input[r]) :
              \/ /\ cache' = [cache EXCEPT ![s] = d.transaction]
                 /\ Answer(r, "replayed", d.transaction)
              \/ /\ Answer(r, "failed", None)
                 /\ cache' \in {cache, [cache EXCEPT ![s] = d.transaction]}
        /\ Goto(r, "release")
        /\ UNCHANGED <<mongo, lock, input, snapshot, emails, lapsed>>

\* No record.  Transfer and withdraw now look the user up and may refuse it.
RecordMissing(r) ==
    /\ pc[r] = "record"
    /\ RecordsOf(input[r]) = {}
    /\ \/ /\ Goto(r, "txRead")
          /\ UNCHANGED reply
       \/ /\ input[r].purpose # "deposit"
          /\ Goto(r, "release")
          /\ Answer(r, "failed", None)
    /\ UNCHANGED <<mongo, redisVars, input, snapshot, emails, lapsed>>

\* Mutant: the session is not ended, its transaction stays open.
MongoFailsSessionOpen(r) ==
    /\ pc[r] \in {"record", "txRead", "txCommit"}
    /\ Answer(r, "failed", None)
    /\ Goto(r, "release")
    /\ UNCHANGED <<mongo, redisVars, input, snapshot, emails, lapsed>>

\* Mutant: withTransaction swallows the error and the handler goes on.
MongoFailsSwallowed(r) ==
    /\ pc[r] \in {"record", "txRead", "txCommit"}
    /\ snapshot' = [snapshot EXCEPT ![r] = NoSnapshot]
    /\ Goto(r, "setCache")
    /\ UNCHANGED <<mongo, redisVars, input, reply, emails, lapsed>>

\* Any MongoDB call rejects for good (the driver's retries included): the
\* transaction aborts and the finally block runs.
MongoFails(r) ==
    /\ pc[r] \in {"record", "txRead", "txCommit"}
    /\ snapshot' = [snapshot EXCEPT ![r] = NoSnapshot]
    /\ Answer(r, "failed", None)
    /\ Goto(r, "release")
    /\ UNCHANGED <<mongo, redisVars, input, emails, lapsed>>

\* The transaction's reads.  All of them see the snapshot opened by the first.
TxRead(r) ==
    /\ pc[r] = "txRead"
    /\ Admissible(input[r], account)
    /\ snapshot' = [snapshot EXCEPT ![r] = [a \in Touched(input[r]) |-> account[a]]]
    /\ Goto(r, "txCommit")
    /\ UNCHANGED <<mongo, redisVars, input, reply, emails, lapsed>>

\* A business rule throws an ApiError in the callback: abort.
TxRefuse(r) ==
    /\ pc[r] = "txRead"
    /\ ~Admissible(input[r], account)
    /\ Answer(r, "failed", None)
    /\ Goto(r, "release")
    /\ UNCHANGED <<mongo, redisVars, input, snapshot, emails, lapsed>>

\* Mutant: no version filter and no conflict detection.
SnapshotUnchecked(r) == pc[r] = "txCommit"

\* Mutant: only the balance is compared.
SnapshotSameBalance(r) ==
    \A a \in Touched(input[r]) : account[a].balance = snapshot[r][a].balance

\* No account document read has been written by anyone since the snapshot.
\* The three handlers and the status changes bump v.  A payment does not: two
\* that cancel out between the read and the commit are not told from none.
SnapshotCurrent(r) == \A a \in Touched(input[r]) : account[a] = snapshot[r][a]

\* A document this transaction writes was written since its snapshot: MongoDB
\* aborts it with a transient write conflict and the driver runs fn again.
TxConflict(r) ==
    /\ pc[r] = "txCommit"
    /\ ~SnapshotCurrent(r)
    /\ snapshot' = [snapshot EXCEPT ![r] = NoSnapshot]
    /\ Goto(r, "txRead")
    /\ UNCHANGED <<mongo, redisVars, input, reply, emails, lapsed>>

\* Mutant: E11000 is taken for success.
TxDuplicateIgnored(r) ==
    /\ pc[r] = "txCommit"
    /\ Duplicate(input[r])
    /\ snapshot' = [snapshot EXCEPT ![r] = NoSnapshot]
    /\ Goto(r, "setCache")
    /\ UNCHANGED <<mongo, redisVars, input, reply, emails, lapsed>>

\* An insert meets a unique index: E11000 aborts the transaction.
TxDuplicate(r) ==
    /\ pc[r] = "txCommit"
    /\ Duplicate(input[r])
    /\ snapshot' = [snapshot EXCEPT ![r] = NoSnapshot]
    /\ Answer(r, "failed", None)
    /\ Goto(r, "release")
    /\ UNCHANGED <<mongo, redisVars, input, emails, lapsed>>

\* The transaction commits: balances, ledger, Transaction and Idempotency
\* documents appear together.  The commit's acknowledgement may be lost for
\* longer than the driver retries it; the handler then sees an error.
TxCommit(r) ==
    LET i == input[r]
    IN  /\ pc[r] = "txCommit"
        /\ SnapshotCurrent(r)
        /\ ~Duplicate(i)
        /\ account' = [a \in Accounts |->
                          IF a \in Touched(i) THEN Moved(i, a, snapshot[r][a])
                          ELSE account[a]]
        /\ ledger' = [a \in Accounts |->
                          IF a \in Touched(i)
                          THEN Append(ledger[a], Entry(r, i, a, snapshot[r][a]))
                          ELSE ledger[a]]
        /\ transactions' = transactions \cup {TransactionDoc(r, i, snapshot[r])}
        /\ idempotency' = idempotency \cup {IdempotencyDoc(r, i)}
        /\ snapshot' = [snapshot EXCEPT ![r] = NoSnapshot]
        /\ \/ /\ Goto(r, "setCache")
              /\ UNCHANGED reply
           \/ /\ Goto(r, "release")
              /\ Answer(r, "failed", None)
        /\ UNCHANGED <<redisVars, input, emails, lapsed>>

\* The replay cache is filled; a failure is logged and ignored.
SetCache(r) ==
    /\ pc[r] = "setCache"
    /\ cache' \in {cache, [cache EXCEPT ![Slot(input[r])] = r]}
    /\ Goto(r, "notify")
    /\ UNCHANGED <<mongo, lock, input, snapshot, reply, emails, lapsed>>

\* The email templates a movement is announced with.
Notices(i) ==
    CASE i.purpose = "deposit" -> {"deposit"}
      [] i.purpose = "transfer" -> {"sent", "received"}
      [] OTHER -> {"withdraw"}

\* The notification jobs are enqueued and the success response is sent.  The
\* transfer catches a failure to enqueue either of its two jobs.
Notify(r) ==
    /\ pc[r] = "notify"
    /\ \E queued \in SUBSET Notices(input[r]) :
          /\ input[r].purpose # "transfer" => queued = Notices(input[r])
          /\ emails' = emails \cup {[request |-> r, template |-> n] : n \in queued}
    /\ Answer(r, "created", r)
    /\ Goto(r, "release")
    /\ UNCHANGED <<mongo, redisVars, input, snapshot, lapsed>>

\* The awaited enqueue of a deposit or a withdrawal rejects, having added the
\* job or not, or the transfer's lookup of the receiver rejects or finds nobody,
\* which throws after the sender's job was added: an error response for a
\* committed movement.
NotifyFails(r) ==
    /\ pc[r] = "notify"
    /\ \E queued \in SUBSET (Notices(input[r]) \ {"received"}) :
          emails' = emails \cup {[request |-> r, template |-> n] : n \in queued}
    /\ Answer(r, "failed", None)
    /\ Goto(r, "release")
    /\ UNCHANGED <<mongo, redisVars, input, snapshot, lapsed>>

\* Mutant: a plain DEL, whoever holds the lock.
ReleaseAnyHolder(r) ==
    /\ pc[r] = "release"
    /\ lock' = [lock EXCEPT ![Slot(input[r])] = None]
    /\ Goto(r, "done")
    /\ UNCHANGED <<mongo, cache, input, snapshot, reply, emails, lapsed>>

\* finally: the Lua script deletes the lock if it still holds this request's
\* token; a failure is logged and leaves the lock to its TTL.
Release(r) ==
    LET s == Slot(input[r])
    IN  /\ pc[r] = "release"
        /\ \/ lock' = IF lock[s] = r THEN [lock EXCEPT ![s] = None] ELSE lock
           \/ UNCHANGED lock
        /\ Goto(r, "done")
        /\ UNCHANGED <<mongo, cache, input, snapshot, reply, emails, lapsed>>

-----------------------------------------------------------------------------
(* Time and failures.                                                      *)

Active(r) == pc[r] \notin {"idle", "done", "crashed"}

\* Between a successful SET NX and the finally block.
InSection(r) == pc[r] \in {"record", "txRead", "txCommit", "setCache", "notify", "release"}

\* The response timeout answers 503 while the handler goes on.
ResponseTimeout(r) ==
    /\ Active(r)
    /\ reply[r] = NoReply
    /\ Answer(r, "timedOut", None)
    /\ UNCHANGED <<mongo, redisVars, pc, input, snapshot, emails, lapsed>>

\* The worker process dies: its open transaction aborts, its lock stays.
Crash(r) ==
    /\ Active(r)
    /\ Goto(r, "crashed")
    /\ snapshot' = [snapshot EXCEPT ![r] = NoSnapshot]
    /\ UNCHANGED <<mongo, redisVars, input, reply, emails, lapsed>>

\* The 30 s TTL of a lock runs out.
LockExpire(s) ==
    /\ lock[s] # None
    /\ lock' = [lock EXCEPT ![s] = None]
    /\ lapsed' = IF InSection(lock[s]) THEN lapsed \cup {lock[s]} ELSE lapsed
    /\ UNCHANGED <<mongo, cache, pc, input, snapshot, reply, emails>>

\* The TTL of a cached response runs out, or Redis loses it.
CacheExpire(s) ==
    /\ cache[s] # None
    /\ cache' = [cache EXCEPT ![s] = None]
    /\ UNCHANGED <<mongo, lock, pc, input, snapshot, reply, emails, lapsed>>

\* The 24 h TTL index removes an Idempotency document.
RecordExpire(d) ==
    /\ d \in idempotency
    /\ idempotency' = idempotency \ {d}
    /\ UNCHANGED <<account, ledger, transactions, redisVars, pc, input, snapshot,
                   reply, emails, lapsed>>

-----------------------------------------------------------------------------
\* Every await of a handler ends, in success or failure.
Handle(r) ==
    \/ DepositUserLookupFails(r)
    \/ CacheHit(r)
    \/ CacheMiss(r)
    \/ AcquireLock(r)
    \/ LockBusy(r)
    \/ LockUnavailable(r)
    \/ RecordFound(r)
    \/ RecordMissing(r)
    \/ MongoFails(r)
    \/ TxRead(r)
    \/ TxRefuse(r)
    \/ TxConflict(r)
    \/ TxDuplicate(r)
    \/ TxCommit(r)
    \/ SetCache(r)
    \/ Notify(r)
    \/ NotifyFails(r)
    \/ Release(r)

Environment ==
    \/ \E r \in Requests : ResponseTimeout(r) \/ Crash(r)
    \/ \E s \in Slots : LockExpire(s) \/ CacheExpire(s)
    \/ \E d \in idempotency : RecordExpire(d)

Next ==
    \/ \E r \in Requests, i \in Inputs : Arrive(r, i)
    \/ \E r \in Requests : Handle(r)
    \/ Environment

Spec == Init /\ [][Next]_vars

(* Fairness: an await settles.  Nothing is promised about arrivals, crashes *)
(* or TTLs.                                                                 *)
Fairness == \A r \in Requests : WF_vars(Handle(r))

FairSpec == Spec /\ Fairness

-----------------------------------------------------------------------------
(* Type invariant.                                                         *)

AccountDocs == [balance : Int, isActive : {"active", "suspended", "closed"}, v : Nat]

LedgerDocs ==
    [transaction : Requests \cup {None}, type : {"CREDIT", "DEBIT"},
     amount : Int, before : Int, after : Int]

TransactionDocs ==
    [id : Requests, type : {"DEPOSIT", "TRANSFER", "WITHDRAW"},
     sender : Accounts \cup {None}, receiver : Accounts \cup {None},
     amount : Int, idempotencyKey : Keys, balanceAfter : Int, status : {"PENDING"}]

IdempotencyDocs ==
    [userId : Users, key : Keys, purpose : Purposes, transaction : Requests]

Labels == {"idle", "cache", "lock", "record", "txRead", "txCommit", "setCache",
           "notify", "release", "done", "crashed"}

Replies ==
    [kind : {"none", "created", "replayed", "busy", "unavailable", "failed", "timedOut"},
     transaction : Requests \cup {None}]

\* Every variable has the type of the documents, Redis values and handler
\* states it stands for; a running transaction holds the documents it touches.
TypeOK ==
    /\ account \in [Accounts -> AccountDocs]
    /\ ledger \in [Accounts -> Seq(LedgerDocs)]
    /\ transactions \subseteq TransactionDocs
    /\ idempotency \subseteq IdempotencyDocs
    /\ lock \in [Slots -> Requests \cup {None}]
    /\ cache \in [Slots -> Requests \cup {None}]
    /\ pc \in [Requests -> Labels]
    /\ input \in [Requests -> Inputs \cup {None}]
    /\ \A r \in Requests :
           /\ pc[r] = "idle" <=> input[r] = None
           /\ pc[r] \notin {"idle", "done"} => Valid(input[r])
           /\ pc[r] = "txCommit" => snapshot[r] \in [Touched(input[r]) -> AccountDocs]
           /\ pc[r] # "txCommit" => snapshot[r] = NoSnapshot
    /\ DOMAIN snapshot = Requests
    /\ reply \in [Requests -> Replies]
    /\ emails \subseteq [request : Requests,
                         template : {"deposit", "sent", "received", "withdraw"}]
    /\ lapsed \subseteq Requests

-----------------------------------------------------------------------------
(* Safety.                                                                 *)

Committed(r) == \E t \in transactions : t.id = r

\* However often a client retries a key, whatever locks and records expire in
\* between, at most one of its requests moves money.
AtMostOnce ==
    \A r, s \in Requests :
        Committed(r) /\ Committed(s) /\ Slot(input[r]) = Slot(input[s]) => r = s

\* What the committed requests asked for, each counted once.
MovementTotal(a) == SumFunction([t \in transactions |-> Delta(input[t.id], a)])

\* A balance is the opening balance plus what the committed requests asked for:
\* no update is lost, doubled or half done.
BalancesExplained ==
    \A a \in Accounts : account[a].balance = OpeningBalance[a] + MovementTotal(a)

\* Concurrent debits checked on snapshots never overdraw an account.
NoOverdraft == \A a \in Accounts : account[a].balance >= 0

Withdrawn(a) == \E t \in transactions : t.type = "WITHDRAW" /\ t.sender = a

\* The running balances of the ledger of an account that nobody has withdrawn
\* from form a chain that starts at 0 and ends at the account's balance, though
\* every handler computes them in memory.  A withdrawal breaks its account's
\* chain (LedgerReconciles).
LedgerChained ==
    \A a \in Accounts :
        LET es == ledger[a]
        IN  ~Withdrawn(a) =>
              /\ \A n \in DOMAIN es :
                    /\ es[n].after = es[n].before
                         + (IF es[n].type = "CREDIT" THEN es[n].amount ELSE -es[n].amount)
                    /\ es[n].before = IF n = 1 THEN 0 ELSE es[n-1].after
              /\ account[a].balance = IF es = << >> THEN 0 ELSE es[Len(es)].after

\* verifyBalance: credits minus debits, as the handler sums them.
Reconstructed(a) ==
    SumFunction([n \in DOMAIN ledger[a] |->
                    IF ledger[a][n].type = "CREDIT" THEN ledger[a][n].amount
                    ELSE -ledger[a][n].amount])

\* What the withdrawals took from the account and their entries leave out, being
\* in units.
Unrecorded(a) ==
    SumFunction([t \in transactions |->
                    IF t.type = "WITHDRAW" /\ t.sender = a THEN input[t.id].amount - t.amount
                    ELSE 0])

\* verifyBalance is off by what the entries of withdrawals leave out and by
\* nothing else: however movements interleave, the ledger has one entry for each
\* committed movement of the account, and no others.
DiscrepancyExplained ==
    \A a \in Accounts : Reconstructed(a) = account[a].balance + Unrecorded(a)

\* verifyBalance finds an account's balance equal to its ledger exactly until
\* a withdrawal from it is committed; no later movement makes up for one.
ReconciledUntilWithdrawal ==
    CentsPerUnit > 1 =>
        \A a \in Accounts :
            Reconstructed(a) = account[a].balance
                <=> \A t \in transactions : ~(t.type = "WITHDRAW" /\ t.sender = a)

\* verifyBalance finds the balance of every account equal to what its ledger
\* entries add up to.
LedgerReconciles == \A a \in Accounts : Reconstructed(a) = account[a].balance

\* A client told that its movement was made, now or before, is told the truth:
\* the movement is committed and was asked for by the same user and key.
ReplyTruthful ==
    \A r \in Requests :
        reply[r].kind \in {"created", "replayed"} =>
            /\ reply[r].transaction # None
            /\ Committed(reply[r].transaction)
            /\ Slot(input[reply[r].transaction]) = Slot(input[r])

\* Two handlers work on one user and key at the same time only if one of them
\* has outlived its lock: no release ever frees another request's lock.
MutualExclusion ==
    \A r, s \in Requests :
        /\ r # s
        /\ InSection(r) /\ InSection(s)
        /\ Slot(input[r]) = Slot(input[s])
        => r \in lapsed \/ s \in lapsed

\* A notification announces a movement that was made, and only its own kind.
EmailsAnnounceMovements ==
    \A e \in emails : Committed(e.request) /\ e.template \in Notices(input[e.request])

-----------------------------------------------------------------------------
(* What makes the safety properties inductive.                             *)

\* A transaction about to commit has passed the business rules on the very
\* documents its commit requires to be unchanged.
CommitReady ==
    \A r \in Requests :
        pc[r] = "txCommit" =>
            /\ Touched(input[r]) \subseteq Accounts
            /\ \A a \in Touched(input[r]) : snapshot[r][a].isActive = "active"
            /\ input[r].purpose # "deposit" =>
                   snapshot[r][input[r].sender].balance >= input[r].amount

\* Transaction documents belong to requests that have got past their commit,
\* and no two have the same idempotency key.
TransactionsLinked ==
    /\ \A t \in transactions :
           /\ pc[t.id] \in {"setCache", "notify", "release", "done", "crashed"}
           /\ t.idempotencyKey = input[t.id].key
    /\ \A t, u \in transactions : t.idempotencyKey = u.idempotencyKey => t = u

\* Whatever a replay may be taken from leads back to a committed request of
\* the same user and key.
RecordsLinked ==
    \A d \in idempotency :
        /\ Committed(d.transaction)
        /\ Slot(input[d.transaction]) = <<d.userId, d.key>>

CacheLinked ==
    \A s \in Slots :
        cache[s] # None => Committed(cache[s]) /\ Slot(input[cache[s]]) = s

\* Past a commit the handler's movement is there; before the call, no reply is.
CommitKnown ==
    \A r \in Requests :
        /\ pc[r] \in {"setCache", "notify"} => Committed(r)
        /\ pc[r] = "idle" => reply[r] = NoReply

Linked == TransactionsLinked /\ RecordsLinked /\ CacheLinked /\ CommitKnown

\* A handler between its SET NX and its finally block holds the lock of its
\* user and key, unless the lock's TTL ran out on it.
HolderOrLapsed ==
    \A r \in Requests : InSection(r) => lock[Slot(input[r])] = r \/ r \in lapsed

-----------------------------------------------------------------------------
(* Liveness, under FairSpec.                                               *)

\* Every request that gets past validation is answered unless its worker dies:
\* conflicts do not keep it busy for ever, nor does a lock that a crash, a lost
\* answer to the SET or a failed release has leaked.
RequestsAnswered ==
    \A r \in Requests :
        Active(r) ~> \/ pc[r] = "done" /\ reply[r] # NoReply
                     \/ pc[r] = "crashed"

-----------------------------------------------------------------------------
(* What documents and comments of the repository claim and the code does   *)
(* not do.                                                                 *)

\* Only a completed record of the same user, key and purpose is replayed.
ReplaySamePurpose ==
    \A r \in Requests :
        reply[r].kind = "replayed" => input[reply[r].transaction].purpose = input[r].purpose

-----------------------------------------------------------------------------
(* The engine implements the abstract bank: funds are the balances, and a  *)
(* user and key are settled once a request of theirs has committed.        *)

Funds == [a \in Accounts |-> account[a].balance]
Settled == {Slot(input[t.id]) : t \in transactions}
Acknowledged ==
    {Slot(input[r]) : r \in {x \in Requests : reply[x].kind \in {"created", "replayed"}}}

Promise == INSTANCE Bank WITH
    Opening <- OpeningBalance,
    Ids <- Slots,
    Amounts <- {i.amount : i \in Inputs},
    funds <- Funds,
    settled <- Settled,
    acknowledged <- Acknowledged

\* Every step of the engine, crashes, expiries and retries included, is a step
\* of the abstract bank or changes nothing it can see.
ImplementsBank == Promise!Spec

=============================================================================
