# A TLA+ model of the bank transactions API

Modules, TLC configurations and TLAPS proofs for the Node.js service under
`src/app/`: Express handlers in a cluster of workers, MongoDB (Mongoose) for
documents, Redis for locks and caches, BullMQ for email jobs.

## Inventory of the system

| Component | State it keeps | Operations | Hard behaviour | What makes it correct |
|---|---|---|---|---|
| Transaction engine (`controller/transaction.controller.js`, `utils/transaction.utils.js`, `utils/withTransaction.js`) | `BankAccount`, `LedgerEntry`, `Transaction`, `Idempotency` documents; Redis lock and replay cache per user and key | deposit, transfer, withdraw, verifyBalance | interleaved handlers, lock TTL, retries, lost acknowledgements, crashes, late answers | a key moves money at most once; balances are explained by committed requests; no overdraft; ledger chained; replies true |
| Account status (`controller/account.controller.js`) | `isActive` and `__v` of the same documents | freeze, unfreeze | fetch and save race movements and each other | frozen funds stand still; a change starts from the status checked |
| Account opening (same file) | `BankAccount` documents | createAccount | write skew between two requests | a key opens one account; at most three accounts and one savings account unless requests overlap |
| Beneficiaries (`controller/beneficiary.controller.js`, `utils/opt.utils.js`, OTP model) | `Beneficiary`, `Otp` documents | add, confirm, list, remove | check-then-act, attempts counted by read and save, several OTPs | one document per pair; verified only through its own OTP; bounded attempts |
| Beneficiary transfer (same file) | balances, `Transaction` | transferToBeneficiary | no lock, no version, no ledger, no replay | no overdraft, a key moves money once, every balance accounted for |
| Auth sessions (`controller/auth.controller.js`, `models/refreshToken.model.js`) | refresh tokens by family | login, refresh, logout, logout of all | rotation races, crash between revoke and store | a session is a chain with one live token; what a revocation found live stays dead |
| User lifecycle (same controller) | `User` documents | register, verify, deactivate, reactivate | check-then-act on email; saves of copies read before | one registration per address; a deactivation is undone only by a reactivation that saw it; deactivated users get no tokens and no accounts |
| Email queue and worker (`queues/`) | BullMQ jobs | enqueue, process | retry, stall, late executions, death of the worker | mails are truthful and bounded; every job ends once |
| History queries | Redis pages | history, ledger, by id | stale pages | a page was true once, within the TTL |
| Rate limiting | a window per worker | limiters | one window per worker process | limit per client |
| Timeout and cluster (`app.js`, `server.js`) | the response, the workers | 503 after 30 s, respawn | timeout races the handler; a worker dies | every request answered once |
| Plumbing | - | errors, responses, logging, configuration | - | - |

Interactions. Handlers share documents and Redis keys, never memory: two
handlers interact only at their awaits. The engine and the status handlers
write the same `BankAccount` documents, and so do payments to beneficiaries,
which share the unique index on the keys of `Transaction` documents with it, too;
logins, refreshes and account openings read the `User` documents that other
handlers change; the engine hands jobs to the email queue; the timeout answers
for a handler that goes on.

## Modules

| Module | Models |
|---|---|
| `TransactionEngine` | deposit, transfer, withdraw and verifyBalance with everything they call |
| `Bank` | the abstract specification: atomic movements, each id at most once, truthful acknowledgements |
| `AccountStatus` | freezeAccount and unfreezeAccount |
| `BankSystem` | engine, status handlers and payments on the same accounts |
| `FreezableBank` | the abstract specification of the three together: `Bank` with accounts that can be frozen |
| `Beneficiaries` | addBeneficiary, confirmBeneficiaryOtp and removeBeneficiary with sendOtp and the OTP documents |
| `Enrolment` | the abstract specification of it: propose, issue a code, approve, remove |
| `BeneficiaryTransfer` | transferToBeneficiary |
| `UserLifecycle` | the `User` documents: register, activateUser, deactivateUser, deactivateOwnAccount, requestReactivationOtp, verifyReactivationOtp, authMiddleware |
| `Sessions` | the refresh tokens: login, refreshToken, logout, logoutAllSessions |
| `SessionChain` | the abstract specification of them: a session is a chain of tokens |
| `AccountOpening` | createAccount |
| `UserSystem` | the three of them on the same `User` documents |
| `EmailQueue` | the BullMQ queue and its worker |
| `Notifications` | the engine and the queue that mails its notifications |
| `TransactionEngineProofs`, `BalanceProofs`, `BankSystemProofs`, `BeneficiariesProofs`, `UserSystemProofs`, `NotificationsProofs` | theorems and proofs |
| `SumTheorems` | what the proofs use of sums over finite sets |
| `MCTransactionEngine`, `MCBankSystem`, `MCBeneficiaries`, `MCUserSystem`, `MCNotifications` | instances for TLC |

### TransactionEngine

A request `r` is one execution of a handler. `pc[r]` says which await it stands
at, `input[r]` what it was called with, `snapshot[r]` the documents its MongoDB
transaction has read, `reply[r]` the first response its client got. A retry is
another request with the same input.

| Label | Await | Actions |
|---|---|---|
| `idle` | - | `Arrive` (validation before the first await: 400 or go on) |
| `cache` | `checkRedisCache` (a deposit first looks its user up) | `CacheHit`, `CacheMiss`, `DepositUserLookupFails` |
| `lock` | `acquireRedisLock`, SET NX PX | `AcquireLock`, `LockBusy` (409), `LockUnavailable` (503; the SET may have been executed) |
| `record` | `Idempotency.findOne`, then the sender lookup | `RecordFound`, `RecordMissing`, `MongoFails` |
| `txRead` | the reads and rules in `withTransaction` | `TxRead`, `TxRefuse`, `MongoFails` |
| `txCommit` | the writes and the commit | `TxCommit`, `TxConflict` (transient: run again), `TxDuplicate` (E11000), `MongoFails` |
| `setCache` | `redis.set(...).catch` | `SetCache` |
| `notify` | `emailQueue.add`, response | `Notify`, `NotifyFails` |
| `release` | `finally`: the Lua script | `Release` |
| `done`, `crashed` | - | - |

`ResponseTimeout`, `Crash`, `LockExpire`, `CacheExpire` and `RecordExpire` may
happen between any two of these.

Abstractions, each on purpose:

* *MongoDB's conflicts are detected at the commit.* The code reads, then writes
  with `__v` filters or `save()`; MongoDB aborts a transaction that writes a
  document written since its snapshot, and the driver runs the callback again.
  `SnapshotCurrent` is that condition. Detecting it at the first write
  instead only changes when the loser starts again. Every writer but
  `BeneficiaryTransfer` bumps `__v`, so comparing documents is comparing versions;
  a payment changes the balance without it, and MongoDB notices the write itself.
* *Money is counted in hundredths of a cent.* The code's numbers have up to two
  decimals, and the decimals of a payment are taken for decimals of a cent; in
  hundredths all of them are integers and `FromCents` divides exactly. What the engine
  moves are whole cents, because `toCents` rounds. One withdrawal of the instance is of
  a unit and a half, one below a unit, for the schema's minimum. JavaScript adds doubles,
  which once a balance has a fraction may differ from these sums far below a
  hundredth; that error is not modelled.
* *The day does not end*: all transfers of a run are today's.
* *The history before the run* is one credit per account (`OpeningLedger`).
* *A crash is per request.* A dying worker takes all of its requests with it;
  crashes of single requests allow those combinations and more.
* *A user's own checks* (exists, verified, active) are a choice in
  `RecordMissing`: the user documents belong to `UserLifecycle`.
* *The daily limit* adds up what the code adds up, which is nothing: the aggregate
  (`transaction.controller.js:261`, `:268`) asks for a status and a field that no
  document has, so `DailyLimit` bounds a single transfer only.
* `MIN_AMOUNT` as shipped (1) excludes nothing that `amount > 0` does not. A
  maximum that is not set parses to NaN and bounds nothing: `None`. The shipped
  `.env.example` sets `MAX_WITHDRAWAL_AMOUNT`, the code reads
  `MAX_WITHDRAW_AMOUNT`, so the instance leaves the withdrawals unbounded.
* The shipped `CACHE_TTL_SECONDS = 3600;` parses to NaN too and makes every
  cache write fail. The model allows each cache write to fail or succeed.

What `verifyBalance` adds up is `Reconstructed`. `Unrecorded` is what the entries of
committed withdrawals leave out, being in units; `MovementTotal` and, in `BankSystem`,
`PaymentTotal` are what the documents say was added to a balance.

### AccountStatus, BeneficiaryTransfer and BankSystem

`Fetch` is `findOne` with the checks on its result, `Save` is `account.save()`:
an update of `isActive` filtered by `__v`, because the schema has
`optimisticConcurrency`. The two share `account` with the engine; nothing else
ties them to it.

| transferToBeneficiary | Await | Actions |
|---|---|---|
| `idle` | `Account.findOne` of the sender | `PayCheck` |
| `payee` | `Beneficiary.findOne` and what it populates | `PayPayee`, `PayFails` |
| `pay` | `withTransaction` | `PayCommit`, `PayFails` |

MongoDB runs the callback again when it meets another write, so its reads, its
filtered updates and the commit are one step. Which beneficiary a request finds
is a choice: those documents are owned by `Beneficiaries`. Amounts
are any number of hundredths; they are taken off balances in cents as they come, as in
the code, so a balance need not stay a whole number of cents (`payment_cents`). A balance that
a payment and its reverse bring back to the value an engine transaction has read
is not told apart from one that never changed; MongoDB would run that transaction
again, with the same result. A key taken by the other kind of document refuses
the commit: in `PayCommit` by `KeyUsed`, in the engine by the second conjunct of
`EngineStep`, where the handler ends by `MongoFails`.

### UserLifecycle, Sessions, AccountOpening and UserSystem

A request is one execution of any of eleven handlers. `pc` says which await it
stands at, `held` what it has read and still uses.

| Handler | Label | Await | Actions |
|---|---|---|---|
| those behind `authMiddleware` | `idle` | `User.findById` of the middleware | `Middleware` |
| register | `idle`, `insert`, `enqueue` | `findOne`, `create`, `emailQueue.add` | `RegisterFind`, `RegisterCreate`, `Enqueue` |
| activateUser, requestReactivationOtp | `idle`, `save`, `enqueue` | `findById` or `findOne`, `save()`, `emailQueue.add` | `VerifyFind`, `ReactivateFind`, `Save`, `Enqueue` |
| deactivateUser, deactivateOwnAccount | `enter`, `save`, `enqueue` | the same | `DeactivateFind`, `DeactivateOwnFind`, `Save`, `Enqueue` |
| verifyReactivationOtp | `idle` | - | `VerifyReactivation` |
| login | `idle`, `store` | `User.findOne`, `RefreshToken.create` | `LoginFind`, `LoginStore` |
| refreshToken | `idle` | `RefreshToken.findOne` | `RefreshFind` |
| | `user`, `spend`, `store` | `User.findById`, `save()`, `create` | `RefreshUser`, `RefreshSpend`, `RefreshStore` |
| | `revoke` | `updateMany` of a reuse | `RevokeOne`, `RevokeEnd` |
| logout | `enter` | `findOneAndUpdate` | `Logout` |
| logoutAllSessions | `enter`, `revoke` | `updateMany` | `LogoutAllFind`, `RevokeOne`, `RevokeEnd` |
| createAccount | `enter`, `key`, `count`, `commit`, `enqueue` | `User.findById`, `findOne`, the snapshot's reads, insert and commit, `emailQueue.add` | `OpenUser`, `OpenKey`, `OpenCount`, `OpenCommit`, `Enqueue` |

`Fail` ends a handler at any await. Abstractions:

* *A save writes what Mongoose finds modified*: the assigned fields whose value
  differs from the one read. `Written` has the copy and the document for that.
  The reason of a deactivation goes with its date and is left out.
* *A token is named by the request that stores it*, a family by its first token.
* *Tokens expire without a clock*: a refresh may find any token expired, the TTL
  index may remove it at any time. Access tokens do not expire, which only lets
  clients do more.
* *`updateMany` revokes one document after another.* What was there when it
  started is revoked before it answers; what is inserted while it runs is or is not.
  The one of a reuse starts in the model with the lookup that detects it, so that a
  token stored right after may be missed, where the code's would find it.
* *Reactivation codes*: `sendOtp`, its failures included, happens between the read
  and the save and is left to `Fail`. The code is never asked for again:
  `verifyReactivationOtp` compares `otpRecord.otp`, a field OTP documents do not
  have (`auth.controller.js:288`), with the code, and refuses every request.
* *A dying worker* is a `Fail` of its requests.

The history variables `crossed`, `raced` and `crowded` note that two requests
overlapped in the one way that breaks a limit, so that the properties say of
every other history that it holds. `lineage` keeps what was stored as a token
after it is gone, `activeDuring` which users were active since a call began.

`SessionChain` has the standing of each token, its user and family, and the claims
to exchange a live token for a new one. The sessions refine it with the documents,
`lineage` and the refreshes that found their token live.

### Bank and FreezableBank

`funds`, `settled` (ids whose movement happened) and `acknowledged` (ids whose
client has been told). The engine refines it with balances, the slots of the
`Transaction` documents and the slots of the `created` and `replayed` replies.
Locks, caches, records, snapshots and crashes are stutters of it.

`FreezableBank` extends it with `frozen`. In it a movement needs accounts that are
not frozen and may be acknowledged in its own step, as a payment is. `BankSystem`
refines it with the keys instead of the slots, because payments share the unique
index on keys with the movements whoever sends them, and with the accounts that are
not active.

### Beneficiaries and Enrolment

A request is again one execution of a handler, and an OTP is named by the
request that creates it. There is no lock, no transaction and no version here,
so every await is a label:

| Handler | Label | Await | Actions |
|---|---|---|---|
| add | `idle` | the count and the account lookup | `AddCheck` |
| | `lookup` | `Beneficiary.findOne` | `AddLookup` (409, save or create) |
| | `rename`, `create` | `exists.save()`, `Beneficiary.create` | `AddRename`, `AddCreate` |
| | `clear` | `Otp.deleteMany` of the user | `AddClear` |
| | `send` | `sendOtp` | `AddSend` |
| confirm | `idle` | `Otp.findOne`, any of the user's | `ConfirmFind` |
| | `compare` | `verify` | `ConfirmCompare` |
| | `count`, `discard` | `save()`, `deleteOne()` of a wrong or expired code | `ConfirmCount`, `ConfirmDiscard` |
| | `activate` | `findOneAndUpdate` | `ConfirmActivate` |
| | `consume` | `deleteOne()` | `ConfirmConsume` |
| remove | `idle`, `unverify` | `findOne`, `save()` | `RemoveFind`, `RemoveSave` |

`Fail` ends a handler at any await, `OtpExpire` and `OtpReap` are the code's
validity and the TTL index. Saves write what Mongoose finds modified: `AddRename`
does not touch `isVerified`, because it was read false and is set to false. The
nickname is left out, and whether the account exists and is active is a choice of
`AddCheck`, as another component owns it. The three reads of `AddCheck` are one
step: the count is always zero (below, under Runs), and an account's owner
does not change.

`Enrolment` has the `standing` of each pair, the `issued` codes and the removals
under way. The handlers refine it with the state of the `Beneficiary` document,
the history of codes sent and the handlers waiting to save a removal. The OTPs,
their attempts and their expiry are stutters of it.

### EmailQueue and Notifications

`jobs[j]` is the job in Redis, `run[j]` how far the execution has come that holds
its lock, `late[j]` how many executions have lost it and not yet sent, `mails[j]`
how often the mail server has accepted the message.

| Action | Code |
|---|---|
| `Add` | `emailQueue.add`, in the step of the engine that adds it |
| `Pick` | the worker takes a job and its lock |
| `Send` | the handler of `JOB_HANDLERS` and `sendEmail`: accepted, refused, or accepted with a lost answer |
| `Finish`, `Retry` | the processor returned, or threw with or without an attempt left |
| `Stall` | BullMQ finds the lock of an active job gone: again once, then failed |
| `LateSend` | an execution without the lock sends all the same |
| `WorkerDies`, `WorkerStarts` | the `email-worker` container |

The queue, its locks and its stalled check are BullMQ's; they are modelled from the
options `emailQueue.js` and `emailWorker.js` give and the defaults they leave.
Backoff delays are left to the scheduling; five jobs at once never bind the few of
an instance. The jobs of other handlers take the same path and are not composed.

The two jobs of a transfer never send: `transfer` queues
`{ email, amount, balance, type }` and `sendTransactionNotificationEmail` takes
apart `transactionDetails`, which is undefined (`Unsendable`). `Readme.md:385`
lists the transfer among the triggers of a transaction email; the model has them
fail all their attempts, and `JobsEnd` and `CompletedMailed` hold of them, too.

## Runs

| Run | Instance | Shows |
|---|---|---|
| `engine_retries` | 3 requests, one transfer and its retries | `TypeOK`, `AtMostOnce`, `ReplyTruthful`, `MutualExclusion`, refinement `ImplementsBank` |
| `engine_contention` | 2 of 13 deposits, transfers and withdrawals, 2 accounts, 2 users | `LedgerChained`, `NoOverdraft`, `BalancesExplained`, `ReconciledUntilWithdrawal`, `EmailsAnnounceMovements` |
| `engine_liveness` | 2 requests, two transfers with different keys, fair | `RequestsAnswered` |
| `bank_system` | a transfer or a withdrawal, a payment of 150.50 with the transfer's key, 2 status changes | `SystemTypeOK`, `NoOverdraft`, `KeyMovesOnce`, `BalancesAccounted`, `DiscrepanciesAccounted`, `MoneyConserved`, `FrozenFundsStand`, `StatusCheckHolds`, refinement `ImplementsFreezableBank` |
| `beneficiaries` | 4 handlers, 2 users, 2 accounts, 2 codes | `TypeOK`, `DeadCodesStayDead`, refinement `ImplementsEnrolment` |
| `user_system` | 3 calls of any handler, 2 users, one of them registered with a session and an account | `TypeOK`, `OneRegistration`, `DeactivationDated`, `NoResurrection`, `OneLivePerFamily`, `InvalidatedStayDead`, `KeyOpensOnce`, `LimitsKept`, `DeactivatedKeptOut`, refinement `ImplementsChains` |
| `notifications` | 1 deposit or transfer, its jobs, 3 attempts, 1 stall, fair worker | `QueueTypeOK`, `MailTruthful`, `MailsBounded`, `CompletedMailed`, `OutcomeStands`, `JobsEnd` |

Three requests are enough for a retry, the holder it displaces and a third whose
lock is released for it; two for every pairwise race on documents and caches.
The balances (300 and 0) make two transfers of 200 compete and one of them
impossible. In `bank_system` a freeze and an unfreeze, or two freezes, race a
movement and a payment that want one key or the same funds; deposits race
withdrawals and transfers in `engine_contention`. Four handlers of
the beneficiaries are enough to add, confirm, remove and race any of these with one
more; two codes make a right and a wrong one, and with two accounts a code can be
for the other one. Two users show that neither works with the other's documents.
Three calls on users are a session's refresh, the one it races and a third that
revokes, deactivates or presents what the first left behind; the account limit is
2 there and one account exists, so that two openings reach and pass it. The
attempts and stalls of the queue are the configured ones. `CHECK_DEADLOCK FALSE`
everywhere: the system really stops when every request is done.

Disagreements between the documentation and the code, each a run that ends in a
counterexample:

| Run | Claim | What happens |
|---|---|---|
| `withdrawal_ledger` | `Readme.md:35`, `:371` | a withdrawal's ledger entry is in units and carries the old balance twice; `verifyBalance` finds a discrepancy, from the first withdrawal on (`ReconciledUntilWithdrawal`) |
| `cross_purpose_replay` | `idempotency.utils.js:13` | the replay cache ignores the purpose; a transfer is answered from a deposit |
| `otp_attempts` | `beneficiary.controller.js:126`, `benediciary.test.js:332` | attempts are counted on copies; four concurrent confirmations are all compared |
| `session_reuse` | `Readme.md:30`, `:312` | a refresh that passed its check stores a live successor after a reuse has been answered |
| `payment_cents` | `Readme.md:35`, `:330` | a payment of 150.50, taken for cents, leaves both balances with half a cent |

Others are plain from reading and have no run. The daily total
(`transaction.controller.js:261`) and the beneficiary count
(`beneficiary.controller.js:41`) ask for fields and values that no document has and
are always 0. `.env.example` sets `MAX_WITHDRAWAL_AMOUNT` and the code reads
`MAX_WITHDRAW_AMOUNT`. A payment takes the client's amount, in units everywhere
else, for cents, and writes no ledger entry, although `Readme.md:34` and `:359` promise
entries for every movement; `DiscrepanciesAccounted` says by how much `verifyBalance`
is off then. `Readme.md:238` says that a logout of all sessions increments
`tokenVersion`; no code writes that field and no schema has it, so the comparison
of `auth.middleware.js:20` is of undefined with undefined. After a commit the handlers still await (`:149`, `:388`, `:570`),
and an error there answers a movement that was made, although `Readme.md:349` says
"no partial state is possible". The jobs of a transfer and the reactivation codes
are described above.

`Readme.md:32` and `:342` speak of Redis locks per account. The code's locks are
per user and key (`transaction.controller.js:188`) and are modelled so: two
transactions on one account do run side by side, and `BalancesExplained` and
`LedgerChained` show that the database keeps them apart.

### Fairness

`FairSpec` assumes weak fairness of each handler's next step: an await settles,
because every call has a timeout or a bounded number of retries in its driver
(`maxRetriesPerRequest` and a disabled offline queue in `config/redis.js`, the
120 s limit of the driver's `withTransaction`). The queue has a connection of its own
without these options (`queues/emailQueue.js:4`): there the assumption is that its Redis
is reachable again some time, which is the operator's to see to; until then only the
30 s timeout answers. Nothing is assumed of arrivals, crashes, timeouts or TTLs: a lock
that leaked may stay for as long as it likes, and whoever finds it is told so.

Weak fairness of `Handle(r)` does not say which outcome of an await happens. A
transaction that meets conflicts goes round `txRead` and `txCommit` only as
often as others commit, so it ends without a stronger assumption.

`NotifyFairSpec` assumes of the queue: weak fairness of `Execute`, because
`sendMail` settles by the transport's timeouts and Redis takes the outcome in the
end; weak fairness of `WorkerStarts`, because somebody starts the container again
(`docker-compose.yml` has no restart policy, so this is an assumption on the
operator); strong fairness of `Attend`, because a worker that is up again and again
looks for waiting and stalled jobs every time. Nothing is assumed of stalls of a
running execution, of refusals or of deaths; the bounds on attempts and stalls end
the job. `user_system` needs no fairness: its properties are safety.

## Proofs

The proof modules prove, for every set of requests, users, keys, accounts, inputs
and codes and every limit that satisfies the assumptions named in the modules they
extend:

| Theorem | Property | Invariant it rests on |
|---|---|---|
| `TypeCorrect` | `TypeOK` | `TypeInv` = `TypeOK` and `CommitReady` |
| `NeverOverdrawn` | `NoOverdraft` | `TypeInv`: the balance check was made on the document the commit requires to be unchanged |
| `MovesAtMostOnce` | `AtMostOnce` | `Linked`: a key has one `Transaction` document |
| `RepliesTruthful` | `ReplyTruthful` | `LinkInv`: records and caches lead back to committed requests of the same slot |
| `MutuallyExclusive` | `MutualExclusion` | `HolderOrLapsed`: a handler in its section holds its lock or has outlived it |
| `LedgerStaysChained` | `LedgerChained` | `TypeInv`: an entry is written for the document the commit requires to be unchanged |
| `BalancesAreExplained` | `BalancesExplained` | `BalanceInv` and `LinkInv`: finitely many documents, each with the input of a request that is past its commit |
| `DiscrepanciesAreExplained` | what `verifyBalance` reports on the engine alone | the same |
| `ReconcilesUntilWithdrawal` | `ReconciledUntilWithdrawal` | `WithdrawalsInUnits` and the one before |
| `EmailsTruthful` | `EmailsAnnounceMovements` | `TypeInv`, `LinkInv`: a handler that notifies stands behind a commit, its own or one its record leads to |
| `EngineImplementsBank` | `ImplementsBank` | all of the above |
| `SystemTypeCorrect` | `SystemTypeOK` | `SystemInv` |
| `FrozenFundsAreSafe` | `FrozenFundsStand` | `SystemInv`: a commit needs the snapshot it checked |
| `StatusChecksHold` | `StatusCheckHolds` | `VersionInv`: a fetched document with the current version is the current document |
| `SystemNeverOverdrawn` | `NoOverdraft` | `SystemInv`: the filters of a payment and the snapshots of the engine each protect against the other |
| `KeysMoveOnce` | `KeyMovesOnce` | itself and `SystemInv` |
| `BalancesAreAccounted` | `BalancesAccounted` | `SystemBalanceInv`: a payment with a document is over, so what it was called with stands |
| `DiscrepanciesAreAccounted` | `DiscrepanciesAccounted` | the same |
| `MoneyIsConserved` | `MoneyConserved` | `MoneyInv` and `PayInv`: a payment that is about to commit has two different accounts |
| `SystemImplementsFreezableBank` | `ImplementsFreezableBank` | `SystemInv`, `LinkInv`, `PayInv` |
| `BeneficiariesTyped` | `Beneficiaries!TypeOK` | itself |
| `CodesStayDead` | `DeadCodesStayDead` | `EnrolmentInv`: a handler that has yet to send a code has not answered |
| `BeneficiariesImplementEnrolment` | `ImplementsEnrolment` | `EnrolmentInv`: the OTP a confirmation holds is of its user and was issued for the pair it names; documents are never deleted |
| `UserTypesCorrect` | `UserSystem!TypeOK` | `UserSystemProofs!TypeInv`: a handler's label fits its call, its copies and the users it still needs |
| `RegistrationsUnique` | `OneRegistration` | `OneCreation`: whoever created the document found none |
| `NobodyResurrected` | `NoResurrection` | `TypeInv` |
| `DeactivationsDated` | `DeactivationDated` | `CopiesCurrent`: a reactivation that read an active user still has one, unless crossed |
| `SessionsHaveOneToken` | `OneLivePerFamily` | `Rooted` and `Single`: a family has one slot |
| `InvalidatedAreDead` | `InvalidatedStayDead` | `Rooted`: what was found had been stored |
| `SessionsImplementChains` | `ImplementsChains` | `Rooted` and `Taken`: a refresh that is about to store has spent its token |
| `KeysOpenOnce` | `KeyOpensOnce` | itself |
| `LimitsAreKept` | `LimitsKept` | `Limited`: a request alone between checks and commit still finds room |
| `DeactivatedAreKeptOut` | `DeactivatedKeptOut` | `KeptOut`: past its check of the user a handler has seen the user active |
| `QueueTypeCorrect` | `QueueTypeOK` | `QueueInv` |
| `MailsAreBounded` | `MailsBounded` | `QueueInv`: mails, and executions that may still mail, are counted by failures and stalls |
| `CompletedAreMailed` | `CompletedMailed` | `QueueInv`: an execution that is past sending has sent |
| `MailsTruthful` | `MailTruthful` | `QueueInv` and `EmailsAnnounceMovements` |
| `OutcomesStand` | `OutcomeStands` | `QueueInv`: an execution with the lock belongs to an active job |

`TypeOK` alone is not inductive: that a commit leaves a document whose balance
may be read at all needs `CommitReady`, which says that a transaction about to
commit passed the business rules on its snapshot. `ReplyTruthful` alone is not
either: a replay takes its answer from a cache or a record, so the invariant must
say of each of them that it leads to a committed movement of the same user and
key. `LedgerChained` is about accounts nothing was withdrawn from, because withdrawals
break the chain, as `withdrawal_ledger` shows. The refinement of `Enrolment` needs
`EnrolmentInv` because a confirmation activates by a copy of an OTP that may be
gone from the database: that its code was issued for the account must be known of
the copy.

`UserSystemProofs` first says of each handler's step what it does to requests and
documents, whichever handler takes it (`Acts`), and proves the rest from that.
`Rooted` ties together the documents, the history of what was stored, the copies
refreshes hold and the scopes of revocations: all of them are of tokens that some
request stored before it was done. `OneLivePerFamily` is not inductive, because a
family goes on when no token of it is live: a refresh that has found its token live
stores a successor even if the token is revoked meanwhile, or after it has spent it.
`Single` counts these as slots of the family, and each step hands a slot on or drops
it, unless a second refresh finds the token that a first one holds, which `raced`
remembers. `LimitsKept` counts with the cardinality theorems of the library and needs
the accounts that existed before to be finitely many and within the limits.

`NotificationsProofs` rests on `QueueInv`, which counts: for each job, the mails
that went out, the late executions and the one under way that may still send are
together no more than its failures, its stalls and one for the execution that holds
the lock or has completed. Every action moves at most one unit from one place to
another; failures and stalls are bounded by the type. `MailsAreBounded` follows, and
`MailsTruthful` adds `EmailsAnnounceMovements`, because only what the engine
added can be sent.

The sums are `SumFunction` of the community modules, a recursion over the subsets of a
finite set. `SumTheorems` proves what the balances need of it (a sum may take its
elements in any order, grows by what is added, is not changed by what moves from one
element to another) without an induction rule, which would take an operator as its
parameter: a set of good subsets stands for the induction hypothesis, and a smallest
subset outside of it, which the well-foundedness of the subset order gives, leads to a
contradiction. The balance theorems then are about one step: a commit adds one
document, whose input no later step changes, because its request is past its commit
(`InputsKept`); it adds to `MovementTotal` what it adds to the balance, and to the
ledger the same less what a withdrawal's entry leaves out. In `BankSystem` a payment
adds to the balance and to `PaymentTotal`, a status change to neither.
`MoneyIsConserved` takes the bank's accounts to be finitely many
(`AccountsAssumption`); nothing else does.

`SystemImplementsFreezableBank` maps each commit to a `MoveUnfrozen`. That both accounts
are not frozen at that moment follows from the snapshot the commit requires to be
unchanged or from the payment's filters; that the key is new, from the unique index; that
the two accounts differ, from the validation of a movement and, for a payment, from
their owners (`PayInv`). A save of a status handler is a `Freeze` or an `Unfreeze`
because of `VersionInv`: the status it had read is still there.

Only model-checked: the liveness properties, `RequestsAnswered` and
`JobsEnd`. The prover does no `ENABLED`, which fairness is about.

## Mutants

Definitions marked *Mutant* in the modules are plausible bugs: a dropped index, a
DEL without the token check, a swallowed error. Each property of a passing run is
violated when one of them takes the place of the definition it follows up on
(`PROJECT.json` has the pairs).

## Plan

Done, in this order: the engine and its bank, the status handlers, the beneficiaries,
the payments, users with their sessions and accounts, the queue; proofs of the
safety properties of all of them, the sums included; the abstract bank that the engine,
the payments and the status handlers refine together.

Next: the jobs that registration, account opening and the user handlers add, composed
with the queue.

Not modelled, and why: the history queries (reads; their cached pages are read by
nothing else, and with the shipped `CACHE_TTL_SECONDS` none is stored); the rate
limiters (counters of a library in each worker's memory, configured and not written
here); forking and respawning of cluster workers beyond the death of one; the debug
route of the queue (a read); the email templates, routing, CORS, headers, logging,
error formatting and the admin placeholders, which keep no state; `withIdempotency`,
which no handler calls; the card and scheduled-transfer schemas, which no code uses.
