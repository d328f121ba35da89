----------------------- MODULE TransactionEngineProofs -----------------------
(* Theorems about TransactionEngine, for all values of its constants.      *)
EXTENDS TransactionEngine, TLAPS

(***************************************************************************)
(* Types of the operators the actions are built from.                      *)
(***************************************************************************)

LEMMA FromCentsType == ASSUME NEW n \in Int PROVE FromCents(n) \in Int
BY CentsAssumption DEF FromCents

LEMMA InputType ==
    ASSUME NEW i \in Inputs
    PROVE  /\ i.purpose \in Purposes
           /\ i.userId \in Users
           /\ i.key \in Keys \cup {None}
           /\ i.amount \in Int
           /\ i.purpose = "deposit" => i.sender = None
           /\ i.purpose = "withdrawal" => i.receiver = None
           /\ i # None
BY InputsAssumption, NoneAssumption

\* A valid request names the accounts of its purpose, and has a key.
LEMMA ValidInput ==
    ASSUME NEW i \in Inputs, Valid(i)
    PROVE  /\ Slot(i) \in Slots
           /\ i.key \in Keys
           /\ i.amount > 0
           /\ i.sender # i.receiver
           /\ i.purpose # "withdrawal" => i.receiver \in Touched(i)
           /\ i.purpose # "deposit" => i.sender \in Touched(i)
BY InputType DEF Valid, Slot, Slots, Touched

LEMMA DeltaType == ASSUME NEW i \in Inputs, NEW a PROVE Delta(i, a) \in Int
BY InputType DEF Delta

LEMMA MovedType ==
    ASSUME NEW i \in Inputs, NEW a, NEW doc \in AccountDocs
    PROVE  /\ Moved(i, a, doc) \in AccountDocs
           /\ Moved(i, a, doc).balance = doc.balance + Delta(i, a)
           /\ Moved(i, a, doc).isActive = doc.isActive
<1>1. Delta(i, a) \in Int BY DeltaType
<1>2. doc.balance \in Int /\ doc.v \in Nat BY DEF AccountDocs
<1> QED BY <1>1, <1>2 DEF Moved, AccountDocs

LEMMA EntryType ==
    ASSUME NEW r \in Requests, NEW i \in Inputs, NEW a, NEW doc \in AccountDocs
    PROVE  Entry(r, i, a, doc) \in LedgerDocs
<1>1. Delta(i, a) \in Int /\ i.amount \in Int /\ FromCents(i.amount) \in Int
  BY DeltaType, InputType, FromCentsType
<1> QED BY <1>1 DEF Entry, LedgerDocs, AccountDocs

LEMMA TransactionDocType ==
    ASSUME NEW r \in Requests, NEW i \in Inputs, Valid(i), Touched(i) \subseteq Accounts,
           NEW docs \in [Touched(i) -> AccountDocs]
    PROVE  /\ TransactionDoc(r, i, docs) \in TransactionDocs
           /\ TransactionDoc(r, i, docs).id = r
           /\ TransactionDoc(r, i, docs).idempotencyKey = i.key
<1> DEFINE own == IF i.purpose = "deposit" THEN i.receiver ELSE i.sender
<1>1. own \in Touched(i) BY ValidInput, InputType DEF Purposes
<1>2. docs[own].balance \in Int BY <1>1 DEF AccountDocs
<1>3. Delta(i, own) \in Int /\ i.amount \in Int /\ FromCents(i.amount) \in Int
  BY DeltaType, InputType, FromCentsType
<1>4. i.sender \in Accounts \cup {None} /\ i.receiver \in Accounts \cup {None}
  BY DEF Touched
<1>5. i.key \in Keys BY ValidInput
<1> HIDE DEF own
<1> QED BY <1>2, <1>3, <1>4, <1>5 DEF TransactionDoc, TransactionDocs, own

LEMMA IdempotencyDocType ==
    ASSUME NEW r \in Requests, NEW i \in Inputs, Valid(i)
    PROVE  /\ IdempotencyDoc(r, i) \in IdempotencyDocs
           /\ IdempotencyDoc(r, i).transaction = r
           /\ Slot(i) = <<IdempotencyDoc(r, i).userId, IdempotencyDoc(r, i).key>>
BY ValidInput, InputType DEF IdempotencyDoc, IdempotencyDocs, Slot

LEMMA NoticesType ==
    ASSUME NEW i PROVE Notices(i) \subseteq {"deposit", "sent", "received", "withdraw"}
BY DEF Notices

LEMMA OpeningLedgerType ==
    ASSUME NEW a \in Accounts PROVE OpeningLedger(a) \in Seq(LedgerDocs)
<1> DEFINE e == [transaction |-> None, type |-> "CREDIT", amount |-> OpeningBalance[a],
                 before |-> 0, after |-> OpeningBalance[a]]
<1>1. OpeningBalance[a] \in Int BY BalanceAssumption
<1>2. e \in LedgerDocs BY <1>1 DEF LedgerDocs
<1>3. << >> \in Seq(LedgerDocs) /\ <<e>> \in Seq(LedgerDocs)
  <2> HIDE DEF e
  <2> QED BY <1>2
<1>4. OpeningLedger(a) = << >> \/ OpeningLedger(a) = <<e>> BY DEF OpeningLedger
<1> QED BY <1>3, <1>4

(***************************************************************************)
(* Type correctness.                                                       *)
(***************************************************************************)

TypeInv == TypeOK /\ CommitReady

LEMMA TypeInit == Init => TypeInv
<1> SUFFICES ASSUME Init PROVE TypeInv OBVIOUS
<1>1. account \in [Accounts -> AccountDocs]
  BY BalanceAssumption DEF Init, AccountDocs
<1>2. ledger \in [Accounts -> Seq(LedgerDocs)] BY OpeningLedgerType DEF Init
<1>3. reply \in [Requests -> Replies] BY DEF Init, Replies, NoReply
<1> QED BY <1>1, <1>2, <1>3, NoneAssumption
    DEF Init, TypeInv, TypeOK, CommitReady, Labels, NoSnapshot

LEMMA TypeNext == TypeInv /\ [Next]_vars => TypeInv'
<1> SUFFICES ASSUME TypeInv, [Next]_vars PROVE TypeInv' OBVIOUS
<1> USE DEF TypeInv, TypeOK, CommitReady, Labels, Replies, NoReply, mongo, redisVars, Goto, Answer
<1>1. ASSUME NEW r \in Requests, NEW i \in Inputs, Arrive(r, i) PROVE TypeInv'
  <2>1. input' \in [Requests -> Inputs \cup {None}] /\ input'[r] = i /\ i # None
    BY <1>1, InputType DEF Arrive
  <2>2. reply' \in [Requests -> Replies]
    <3>1. reply' = reply \/ Answer(r, "failed", None) BY <1>1 DEF Arrive
    <3> QED BY <3>1
  <2>3. pc' = [pc EXCEPT ![r] = "cache"] \/ pc' = [pc EXCEPT ![r] = "done"]
    BY <1>1 DEF Arrive
  <2>4. pc' \in [Requests -> Labels] BY <2>3
  <2>5. /\ (pc'[r] = "cache" /\ Valid(i)) \/ pc'[r] = "done"
        /\ \A q \in Requests \ {r} : pc'[q] = pc[q] /\ input'[q] = input[q]
    BY <1>1 DEF Arrive
  <2>6. UNCHANGED <<mongo, redisVars, snapshot, emails, lapsed>> /\ pc[r] = "idle"
    BY <1>1 DEF Arrive
  <2>7. \A q \in Requests :
           /\ pc'[q] = "idle" <=> input'[q] = None
           /\ pc'[q] \notin {"idle", "done"} => Valid(input'[q])
           /\ pc'[q] = "txCommit" => snapshot'[q] \in [Touched(input'[q]) -> AccountDocs]
           /\ pc'[q] # "txCommit" => snapshot'[q] = NoSnapshot
    BY <2>1, <2>5, <2>6
  <2>8. CommitReady'
    BY <2>5, <2>6
  <2> QED BY <2>1, <2>2, <2>4, <2>6, <2>7, <2>8
<1>2. ASSUME NEW r \in Requests, DepositUserLookupFails(r) PROVE TypeInv'
  BY <1>2, ValidInput DEF DepositUserLookupFails
<1>3. ASSUME NEW r \in Requests, CacheHit(r) PROVE TypeInv'
  BY <1>3, ValidInput DEF CacheHit
<1>4. ASSUME NEW r \in Requests, CacheMiss(r) PROVE TypeInv'
  BY <1>4, ValidInput DEF CacheMiss
<1>5. ASSUME NEW r \in Requests, AcquireLock(r) PROVE TypeInv'
  BY <1>5, ValidInput DEF AcquireLock
<1>6. ASSUME NEW r \in Requests, LockBusy(r) PROVE TypeInv'
  BY <1>6, ValidInput DEF LockBusy
<1>7. ASSUME NEW r \in Requests, LockUnavailable(r) PROVE TypeInv'
  BY <1>7, ValidInput DEF LockUnavailable
<1>8. ASSUME NEW r \in Requests, RecordFound(r) PROVE TypeInv'
  <2>1. PICK d \in RecordsOf(input[r]) :
            \/ /\ cache' = [cache EXCEPT ![Slot(input[r])] = d.transaction]
               /\ Answer(r, "replayed", d.transaction)
            \/ /\ Answer(r, "failed", None)
               /\ cache' \in {cache, [cache EXCEPT ![Slot(input[r])] = d.transaction]}
    BY <1>8 DEF RecordFound
  <2>2. d.transaction \in Requests BY DEF RecordsOf, IdempotencyDocs
  <2>3. cache' \in [Slots -> Requests \cup {None}] BY <2>1, <2>2
  <2>4. reply' \in [Requests -> Replies] BY <2>1, <2>2
  <2> QED BY <1>8, <2>3, <2>4 DEF RecordFound
<1>9. ASSUME NEW r \in Requests, RecordMissing(r) PROVE TypeInv'
  <2>1. reply' \in [Requests -> Replies] BY <1>9 DEF RecordMissing
  <2>2. pc' = [pc EXCEPT ![r] = "txRead"] \/ pc' = [pc EXCEPT ![r] = "release"]
    BY <1>9 DEF RecordMissing
  <2> QED BY <1>9, <2>1, <2>2 DEF RecordMissing
<1>10. ASSUME NEW r \in Requests, MongoFails(r) PROVE TypeInv'
  BY <1>10, ValidInput DEF MongoFails
<1>11. ASSUME NEW r \in Requests, TxRead(r) PROVE TypeInv'
  <2> DEFINE read == [a \in Touched(input[r]) |-> account[a]]
  <2>1. /\ Touched(input[r]) \subseteq Accounts
        /\ \A a \in Touched(input[r]) : account[a].isActive = "active"
        /\ input[r].purpose # "deposit" => account[input[r].sender].balance >= input[r].amount
    BY <1>11 DEF TxRead, Admissible
  <2>2. read \in [Touched(input[r]) -> AccountDocs] BY <2>1
  <2>3. input[r] \in Inputs /\ Valid(input[r]) BY <1>11 DEF TxRead
  <2>4. input[r].purpose # "deposit" => input[r].sender \in Touched(input[r])
    BY <2>3, ValidInput
  <2>5. snapshot' = [snapshot EXCEPT ![r] = read] BY <1>11 DEF TxRead
  <2>6. snapshot'[r] = read /\ \A q \in Requests \ {r} : snapshot'[q] = snapshot[q]
    BY <2>5
  <2>7. DOMAIN snapshot' = Requests BY <2>5
  <2>8. CommitReady'
    <3> SUFFICES ASSUME NEW q \in Requests, pc'[q] = "txCommit"
                 PROVE /\ Touched(input'[q]) \subseteq Accounts
                       /\ \A a \in Touched(input'[q]) : snapshot'[q][a].isActive = "active"
                       /\ input'[q].purpose # "deposit" =>
                              snapshot'[q][input'[q].sender].balance >= input'[q].amount
      OBVIOUS
    <3>1. input' = input BY <1>11 DEF TxRead
    <3>2. CASE q = r BY <2>1, <2>4, <2>6, <3>1, <3>2
    <3>3. CASE q # r BY <1>11, <2>6, <3>1, <3>3 DEF TxRead
    <3> QED BY <3>2, <3>3
  <2>9. TypeOK'
    <3> HIDE DEF read
    <3> QED BY <1>11, <2>2, <2>6, <2>7 DEF TxRead
  <2> QED BY <2>8, <2>9
<1>12. ASSUME NEW r \in Requests, TxRefuse(r) PROVE TypeInv'
  BY <1>12, ValidInput DEF TxRefuse
<1>13. ASSUME NEW r \in Requests, TxConflict(r) PROVE TypeInv'
  BY <1>13, ValidInput DEF TxConflict
<1>14. ASSUME NEW r \in Requests, TxDuplicate(r) PROVE TypeInv'
  BY <1>14, ValidInput DEF TxDuplicate
<1>15. ASSUME NEW r \in Requests, TxCommit(r) PROVE TypeInv'
  <2> DEFINE i == input[r]
  <2>1. i \in Inputs /\ Valid(i) /\ Touched(i) \subseteq Accounts
        /\ snapshot[r] \in [Touched(i) -> AccountDocs]
    BY <1>15 DEF TxCommit
  <2> HIDE DEF i
  <2>2. account' \in [Accounts -> AccountDocs]
    <3>1. \A a \in Touched(i) : Moved(i, a, snapshot[r][a]) \in AccountDocs
      BY <2>1, MovedType
    <3> QED BY <1>15, <3>1 DEF TxCommit, i
  <2>3. ledger' \in [Accounts -> Seq(LedgerDocs)]
    <3>1. \A a \in Touched(i) : Entry(r, i, a, snapshot[r][a]) \in LedgerDocs
      BY <2>1, EntryType
    <3>2. \A a \in Accounts : a \in Touched(i) =>
              Append(ledger[a], Entry(r, i, a, snapshot[r][a])) \in Seq(LedgerDocs)
      BY <3>1
    <3> QED BY <1>15, <3>2 DEF TxCommit, i
  <2>4. transactions' \subseteq TransactionDocs
    <3>1. TransactionDoc(r, i, snapshot[r]) \in TransactionDocs
      BY <2>1, TransactionDocType
    <3>2. transactions' = transactions \cup {TransactionDoc(r, i, snapshot[r])}
      BY <1>15 DEF TxCommit, i
    <3> QED BY <3>1, <3>2
  <2>5. idempotency' \subseteq IdempotencyDocs
    <3>1. IdempotencyDoc(r, i) \in IdempotencyDocs
      BY <2>1, IdempotencyDocType
    <3>2. idempotency' = idempotency \cup {IdempotencyDoc(r, i)}
      BY <1>15 DEF TxCommit, i
    <3> QED BY <3>1, <3>2
  <2>6. reply' \in [Requests -> Replies]
    <3>1. reply' = reply \/ Answer(r, "failed", None) BY <1>15 DEF TxCommit
    <3> QED BY <3>1
  <2>7. pc' = [pc EXCEPT ![r] = "setCache"] \/ pc' = [pc EXCEPT ![r] = "release"]
    BY <1>15 DEF TxCommit
  <2>8. /\ snapshot' = [snapshot EXCEPT ![r] = NoSnapshot]
        /\ UNCHANGED <<lock, cache, input, emails, lapsed>>
        /\ pc[r] = "txCommit"
    BY <1>15 DEF TxCommit
  <2>9. pc' \in [Requests -> Labels] BY <2>7
  <2>10. /\ pc'[r] \in {"setCache", "release"} /\ snapshot'[r] = NoSnapshot
         /\ \A q \in Requests \ {r} : pc'[q] = pc[q] /\ snapshot'[q] = snapshot[q]
         /\ DOMAIN snapshot' = Requests
    BY <2>7, <2>8
  <2>11. \A q \in Requests :
           /\ pc'[q] = "idle" <=> input'[q] = None
           /\ pc'[q] \notin {"idle", "done"} => Valid(input'[q])
           /\ pc'[q] = "txCommit" => snapshot'[q] \in [Touched(input'[q]) -> AccountDocs]
           /\ pc'[q] # "txCommit" => snapshot'[q] = NoSnapshot
    BY <2>8, <2>10
  <2>12. CommitReady' BY <2>8, <2>10
  <2> QED BY <2>2, <2>3, <2>4, <2>5, <2>6, <2>8, <2>9, <2>10, <2>11, <2>12
<1>16. ASSUME NEW r \in Requests, SetCache(r) PROVE TypeInv'
  BY <1>16, ValidInput DEF SetCache
<1>17. ASSUME NEW r \in Requests, Notify(r) PROVE TypeInv'
  <2>1. emails' \subseteq [request : Requests,
                            template : {"deposit", "sent", "received", "withdraw"}]
    BY <1>17, NoticesType DEF Notify
  <2>2. reply' \in [Requests -> Replies] BY <1>17 DEF Notify
  <2> QED BY <1>17, <2>1, <2>2 DEF Notify
<1>18. ASSUME NEW r \in Requests, NotifyFails(r) PROVE TypeInv'
  <2>1. emails' \subseteq [request : Requests,
                            template : {"deposit", "sent", "received", "withdraw"}]
    BY <1>18, NoticesType DEF NotifyFails
  <2>2. reply' \in [Requests -> Replies] BY <1>18 DEF NotifyFails
  <2> QED BY <1>18, <2>1, <2>2, ValidInput DEF NotifyFails
<1>19. ASSUME NEW r \in Requests, Release(r) PROVE TypeInv'
  BY <1>19, ValidInput DEF Release
<1>20. ASSUME NEW r \in Requests, ResponseTimeout(r) PROVE TypeInv'
  BY <1>20 DEF ResponseTimeout, Active
<1>21. ASSUME NEW r \in Requests, Crash(r) PROVE TypeInv'
  BY <1>21 DEF Crash, Active
<1>22. ASSUME NEW s \in Slots, LockExpire(s) PROVE TypeInv'
  BY <1>22 DEF LockExpire
<1>23. ASSUME NEW s \in Slots, CacheExpire(s) PROVE TypeInv'
  BY <1>23 DEF CacheExpire
<1>24. ASSUME NEW d \in idempotency, RecordExpire(d) PROVE TypeInv'
  BY <1>24 DEF RecordExpire
<1>25. ASSUME UNCHANGED vars PROVE TypeInv'
  BY <1>25 DEF vars
<1> QED
  BY <1>1, <1>2, <1>3, <1>4, <1>5, <1>6, <1>7, <1>8, <1>9, <1>10, <1>11, <1>12, <1>13,
     <1>14, <1>15, <1>16, <1>17, <1>18, <1>19, <1>20, <1>21, <1>22, <1>23, <1>24, <1>25
  DEF Next, Handle, Environment

\* Every variable keeps its type: documents stay well formed, and a running
\* transaction holds a document for each account it touches.
THEOREM TypeCorrect == Spec => []TypeOK
<1>1. TypeInv => TypeOK BY DEF TypeInv
<1> QED BY <1>1, TypeInit, TypeNext, PTL DEF Spec

(***************************************************************************)
(* What a commit does, and that nothing else moves money.                  *)
(***************************************************************************)

LEMMA OnlyCommitMoves ==
    ASSUME [Next]_vars
    PROVE  \/ UNCHANGED <<account, ledger, transactions>>
           \/ \E r \in Requests : TxCommit(r)
BY DEF Next, Handle, Environment, vars, mongo, Arrive, DepositUserLookupFails, CacheHit,
       CacheMiss, AcquireLock, LockBusy, LockUnavailable, RecordFound, RecordMissing,
       MongoFails, TxRead, TxRefuse, TxConflict, TxDuplicate, SetCache, Notify,
       NotifyFails, Release, ResponseTimeout, Crash, LockExpire, CacheExpire, RecordExpire

\* The committing request's documents are current and passed the rules, so
\* every balance changes by the request's effect, and the sender can afford it.
LEMMA CommitEffect ==
    ASSUME TypeInv, NEW r \in Requests, TxCommit(r)
    PROVE  /\ input[r] \in Inputs /\ Valid(input[r]) /\ Touched(input[r]) \subseteq Accounts
           /\ \A a \in Touched(input[r]) : snapshot[r][a] = account[a]
           /\ \A a \in Accounts :
                 /\ account'[a].balance = account[a].balance + Delta(input[r], a)
                 /\ account'[a].isActive = account[a].isActive
           /\ input[r].purpose # "deposit" =>
                 /\ input[r].sender \in Accounts
                 /\ account[input[r].sender].balance >= input[r].amount
<1> DEFINE i == input[r]
<1>1. pc[r] = "txCommit" /\ SnapshotCurrent(r) BY DEF TxCommit
<1>2. i \in Inputs /\ Valid(i) /\ Touched(i) \subseteq Accounts
  BY <1>1 DEF TypeInv, TypeOK, CommitReady
<1>3. \A a \in Touched(i) : snapshot[r][a] = account[a]
  BY <1>1 DEF SnapshotCurrent
<1>4. account \in [Accounts -> AccountDocs] BY DEF TypeInv, TypeOK
<1>5. account' = [a \in Accounts |-> IF a \in Touched(i) THEN Moved(i, a, snapshot[r][a])
                                     ELSE account[a]]
  BY DEF TxCommit
<1>6. input[r].purpose # "deposit" =>
         /\ input[r].sender \in Accounts
         /\ account[input[r].sender].balance >= input[r].amount
  <2>1. i.purpose # "deposit" => i.sender \in Touched(i) BY <1>2, ValidInput
  <2> QED BY <1>1, <1>2, <1>3, <2>1 DEF TypeInv, CommitReady
<1> HIDE DEF i
<1>7. ASSUME NEW a \in Accounts
      PROVE  /\ account'[a].balance = account[a].balance + Delta(i, a)
             /\ account'[a].isActive = account[a].isActive
  <2>1. CASE a \in Touched(i)
    <3>1. account'[a] = Moved(i, a, account[a]) BY <1>3, <1>5, <2>1
    <3>2. account[a] \in AccountDocs BY <1>4
    <3> QED BY <1>2, <3>1, <3>2, MovedType
  <2>2. CASE a \notin Touched(i)
    <3>1. a # i.sender /\ a # i.receiver BY <2>2, NoneAssumption DEF Touched
    <3>2. Delta(i, a) = 0 BY <3>1 DEF Delta
    <3>3. account'[a] = account[a] /\ account[a].balance \in Int
      BY <1>4, <1>5, <2>2 DEF AccountDocs
    <3> QED BY <3>2, <3>3
  <2> QED BY <2>1, <2>2
<1> QED BY <1>2, <1>3, <1>6, <1>7 DEF i

(***************************************************************************)
(* No overdraft.                                                           *)
(***************************************************************************)

\* The balance a debit was checked against is the balance it is taken from.
LEMMA OverdraftNext ==
    ASSUME TypeInv, NoOverdraft, [Next]_vars
    PROVE  NoOverdraft'
<1>1. CASE UNCHANGED <<account, ledger, transactions>> BY <1>1 DEF NoOverdraft
<1>2. ASSUME NEW r \in Requests, TxCommit(r) PROVE NoOverdraft'
  <2> SUFFICES ASSUME NEW a \in Accounts PROVE account'[a].balance >= 0
    BY DEF NoOverdraft
  <2>1. account'[a].balance = account[a].balance + Delta(input[r], a)
    BY <1>2, CommitEffect
  <2>2. /\ input[r] \in Inputs /\ Valid(input[r])
        /\ input[r].purpose # "deposit" =>
              /\ input[r].sender \in Accounts
              /\ account[input[r].sender].balance >= input[r].amount
    BY <1>2, CommitEffect
  <2>3. account[a].balance \in Int /\ account[a].balance >= 0
    BY DEF NoOverdraft, TypeInv, TypeOK, AccountDocs
  <2>4. input[r].amount \in Int /\ input[r].amount > 0 BY <2>2, ValidInput, InputType
  <2>5. CASE a = input[r].sender
    <3>1. input[r].purpose # "deposit" BY <2>2, <2>5, InputType, NoneAssumption
    <3>2. a # input[r].receiver BY <2>2, <2>5, ValidInput
    <3>3. Delta(input[r], a) = 0 - input[r].amount BY <2>5, <3>2 DEF Delta
    <3> QED BY <2>1, <2>2, <2>3, <2>4, <2>5, <3>1, <3>3
  <2>6. CASE a # input[r].sender
    <3>1. Delta(input[r], a) \in {0, input[r].amount} BY <2>4, <2>6 DEF Delta
    <3> QED BY <2>1, <2>3, <2>4, <3>1
  <2> QED BY <2>5, <2>6
<1> QED BY <1>1, <1>2, OnlyCommitMoves

\* No balance is ever negative, however the requests interleave.
THEOREM NeverOverdrawn == Spec => []NoOverdraft
<1>1. Init => NoOverdraft BY BalanceAssumption DEF Init, NoOverdraft
<1> QED BY <1>1, OverdraftNext, TypeInit, TypeNext, PTL DEF Spec

(***************************************************************************)
(* At most once, and truthful replies.                                     *)
(***************************************************************************)

LinkInv == Linked /\ ReplyTruthful

LEMMA LinkInit == Init => LinkInv
BY DEF Init, LinkInv, Linked, TransactionsLinked, RecordsLinked, CacheLinked, CommitKnown,
       ReplyTruthful, NoReply

\* The requests that documents and Redis values name.
LEMMA NamedRequests ==
    ASSUME TypeInv
    PROVE  /\ \A t \in transactions : t.id \in Requests /\ Committed(t.id)
           /\ \A d \in idempotency : d.transaction \in Requests
           /\ \A s \in Slots : cache[s] # None => cache[s] \in Requests
           /\ \A q \in Requests :
                 reply[q].transaction # None => reply[q].transaction \in Requests
BY DEF TypeInv, TypeOK, TransactionDocs, IdempotencyDocs, Replies, Committed

\* A step that leaves transactions and records alone, moves no committed
\* request back and changes no committed request's input keeps the links.
LEMMA LinksKept ==
    ASSUME TypeInv, LinkInv, NEW r \in Requests,
           transactions' = transactions, idempotency' \subseteq idempotency,
           \A x \in Requests : Committed(x) =>
               /\ input'[x] = input[x]
               /\ pc'[x] \in {"setCache", "notify", "release", "done", "crashed"},
           \A s \in Slots : cache'[s] # None =>
               \/ cache'[s] = cache[s]
               \/ /\ cache'[s] \in Requests
                  /\ Committed(cache'[s])
                  /\ Slot(input[cache'[s]]) = s
    PROVE  TransactionsLinked' /\ RecordsLinked' /\ CacheLinked'
<1>1. \A x : Committed(x)' <=> Committed(x) BY DEF Committed
<1>2. TransactionsLinked' BY NamedRequests DEF LinkInv, Linked, TransactionsLinked
<1>3. RecordsLinked' BY <1>1, NamedRequests DEF LinkInv, Linked, RecordsLinked
<1>4. CacheLinked' BY <1>1, NamedRequests DEF LinkInv, Linked, CacheLinked
<1> QED BY <1>2, <1>3, <1>4

LEMMA CommittedIsPast ==
    ASSUME LinkInv, NEW x, Committed(x)
    PROVE  pc[x] \in {"setCache", "notify", "release", "done", "crashed"}
BY DEF LinkInv, Linked, TransactionsLinked, Committed

\* The cases of a reply: r's is unchanged, or says nothing of a movement, or
\* names a committed request of r's user and key.
LEMMA ReplyKept ==
    ASSUME TypeInv, LinkInv, NEW r \in Requests,
           \A x : Committed(x) => Committed(x)',
           \A x \in Requests : Committed(x) => input'[x] = input[x],
           \A x \in Requests \ {r} : input'[x] = input[x] /\ reply'[x] = reply[x],
           \/ reply'[r].kind \notin {"created", "replayed"}
           \/ reply'[r] = reply[r] /\ input'[r] = input[r]
           \/ /\ input'[r] = input[r]
              /\ reply'[r].transaction \in Requests
              /\ Committed(reply'[r].transaction)
              /\ Slot(input[reply'[r].transaction]) = Slot(input[r])
    PROVE  ReplyTruthful'
<1> SUFFICES ASSUME NEW q \in Requests, reply'[q].kind \in {"created", "replayed"}
             PROVE (/\ reply[q].transaction # None
                    /\ Committed(reply[q].transaction)
                    /\ Slot(input[reply[q].transaction]) = Slot(input[q]))'
  BY DEF ReplyTruthful
<1>1. /\ input'[q] = input[q]
      /\ reply'[q].transaction \in Requests
      /\ Committed(reply'[q].transaction)
      /\ Slot(input[reply'[q].transaction]) = Slot(input[q])
  <2>1. CASE reply'[q] = reply[q] /\ input'[q] = input[q]
    BY <2>1, NamedRequests DEF LinkInv, ReplyTruthful
  <2>2. CASE ~(reply'[q] = reply[q] /\ input'[q] = input[q]) BY <2>2
  <2> QED BY <2>1, <2>2
<1>2. Committed(reply[q].transaction)'
  <2>1. PICK t \in transactions : t.id = reply'[q].transaction BY <1>1 DEF Committed
  <2>2. Committed(t.id)' BY <2>1 DEF Committed
  <2> QED BY <2>1, <2>2 DEF Committed
<1>3. input'[reply'[q].transaction] = input[reply'[q].transaction] BY <1>1
<1> QED BY <1>1, <1>2, <1>3, NoneAssumption

LEMMA AnswerEffect ==
    ASSUME TypeInv, NEW r \in Requests, NEW kind, NEW t, Answer(r, kind, t)
    PROVE  /\ \A x \in Requests \ {r} : reply'[x] = reply[x]
           /\ reply'[r] = reply[r] \/ reply'[r] = [kind |-> kind, transaction |-> t]
<1>1. DOMAIN reply = Requests BY DEF TypeInv, TypeOK
<1> QED BY <1>1 DEF Answer

LEMMA GotoEffect ==
    ASSUME TypeInv, NEW r \in Requests, NEW label, Goto(r, label)
    PROVE  pc'[r] = label /\ \A x \in Requests \ {r} : pc'[x] = pc[x]
BY DEF Goto, TypeInv, TypeOK

LEMMA LinkArrive ==
    ASSUME TypeInv, LinkInv, NEW r \in Requests, NEW i \in Inputs, Arrive(r, i) PROVE LinkInv'
<1>1. pc[r] = "idle" BY DEF Arrive
<1>2. ~Committed(r) BY <1>1, CommittedIsPast
<1>3. reply[r] = NoReply BY <1>1 DEF LinkInv, Linked, CommitKnown
<1>4. \A x \in Requests \ {r} : input'[x] = input[x] BY DEF Arrive, TypeInv, TypeOK
<1>5. /\ pc'[r] # "idle" /\ pc'[r] \notin {"setCache", "notify"}
      /\ \A x \in Requests \ {r} : pc'[x] = pc[x] /\ reply'[x] = reply[x]
      /\ reply'[r].kind \notin {"created", "replayed"}
  <2>1. CASE Goto(r, "cache") /\ reply' = reply BY <1>3, <2>1, GotoEffect DEF NoReply
  <2>2. CASE Goto(r, "done") /\ Answer(r, "failed", None)
    <3>1. pc'[r] = "done" /\ \A x \in Requests \ {r} : pc'[x] = pc[x] BY <2>2, GotoEffect
    <3>2. /\ \A x \in Requests \ {r} : reply'[x] = reply[x]
          /\ reply'[r] = reply[r] \/ reply'[r] = [kind |-> "failed", transaction |-> None]
      BY <2>2, AnswerEffect
    <3> QED BY <1>3, <3>1, <3>2 DEF NoReply
  <2> QED BY <2>1, <2>2 DEF Arrive
<1>6. UNCHANGED <<transactions, idempotency, cache>> BY DEF Arrive, mongo, redisVars
<1>7. \A x : Committed(x)' <=> Committed(x) BY <1>6 DEF Committed
<1>8. TransactionsLinked' /\ RecordsLinked' /\ CacheLinked'
  BY <1>2, <1>4, <1>5, <1>6, CommittedIsPast, LinksKept
<1>9. CommitKnown' BY <1>5, <1>7 DEF LinkInv, Linked, CommitKnown
<1>10. ReplyTruthful' BY <1>2, <1>4, <1>5, <1>7, ReplyKept
<1> QED BY <1>8, <1>9, <1>10 DEF LinkInv, Linked

LEMMA LinkRecordFound ==
    ASSUME TypeInv, LinkInv, NEW r \in Requests, RecordFound(r) PROVE LinkInv'
<1>1. PICK d \in RecordsOf(input[r]) :
          \/ /\ cache' = [cache EXCEPT ![Slot(input[r])] = d.transaction]
             /\ Answer(r, "replayed", d.transaction)
          \/ /\ Answer(r, "failed", None)
             /\ cache' \in {cache, [cache EXCEPT ![Slot(input[r])] = d.transaction]}
  BY DEF RecordFound
<1>2. /\ d.transaction \in Requests
      /\ Committed(d.transaction)
      /\ Slot(input[d.transaction]) = Slot(input[r])
  BY NamedRequests DEF RecordsOf, Slot, LinkInv, Linked, RecordsLinked
<1>3. UNCHANGED <<transactions, idempotency, input>> /\ Goto(r, "release") /\ pc[r] = "record"
  BY DEF RecordFound, mongo
<1>4. \A x : Committed(x)' <=> Committed(x) BY <1>3 DEF Committed
<1>5. pc'[r] = "release" /\ \A x \in Requests \ {r} : pc'[x] = pc[x] BY <1>3, GotoEffect
<1>6. \A s \in Slots : cache'[s] = cache[s] \/ (s = Slot(input[r]) /\ cache'[s] = d.transaction)
  <2>1. cache \in [Slots -> Requests \cup {None}] BY DEF TypeInv, TypeOK
  <2> QED BY <1>1, <2>1
<1>7. TransactionsLinked' /\ RecordsLinked' /\ CacheLinked'
  BY <1>2, <1>3, <1>5, <1>6, CommittedIsPast, LinksKept
<1>8. /\ \A x \in Requests \ {r} : reply'[x] = reply[x]
      /\ \/ reply'[r] = reply[r]
         \/ reply'[r] = [kind |-> "replayed", transaction |-> d.transaction]
         \/ reply'[r] = [kind |-> "failed", transaction |-> None]
  BY <1>1, AnswerEffect
<1>9. CommitKnown' BY <1>4, <1>5, <1>8 DEF LinkInv, Linked, CommitKnown
<1>10. ReplyTruthful' BY <1>2, <1>3, <1>4, <1>8, ReplyKept
<1> QED BY <1>7, <1>9, <1>10 DEF LinkInv, Linked

LEMMA LinkRecordMissing ==
    ASSUME TypeInv, LinkInv, NEW r \in Requests, RecordMissing(r) PROVE LinkInv'
<1>1. UNCHANGED <<transactions, idempotency, cache, input>> BY DEF RecordMissing, mongo, redisVars
<1>2. \A x : Committed(x)' <=> Committed(x) BY <1>1 DEF Committed
<1>3. /\ pc'[r] \in {"txRead", "release"}
      /\ \A x \in Requests \ {r} : pc'[x] = pc[x] /\ reply'[x] = reply[x]
      /\ reply'[r] = reply[r] \/ reply'[r].kind = "failed"
  <2>1. pc'[r] \in {"txRead", "release"} /\ \A x \in Requests \ {r} : pc'[x] = pc[x]
    <3>1. Goto(r, "txRead") \/ Goto(r, "release") BY DEF RecordMissing
    <3> QED BY <3>1, GotoEffect
  <2>2. reply' = reply \/ Answer(r, "failed", None) BY DEF RecordMissing
  <2>3. /\ \A x \in Requests \ {r} : reply'[x] = reply[x]
        /\ reply'[r] = reply[r] \/ reply'[r] = [kind |-> "failed", transaction |-> None]
    BY <2>2, AnswerEffect
  <2> QED BY <2>1, <2>3
<1>4. pc[r] = "record" BY DEF RecordMissing
<1>5. ~Committed(r) BY <1>4, CommittedIsPast
<1>6. TransactionsLinked' /\ RecordsLinked' /\ CacheLinked'
  BY <1>1, <1>3, <1>5, CommittedIsPast, LinksKept
<1>7. CommitKnown' BY <1>2, <1>3 DEF LinkInv, Linked, CommitKnown
<1>8. ReplyTruthful' BY <1>1, <1>2, <1>3, ReplyKept
<1> QED BY <1>6, <1>7, <1>8 DEF LinkInv, Linked

LEMMA LinkCommit ==
    ASSUME TypeInv, LinkInv, NEW r \in Requests, TxCommit(r) PROVE LinkInv'
<1> DEFINE doc == TransactionDoc(r, input[r], snapshot[r])
           rec == IdempotencyDoc(r, input[r])
<1>1. /\ pc[r] = "txCommit" /\ ~Duplicate(input[r])
      /\ transactions' = transactions \cup {doc}
      /\ idempotency' = idempotency \cup {rec}
      /\ UNCHANGED <<cache, input>>
  BY DEF TxCommit, redisVars
<1>2. /\ pc'[r] \in {"setCache", "release"}
      /\ \A x \in Requests \ {r} : pc'[x] = pc[x] /\ reply'[x] = reply[x]
      /\ reply'[r] = reply[r] \/ reply'[r].kind = "failed"
  <2>1. pc'[r] \in {"setCache", "release"} /\ \A x \in Requests \ {r} : pc'[x] = pc[x]
    <3>1. Goto(r, "setCache") \/ Goto(r, "release") BY DEF TxCommit
    <3> QED BY <3>1, GotoEffect
  <2>2. reply' = reply \/ Answer(r, "failed", None) BY DEF TxCommit
  <2>3. /\ \A x \in Requests \ {r} : reply'[x] = reply[x]
        /\ reply'[r] = reply[r] \/ reply'[r] = [kind |-> "failed", transaction |-> None]
    BY <2>2, AnswerEffect
  <2> QED BY <2>1, <2>3
<1>3. /\ doc.id = r /\ doc.idempotencyKey = input[r].key
      /\ rec.transaction = r /\ Slot(input[r]) = <<rec.userId, rec.key>>
  <2>1. input[r] \in Inputs /\ Valid(input[r]) /\ Touched(input[r]) \subseteq Accounts
        /\ snapshot[r] \in [Touched(input[r]) -> AccountDocs]
    BY <1>1 DEF CommitReady, TypeInv, TypeOK
  <2> QED BY <2>1, TransactionDocType, IdempotencyDocType
<1> HIDE DEF doc, rec
<1>4. Committed(r)' /\ \A x : Committed(x) => Committed(x)' BY <1>1, <1>3 DEF Committed
<1>5. TransactionsLinked'
  <2>1. \A t \in transactions' :
           /\ pc'[t.id] \in {"setCache", "notify", "release", "done", "crashed"}
           /\ t.idempotencyKey = input'[t.id].key
    BY <1>1, <1>2, <1>3, NamedRequests DEF LinkInv, Linked, TransactionsLinked
  <2>2. \A t \in transactions : t.idempotencyKey # doc.idempotencyKey
    BY <1>1, <1>3 DEF Duplicate
  <2>3. \A t, u \in transactions' : t.idempotencyKey = u.idempotencyKey => t = u
    BY <1>1, <2>2 DEF LinkInv, Linked, TransactionsLinked
  <2> QED BY <2>1, <2>3 DEF TransactionsLinked
<1>6. RecordsLinked' BY <1>1, <1>3, <1>4 DEF LinkInv, Linked, RecordsLinked
<1>7. CacheLinked' BY <1>1, <1>4 DEF LinkInv, Linked, CacheLinked
<1>8. CommitKnown' BY <1>1, <1>2, <1>4 DEF LinkInv, Linked, CommitKnown
<1>9. ReplyTruthful' BY <1>1, <1>2, <1>4, ReplyKept
<1> QED BY <1>5, <1>6, <1>7, <1>8, <1>9 DEF LinkInv, Linked

LEMMA LinkSetCache ==
    ASSUME TypeInv, LinkInv, NEW r \in Requests, SetCache(r) PROVE LinkInv'
<1>1. /\ cache' = cache \/ cache' = [cache EXCEPT ![Slot(input[r])] = r]
      /\ pc[r] = "setCache" /\ Goto(r, "notify")
      /\ UNCHANGED <<transactions, idempotency, input, reply>>
  BY DEF SetCache, mongo
<1>2. pc'[r] = "notify" /\ \A x \in Requests \ {r} : pc'[x] = pc[x] BY <1>1, GotoEffect
<1>3. Committed(r) BY <1>1 DEF LinkInv, Linked, CommitKnown
<1>4. \A x : Committed(x)' <=> Committed(x) BY <1>1 DEF Committed
<1>5. \A s \in Slots : cache'[s] = cache[s] \/ (s = Slot(input[r]) /\ cache'[s] = r)
  <2>1. cache \in [Slots -> Requests \cup {None}] BY DEF TypeInv, TypeOK
  <2> QED BY <1>1, <2>1
<1>6. TransactionsLinked' /\ RecordsLinked' /\ CacheLinked'
  BY <1>1, <1>2, <1>3, <1>5, CommittedIsPast, LinksKept
<1>7. CommitKnown' BY <1>1, <1>2, <1>3, <1>4 DEF LinkInv, Linked, CommitKnown
<1>8. ReplyTruthful' BY <1>1, <1>4, ReplyKept
<1> QED BY <1>6, <1>7, <1>8 DEF LinkInv, Linked

LEMMA LinkNotify ==
    ASSUME TypeInv, LinkInv, NEW r \in Requests, Notify(r) PROVE LinkInv'
<1>1. /\ Answer(r, "created", r)
      /\ pc[r] = "notify" /\ Goto(r, "release")
      /\ UNCHANGED <<transactions, idempotency, input, cache>>
  BY DEF Notify, mongo, redisVars
<1>2. pc'[r] = "release" /\ \A x \in Requests \ {r} : pc'[x] = pc[x] BY <1>1, GotoEffect
<1>3. Committed(r) BY <1>1 DEF LinkInv, Linked, CommitKnown
<1>4. \A x : Committed(x)' <=> Committed(x) BY <1>1 DEF Committed
<1>5. TransactionsLinked' /\ RecordsLinked' /\ CacheLinked'
  BY <1>1, <1>2, CommittedIsPast, LinksKept
<1>6. /\ \A x \in Requests \ {r} : reply'[x] = reply[x]
      /\ reply'[r] = reply[r] \/ reply'[r] = [kind |-> "created", transaction |-> r]
  BY <1>1, AnswerEffect
<1>7. CommitKnown' BY <1>2, <1>4, <1>6 DEF LinkInv, Linked, CommitKnown
<1>8. ReplyTruthful' BY <1>1, <1>3, <1>4, <1>6, ReplyKept
<1> QED BY <1>5, <1>7, <1>8 DEF LinkInv, Linked

LEMMA LinkNext == TypeInv /\ LinkInv /\ [Next]_vars => LinkInv'
<1> SUFFICES ASSUME TypeInv, LinkInv, [Next]_vars PROVE LinkInv' OBVIOUS
<1>1. ASSUME NEW r \in Requests, NEW i \in Inputs, Arrive(r, i) PROVE LinkInv'
  BY <1>1, LinkArrive
<1>2. ASSUME NEW r \in Requests, RecordFound(r) PROVE LinkInv'
  BY <1>2, LinkRecordFound
<1>3. ASSUME NEW r \in Requests, RecordMissing(r) PROVE LinkInv'
  BY <1>3, LinkRecordMissing
<1>4. ASSUME NEW r \in Requests, TxCommit(r) PROVE LinkInv'
  BY <1>4, LinkCommit
<1>5. ASSUME NEW r \in Requests, SetCache(r) PROVE LinkInv'
  BY <1>5, LinkSetCache
<1>6. ASSUME NEW r \in Requests, Notify(r) PROVE LinkInv'
  BY <1>6, LinkNotify
<1> USE DEF LinkInv, Linked, TransactionsLinked, RecordsLinked, CacheLinked, CommitKnown,
            ReplyTruthful, Committed, TypeInv, TypeOK, Labels, NoReply, mongo, redisVars,
            Goto, Answer
<1>7. ASSUME NEW r \in Requests, DepositUserLookupFails(r) PROVE LinkInv'
  BY <1>7, ValidInput DEF DepositUserLookupFails
<1>8. ASSUME NEW r \in Requests, CacheHit(r) PROVE LinkInv'
  BY <1>8, ValidInput DEF CacheHit
<1>9. ASSUME NEW r \in Requests, CacheMiss(r) PROVE LinkInv'
  BY <1>9, ValidInput DEF CacheMiss
<1>10. ASSUME NEW r \in Requests, AcquireLock(r) PROVE LinkInv'
  BY <1>10, ValidInput DEF AcquireLock
<1>11. ASSUME NEW r \in Requests, LockBusy(r) PROVE LinkInv'
  BY <1>11, ValidInput DEF LockBusy
<1>12. ASSUME NEW r \in Requests, LockUnavailable(r) PROVE LinkInv'
  BY <1>12, ValidInput DEF LockUnavailable
<1>13. ASSUME NEW r \in Requests, MongoFails(r) PROVE LinkInv'
  BY <1>13, ValidInput DEF MongoFails
<1>14. ASSUME NEW r \in Requests, TxRead(r) PROVE LinkInv'
  BY <1>14, ValidInput DEF TxRead
<1>15. ASSUME NEW r \in Requests, TxRefuse(r) PROVE LinkInv'
  BY <1>15, ValidInput DEF TxRefuse
<1>16. ASSUME NEW r \in Requests, TxConflict(r) PROVE LinkInv'
  BY <1>16, ValidInput DEF TxConflict
<1>17. ASSUME NEW r \in Requests, TxDuplicate(r) PROVE LinkInv'
  BY <1>17, ValidInput DEF TxDuplicate
<1>18. ASSUME NEW r \in Requests, NotifyFails(r) PROVE LinkInv'
  BY <1>18, ValidInput DEF NotifyFails
<1>19. ASSUME NEW r \in Requests, Release(r) PROVE LinkInv'
  BY <1>19, ValidInput DEF Release
<1>20. ASSUME NEW r \in Requests, ResponseTimeout(r) PROVE LinkInv'
  BY <1>20 DEF ResponseTimeout, Active
<1>21. ASSUME NEW r \in Requests, Crash(r) PROVE LinkInv'
  BY <1>21 DEF Crash, Active
<1>22. ASSUME NEW s \in Slots, LockExpire(s) PROVE LinkInv'
  BY <1>22 DEF LockExpire
<1>23. ASSUME NEW s \in Slots, CacheExpire(s) PROVE LinkInv'
  BY <1>23 DEF CacheExpire
<1>24. ASSUME NEW d \in idempotency, RecordExpire(d) PROVE LinkInv'
  BY <1>24 DEF RecordExpire
<1>25. ASSUME UNCHANGED vars PROVE LinkInv'
  BY <1>25 DEF vars
<1> QED
  BY <1>1, <1>2, <1>3, <1>4, <1>5, <1>6, <1>7, <1>8, <1>9, <1>10, <1>11, <1>12, <1>13,
     <1>14, <1>15, <1>16, <1>17, <1>18, <1>19, <1>20, <1>21, <1>22, <1>23, <1>24, <1>25
  DEF Next, Handle, Environment

\* No user and key ever moves money twice, whatever expires, fails, crashes or
\* is retried in between.
THEOREM MovesAtMostOnce == Spec => []AtMostOnce
<1>1. LinkInv => AtMostOnce
  <2> SUFFICES ASSUME LinkInv, NEW r \in Requests, NEW s \in Requests,
                      Committed(r), Committed(s), Slot(input[r]) = Slot(input[s])
               PROVE  r = s
    BY DEF AtMostOnce
  <2>1. PICK t \in transactions : t.id = r BY DEF Committed
  <2>2. PICK u \in transactions : u.id = s BY DEF Committed
  <2>3. input[r].key = input[s].key BY DEF Slot
  <2>4. t = u BY <2>1, <2>2, <2>3 DEF LinkInv, Linked, TransactionsLinked
  <2> QED BY <2>1, <2>2, <2>4
<1> QED BY <1>1, TypeInit, TypeNext, LinkInit, LinkNext, PTL DEF Spec

\* A client that is told its movement was made, or had been made before, is
\* told of a committed movement of its own user and key.
THEOREM RepliesTruthful == Spec => []ReplyTruthful
<1>1. LinkInv => ReplyTruthful BY DEF LinkInv
<1> QED BY <1>1, TypeInit, TypeNext, LinkInit, LinkNext, PTL DEF Spec

(***************************************************************************)
(* Mutual exclusion of the handlers of one user and key.                   *)
(***************************************************************************)

LEMMA HolderInit == Init => HolderOrLapsed
BY DEF Init, HolderOrLapsed, InSection

LEMMA HolderNext == TypeInv /\ HolderOrLapsed /\ [Next]_vars => HolderOrLapsed'
<1> SUFFICES ASSUME TypeInv, HolderOrLapsed, [Next]_vars PROVE HolderOrLapsed' OBVIOUS
<1> DEFINE T == /\ pc \in [Requests -> Labels]
                /\ DOMAIN input = Requests
                /\ lock \in [Slots -> Requests \cup {None}]
                /\ \A r \in Requests : InSection(r) \/ pc[r] = "lock" => Slot(input[r]) \in Slots
<1>0. T
  <2>1. ASSUME NEW r \in Requests, InSection(r) \/ pc[r] = "lock" PROVE Slot(input[r]) \in Slots
    <3>1. input[r] \in Inputs /\ Valid(input[r]) BY <2>1 DEF InSection, TypeInv, TypeOK
    <3> QED BY <3>1, ValidInput
  <2> QED BY <2>1 DEF TypeInv, TypeOK
<1> HIDE DEF T
<1> USE <1>0 DEF T, HolderOrLapsed, InSection, Labels, mongo, redisVars, Goto
<1>1. ASSUME NEW r \in Requests, NEW i \in Inputs, Arrive(r, i) PROVE HolderOrLapsed'
  BY <1>1 DEF Arrive
<1>2. ASSUME NEW r \in Requests, DepositUserLookupFails(r) PROVE HolderOrLapsed'
  BY <1>2 DEF DepositUserLookupFails
<1>3. ASSUME NEW r \in Requests, CacheHit(r) PROVE HolderOrLapsed'
  BY <1>3 DEF CacheHit
<1>4. ASSUME NEW r \in Requests, CacheMiss(r) PROVE HolderOrLapsed'
  BY <1>4 DEF CacheMiss
<1>5. ASSUME NEW r \in Requests, AcquireLock(r) PROVE HolderOrLapsed'
  <2>1. lock[Slot(input[r])] = None /\ lock' = [lock EXCEPT ![Slot(input[r])] = r]
    BY <1>5 DEF AcquireLock
  <2>2. \A q \in Requests : InSection(q) /\ Slot(input[q]) = Slot(input[r]) => q \in lapsed
    BY <2>1, NoneAssumption
  <2>3. pc' = [pc EXCEPT ![r] = "record"] /\ pc[r] = "lock" /\ UNCHANGED <<input, lapsed>>
    BY <1>5 DEF AcquireLock
  <2>4. lock'[Slot(input[r])] = r BY <2>1, <2>3
  <2> SUFFICES ASSUME NEW q \in Requests, InSection(q)'
               PROVE  lock'[Slot(input'[q])] = q \/ q \in lapsed'
    OBVIOUS
  <2>5. CASE q = r BY <2>3, <2>4, <2>5
  <2>6. CASE q # r
    <3>1. InSection(q) BY <2>3, <2>6
    <3>2. lock[Slot(input[q])] = q \/ q \in lapsed BY <3>1
    <3> QED BY <2>1, <2>2, <2>3, <3>1, <3>2
  <2> QED BY <2>5, <2>6
<1>6. ASSUME NEW r \in Requests, LockBusy(r) PROVE HolderOrLapsed'
  BY <1>6 DEF LockBusy
<1>7. ASSUME NEW r \in Requests, LockUnavailable(r) PROVE HolderOrLapsed'
  <2>1. \/ lock' = lock
        \/ lock[Slot(input[r])] = None /\ lock' = [lock EXCEPT ![Slot(input[r])] = r]
    BY <1>7 DEF LockUnavailable
  <2>2. pc' = [pc EXCEPT ![r] = "done"] /\ UNCHANGED <<input, lapsed>>
    BY <1>7 DEF LockUnavailable
  <2> SUFFICES ASSUME NEW q \in Requests, InSection(q)'
               PROVE  lock'[Slot(input'[q])] = q \/ q \in lapsed'
    OBVIOUS
  <2>3. InSection(q) BY <2>2
  <2>4. lock[Slot(input[q])] = q \/ q \in lapsed BY <2>3
  <2> QED BY <2>1, <2>2, <2>3, <2>4, NoneAssumption
<1>8. ASSUME NEW r \in Requests, RecordFound(r) PROVE HolderOrLapsed'
  BY <1>8 DEF RecordFound
<1>9. ASSUME NEW r \in Requests, RecordMissing(r) PROVE HolderOrLapsed'
  BY <1>9 DEF RecordMissing
<1>10. ASSUME NEW r \in Requests, MongoFails(r) PROVE HolderOrLapsed'
  BY <1>10 DEF MongoFails
<1>11. ASSUME NEW r \in Requests, TxRead(r) PROVE HolderOrLapsed'
  BY <1>11 DEF TxRead
<1>12. ASSUME NEW r \in Requests, TxRefuse(r) PROVE HolderOrLapsed'
  BY <1>12 DEF TxRefuse
<1>13. ASSUME NEW r \in Requests, TxConflict(r) PROVE HolderOrLapsed'
  BY <1>13 DEF TxConflict
<1>14. ASSUME NEW r \in Requests, TxDuplicate(r) PROVE HolderOrLapsed'
  BY <1>14 DEF TxDuplicate
<1>15. ASSUME NEW r \in Requests, TxCommit(r) PROVE HolderOrLapsed'
  BY <1>15 DEF TxCommit
<1>16. ASSUME NEW r \in Requests, SetCache(r) PROVE HolderOrLapsed'
  BY <1>16 DEF SetCache
<1>17. ASSUME NEW r \in Requests, Notify(r) PROVE HolderOrLapsed'
  BY <1>17 DEF Notify
<1>18. ASSUME NEW r \in Requests, NotifyFails(r) PROVE HolderOrLapsed'
  BY <1>18 DEF NotifyFails
<1>19. ASSUME NEW r \in Requests, Release(r) PROVE HolderOrLapsed'
  BY <1>19 DEF Release
<1>20. ASSUME NEW r \in Requests, ResponseTimeout(r) PROVE HolderOrLapsed'
  BY <1>20 DEF ResponseTimeout, Active
<1>21. ASSUME NEW r \in Requests, Crash(r) PROVE HolderOrLapsed'
  BY <1>21 DEF Crash, Active
<1>22. ASSUME NEW s \in Slots, LockExpire(s) PROVE HolderOrLapsed'
  BY <1>22 DEF LockExpire
<1>23. ASSUME NEW s \in Slots, CacheExpire(s) PROVE HolderOrLapsed'
  BY <1>23 DEF CacheExpire
<1>24. ASSUME NEW d \in idempotency, RecordExpire(d) PROVE HolderOrLapsed'
  BY <1>24 DEF RecordExpire
<1>25. ASSUME UNCHANGED vars PROVE HolderOrLapsed'
  BY <1>25 DEF vars
<1> QED
  BY <1>1, <1>2, <1>3, <1>4, <1>5, <1>6, <1>7, <1>8, <1>9, <1>10, <1>11, <1>12, <1>13,
     <1>14, <1>15, <1>16, <1>17, <1>18, <1>19, <1>20, <1>21, <1>22, <1>23, <1>24, <1>25
  DEF Next, Handle, Environment

\* Two handlers are at work on one user and key only if the lock of one of
\* them has run out: a release never frees a lock another request has taken.
THEOREM MutuallyExclusive == Spec => []MutualExclusion
<1>1. HolderOrLapsed => MutualExclusion BY DEF HolderOrLapsed, MutualExclusion
<1> QED BY <1>1, TypeInit, TypeNext, HolderInit, HolderNext, PTL DEF Spec

(***************************************************************************)
(* The ledger.                                                             *)
(***************************************************************************)

Chained(es, balance) ==
    /\ \A n \in DOMAIN es :
          /\ es[n].after = es[n].before
               + (IF es[n].type = "CREDIT" THEN es[n].amount ELSE -es[n].amount)
          /\ es[n].before = IF n = 1 THEN 0 ELSE es[n-1].after
    /\ balance = IF es = << >> THEN 0 ELSE es[Len(es)].after

\* An entry that starts at the balance the chain ends in extends the chain.
LEMMA ChainExtends ==
    ASSUME NEW es \in Seq(LedgerDocs), NEW b \in Int, Chained(es, b),
           NEW e \in LedgerDocs, e.before = b,
           e.after = e.before + (IF e.type = "CREDIT" THEN e.amount ELSE -e.amount)
    PROVE  Chained(Append(es, e), e.after)
<1> DEFINE fs == Append(es, e)
<1>1. /\ Len(fs) = Len(es) + 1 /\ fs[Len(fs)] = e
      /\ DOMAIN fs = 1..Len(es) + 1 /\ DOMAIN es = 1..Len(es) /\ Len(es) \in Nat
      /\ \A n \in 1..Len(es) : fs[n] = es[n]
      /\ fs # << >>
  OBVIOUS
<1>2. es = << >> <=> Len(es) = 0 OBVIOUS
<1> HIDE DEF fs
<1>3. ASSUME NEW n \in DOMAIN fs
      PROVE  /\ fs[n].after = fs[n].before
                  + (IF fs[n].type = "CREDIT" THEN fs[n].amount ELSE -fs[n].amount)
             /\ fs[n].before = IF n = 1 THEN 0 ELSE fs[n-1].after
  <2>1. CASE n \in 1..Len(es)
    <3>1. n # 1 => n - 1 \in 1..Len(es) BY <2>1, <1>1
    <3> QED BY <1>1, <2>1, <3>1 DEF Chained
  <2>2. CASE n = Len(es) + 1
    <3>1. fs[n] = e BY <1>1, <2>2
    <3>2. CASE es = << >> BY <1>2, <2>2, <3>1, <3>2 DEF Chained
    <3>3. CASE es # << >>
      <4>1. n - 1 = Len(es) /\ n # 1 /\ Len(es) \in 1..Len(es) BY <1>1, <1>2, <2>2, <3>3
      <4>2. fs[n-1] = es[Len(es)] BY <1>1, <4>1
      <4> QED BY <3>1, <3>3, <4>1, <4>2 DEF Chained
    <3> QED BY <3>2, <3>3
  <2> QED BY <1>1, <2>1, <2>2
<1> QED BY <1>1, <1>3 DEF Chained, fs

\* As long as nobody has withdrawn from an account its ledger is an unbroken
\* chain of running balances from 0 to the account's balance.
THEOREM LedgerStaysChained == Spec => []LedgerChained
<1> DEFINE Inv == \A a \in Accounts : ~Withdrawn(a) => Chained(ledger[a], account[a].balance)
<1>1. Inv <=> LedgerChained BY DEF Chained, LedgerChained
<1>2. Init => Inv
  <2> SUFFICES ASSUME Init, NEW a \in Accounts PROVE Chained(ledger[a], account[a].balance)
    OBVIOUS
  <2>1. OpeningBalance[a] \in Nat BY BalanceAssumption
  <2>2. ledger[a] = OpeningLedger(a) /\ account[a].balance = OpeningBalance[a] BY DEF Init
  <2>3. CASE OpeningBalance[a] = 0 BY <2>2, <2>3 DEF OpeningLedger, Chained
  <2>4. CASE OpeningBalance[a] # 0
    <3> DEFINE e == [transaction |-> None, type |-> "CREDIT", amount |-> OpeningBalance[a],
                     before |-> 0, after |-> OpeningBalance[a]]
    <3>1. e \in LedgerDocs BY <2>1 DEF LedgerDocs
    <3>2. Chained(<< >>, 0) BY DEF Chained
    <3>3. e.before = 0 /\ e.after = OpeningBalance[a]
          /\ e.after = e.before + (IF e.type = "CREDIT" THEN e.amount ELSE -e.amount)
      BY <2>1
    <3>4. ledger[a] = <<e>> BY <2>2, <2>4 DEF OpeningLedger
    <3> DEFINE empty == << >>
    <3> HIDE DEF e
    <3>5. /\ empty \in Seq(LedgerDocs) /\ Append(empty, e) = <<e>>
          /\ e.before \in Int /\ Chained(empty, e.before)
      BY <3>1, <3>2, <3>3
    <3> HIDE DEF empty
    <3>6. Chained(Append(empty, e), e.after) BY <3>1, <3>3, <3>5, ChainExtends
    <3>7. ledger[a] = Append(empty, e) /\ account[a].balance = e.after
      BY <2>2, <3>3, <3>4, <3>5
    <3> QED BY <3>6, <3>7
  <2> QED BY <2>3, <2>4
<1>3. ASSUME TypeInv, Inv, [Next]_vars PROVE Inv'
  <2>1. CASE UNCHANGED <<account, ledger, transactions>> BY <1>3, <2>1 DEF Chained, Withdrawn
  <2>2. ASSUME NEW r \in Requests, TxCommit(r) PROVE Inv'
    <3> SUFFICES ASSUME NEW a \in Accounts, ~Withdrawn(a)'
                 PROVE  Chained(ledger'[a], account'[a].balance)
      OBVIOUS
    <3> DEFINE i == input[r]
               e == Entry(r, i, a, account[a])
    <3>1. /\ i \in Inputs /\ Valid(i) /\ i.amount \in Int /\ i.sender # i.receiver
          /\ \A x \in Touched(i) : snapshot[r][x] = account[x]
          /\ account'[a].balance = account[a].balance + Delta(i, a)
      BY <1>3, <2>2, CommitEffect, InputType, ValidInput
    <3>7. /\ ~Withdrawn(a)
          /\ a \in Touched(i) => i.purpose # "withdrawal"
      <4>1. transactions' = transactions \cup {TransactionDoc(r, i, snapshot[r])}
        BY <2>2 DEF TxCommit
      <4>2. ~Withdrawn(a) BY <4>1 DEF Withdrawn
      <4>3. ASSUME a \in Touched(i), i.purpose = "withdrawal" PROVE FALSE
        <5>1. i.receiver = None /\ a \in {i.sender, None} /\ a # None
          BY <3>1, <4>3, InputType, NoneAssumption DEF Touched
        <5>2. /\ TransactionDoc(r, i, snapshot[r]).type = "WITHDRAW"
              /\ TransactionDoc(r, i, snapshot[r]).sender = a
          BY <4>3, <5>1 DEF TransactionDoc
        <5> QED BY <4>1, <5>2 DEF Withdrawn
      <4> QED BY <4>2, <4>3
    <3>2. /\ account[a] \in AccountDocs /\ account[a].balance \in Int
          /\ ledger[a] \in Seq(LedgerDocs)
          /\ Chained(ledger[a], account[a].balance)
      BY <1>3, <3>7 DEF TypeInv, TypeOK, AccountDocs
    <3>3. ledger'[a] = IF a \in Touched(i) THEN Append(ledger[a], Entry(r, i, a, snapshot[r][a]))
                       ELSE ledger[a]
      BY <2>2 DEF TxCommit
    <3>4. Delta(i, a) \in Int BY <3>1, DeltaType
    <3>5. CASE a \in Touched(i)
      <4>1. ledger'[a] = Append(ledger[a], e) BY <3>1, <3>3, <3>5
      <4>2. e \in LedgerDocs BY <3>1, <3>2, EntryType
      <4>3. e = [transaction |-> r, type |-> IF a = i.receiver THEN "CREDIT" ELSE "DEBIT",
                 amount |-> i.amount, before |-> account[a].balance,
                 after |-> account[a].balance + Delta(i, a)]
        BY <3>1, <3>5, <3>7 DEF Entry
      <4>4. Delta(i, a) = IF a = i.receiver THEN i.amount ELSE -i.amount
        BY <3>1, <3>5 DEF Delta, Touched
      <4>5. /\ e.before = account[a].balance /\ e.after = account'[a].balance
            /\ e.after = e.before + (IF e.type = "CREDIT" THEN e.amount ELSE -e.amount)
        <5>1. CASE a = i.receiver BY <3>1, <3>2, <3>4, <4>3, <4>4, <5>1
        <5>2. CASE a # i.receiver BY <3>1, <3>2, <3>4, <4>3, <4>4, <5>2
        <5> QED BY <5>1, <5>2
      <4> HIDE DEF e
      <4> QED BY <3>2, <4>1, <4>2, <4>5, ChainExtends
    <3>6. CASE a \notin Touched(i)
      <4>1. a # i.sender /\ a # i.receiver BY <3>6, NoneAssumption DEF Touched
      <4>2. Delta(i, a) = 0 BY <4>1 DEF Delta
      <4> QED BY <3>1, <3>2, <3>3, <3>6, <4>2
    <3> QED BY <3>5, <3>6
  <2> QED BY <1>3, <2>1, <2>2, OnlyCommitMoves
<1> HIDE DEF Inv
<1> QED BY <1>1, <1>2, <1>3, TypeInit, TypeNext, PTL DEF Spec

(***************************************************************************)
(* The engine implements the abstract bank.                                *)
(***************************************************************************)

\* A step answers at most one request, and only one that had no answer.
OneAnswer(r) ==
    /\ \A x \in Requests \ {r} : reply'[x] = reply[x] /\ input'[x] = input[x]
    /\ reply[r] = NoReply \/ (reply'[r] = reply[r] /\ input'[r] = input[r])

LEMMA AnswerIsOne ==
    ASSUME TypeInv, NEW r \in Requests, NEW kind, NEW t,
           Answer(r, kind, t), input' = input
    PROVE  OneAnswer(r)
<1>1. DOMAIN reply = Requests BY DEF TypeInv, TypeOK
<1> QED BY <1>1 DEF Answer, OneAnswer

LEMMA AnswersOne ==
    ASSUME TypeInv, LinkInv, [Next]_vars
    PROVE  UNCHANGED <<reply, input>> \/ \E r \in Requests : OneAnswer(r)
<1> USE DEF mongo, redisVars
<1>1. ASSUME NEW r \in Requests, NEW i \in Inputs, Arrive(r, i) PROVE OneAnswer(r)
  <2>1. pc[r] = "idle" BY <1>1 DEF Arrive
  <2>2. reply[r] = NoReply BY <2>1 DEF LinkInv, Linked, CommitKnown
  <2>3. \A x \in Requests \ {r} : input'[x] = input[x] BY <1>1 DEF Arrive, TypeInv, TypeOK
  <2>4. reply' = reply \/ Answer(r, "failed", None) BY <1>1 DEF Arrive
  <2> QED BY <2>2, <2>3, <2>4, AnswerEffect DEF OneAnswer
<1>2. ASSUME NEW r \in Requests, DepositUserLookupFails(r) PROVE UNCHANGED <<reply, input>> \/ OneAnswer(r)
  BY <1>2, AnswerIsOne DEF DepositUserLookupFails
<1>3. ASSUME NEW r \in Requests, CacheHit(r) PROVE UNCHANGED <<reply, input>> \/ OneAnswer(r)
  BY <1>3, AnswerIsOne DEF CacheHit
<1>4. ASSUME NEW r \in Requests, LockBusy(r) PROVE UNCHANGED <<reply, input>> \/ OneAnswer(r)
  BY <1>4, AnswerIsOne DEF LockBusy
<1>5. ASSUME NEW r \in Requests, LockUnavailable(r) PROVE UNCHANGED <<reply, input>> \/ OneAnswer(r)
  BY <1>5, AnswerIsOne DEF LockUnavailable
<1>6. ASSUME NEW r \in Requests, RecordFound(r) PROVE UNCHANGED <<reply, input>> \/ OneAnswer(r)
  BY <1>6, AnswerIsOne DEF RecordFound
<1>7. ASSUME NEW r \in Requests, RecordMissing(r) PROVE UNCHANGED <<reply, input>> \/ OneAnswer(r)
  BY <1>7, AnswerIsOne DEF RecordMissing
<1>8. ASSUME NEW r \in Requests, MongoFails(r) PROVE UNCHANGED <<reply, input>> \/ OneAnswer(r)
  BY <1>8, AnswerIsOne DEF MongoFails
<1>9. ASSUME NEW r \in Requests, TxRefuse(r) PROVE UNCHANGED <<reply, input>> \/ OneAnswer(r)
  BY <1>9, AnswerIsOne DEF TxRefuse
<1>10. ASSUME NEW r \in Requests, TxDuplicate(r) PROVE UNCHANGED <<reply, input>> \/ OneAnswer(r)
  BY <1>10, AnswerIsOne DEF TxDuplicate
<1>11. ASSUME NEW r \in Requests, TxCommit(r) PROVE UNCHANGED <<reply, input>> \/ OneAnswer(r)
  BY <1>11, AnswerIsOne DEF TxCommit
<1>12. ASSUME NEW r \in Requests, Notify(r) PROVE UNCHANGED <<reply, input>> \/ OneAnswer(r)
  BY <1>12, AnswerIsOne DEF Notify
<1>13. ASSUME NEW r \in Requests, NotifyFails(r) PROVE UNCHANGED <<reply, input>> \/ OneAnswer(r)
  BY <1>13, AnswerIsOne DEF NotifyFails
<1>14. ASSUME NEW r \in Requests, ResponseTimeout(r) PROVE OneAnswer(r)
  BY <1>14, AnswerIsOne DEF ResponseTimeout
<1>15. ASSUME NEW r \in Requests,
                \/ CacheMiss(r) \/ AcquireLock(r) \/ TxRead(r) \/ TxConflict(r)
                \/ SetCache(r) \/ Release(r) \/ Crash(r)
         PROVE  UNCHANGED <<reply, input>>
  BY <1>15 DEF CacheMiss, AcquireLock, TxRead, TxConflict, SetCache, Release, Crash
<1>16. ASSUME NEW s \in Slots, LockExpire(s) \/ CacheExpire(s) PROVE UNCHANGED <<reply, input>>
  BY <1>16 DEF LockExpire, CacheExpire
<1>17. ASSUME NEW d \in idempotency, RecordExpire(d) PROVE UNCHANGED <<reply, input>>
  BY <1>17 DEF RecordExpire
<1> QED
  BY <1>1, <1>2, <1>3, <1>4, <1>5, <1>6, <1>7, <1>8, <1>9, <1>10, <1>11, <1>12, <1>13, <1>14, <1>15, <1>16, <1>17 DEF Next, Handle, Environment, vars

LEMMA InputsKept ==
    ASSUME TypeInv, LinkInv, [Next]_vars, NEW x \in Requests, Committed(x)
    PROVE  input'[x] = input[x]
<1>1. pc[x] # "idle" BY CommittedIsPast
<1>2. input' = input \/ \E r \in Requests, i \in Inputs : Arrive(r, i)
  BY DEF Next, Handle, Environment, vars, DepositUserLookupFails, CacheHit, CacheMiss,
         AcquireLock, LockBusy, LockUnavailable, RecordFound, RecordMissing, MongoFails,
         TxRead, TxRefuse, TxConflict, TxDuplicate, TxCommit, SetCache, Notify, NotifyFails,
         Release, ResponseTimeout, Crash, LockExpire, CacheExpire, RecordExpire
<1>3. ASSUME NEW r \in Requests, NEW i \in Inputs, Arrive(r, i) PROVE input'[x] = input[x]
  BY <1>1, <1>3 DEF Arrive, TypeInv, TypeOK
<1> QED BY <1>2, <1>3

\* What the clients have been told grows by at most one settled id a step.
LEMMA AcknowledgeStep ==
    ASSUME TypeInv, LinkInv, LinkInv', [Next]_vars
    PROVE  \/ Acknowledged' = Acknowledged
           \/ \E id \in Settled' : Acknowledged' = Acknowledged \cup {id}
<1>1. CASE UNCHANGED <<reply, input>> BY <1>1 DEF Acknowledged
<1>2. ASSUME NEW r \in Requests, OneAnswer(r), reply[r] = NoReply
      PROVE  \/ Acknowledged' = Acknowledged
             \/ \E id \in Settled' : Acknowledged' = Acknowledged \cup {id}
  <2>1. reply[r].kind \notin {"created", "replayed"} BY <1>2 DEF NoReply
  <2>2. CASE reply'[r].kind \in {"created", "replayed"}
    <3>1. PICK t \in transactions' : /\ t.id = reply'[r].transaction
                                     /\ Slot(input'[t.id]) = Slot(input'[r])
      BY <2>2 DEF LinkInv, ReplyTruthful, Committed
    <3>2. Slot(input'[r]) \in Settled' BY <3>1 DEF Settled
    <3>3. Acknowledged' = Acknowledged \cup {Slot(input'[r])}
      BY <1>2, <2>1, <2>2 DEF Acknowledged, OneAnswer
    <3> QED BY <3>2, <3>3
  <2>3. CASE reply'[r].kind \notin {"created", "replayed"}
    BY <1>2, <2>1, <2>3 DEF Acknowledged, OneAnswer
  <2> QED BY <2>2, <2>3
<1>3. ASSUME NEW r \in Requests, OneAnswer(r), reply[r] # NoReply
      PROVE  Acknowledged' = Acknowledged
  BY <1>3 DEF Acknowledged, OneAnswer
<1> QED BY <1>1, <1>2, <1>3, AnswersOne

LEMMA BankInit == Init => Promise!Init
<1> SUFFICES ASSUME Init PROVE Promise!Init OBVIOUS
<1>1. Funds = OpeningBalance BY BalanceAssumption DEF Init, Funds
<1>2. Settled = {} BY DEF Init, Settled
<1>3. Acknowledged = {} BY DEF Init, Acknowledged, NoReply
<1> QED BY <1>1, <1>2, <1>3 DEF Promise!Init

\* A commit moves the amount between the funds of two accounts, or of one and
\* the outside, and tells no client of it.
LEMMA CommitFunds ==
    ASSUME TypeInv, NEW r \in Requests, TxCommit(r)
    PROVE  LET i == input[r]
           IN  /\ i \in Inputs /\ i.key \in Keys /\ i.amount > 0 /\ i.sender # i.receiver
               /\ i.sender \in Accounts \cup {None} /\ i.receiver \in Accounts \cup {None}
               /\ i.sender # None => Funds[i.sender] >= i.amount
               /\ Funds' = [a \in Accounts |->
                               Funds[a] + (IF a = i.receiver THEN i.amount ELSE 0)
                                        - (IF a = i.sender THEN i.amount ELSE 0)]
               /\ Acknowledged' = Acknowledged
<1> DEFINE i == input[r]
<1>1. /\ i \in Inputs /\ Valid(i) /\ Touched(i) \subseteq Accounts
      /\ i.purpose # "deposit" =>
            i.sender \in Accounts /\ account[i.sender].balance >= i.amount
      /\ \A a \in Accounts : account'[a].balance = account[a].balance + Delta(i, a)
  BY CommitEffect
<1>2. /\ i.key \in Keys /\ i.amount \in Int /\ i.amount > 0 /\ i.sender # i.receiver
      /\ i.purpose = "deposit" => i.sender = None
  BY <1>1, ValidInput, InputType
<1>3. i.sender \in Accounts \cup {None} /\ i.receiver \in Accounts \cup {None}
  BY <1>1 DEF Touched
<1>4. Funds' = [a \in Accounts |-> Funds[a] + (IF a = i.receiver THEN i.amount ELSE 0)
                                            - (IF a = i.sender THEN i.amount ELSE 0)]
  <2>1. ASSUME NEW a \in Accounts
        PROVE  account'[a].balance = account[a].balance + (IF a = i.receiver THEN i.amount ELSE 0)
                                                        - (IF a = i.sender THEN i.amount ELSE 0)
    <3>1. account[a].balance \in Int BY DEF TypeInv, TypeOK, AccountDocs
    <3> QED BY <1>1, <1>2, <3>1 DEF Delta
  <2> QED BY <2>1 DEF Funds
<1>5. i.sender # None => Funds[i.sender] >= i.amount BY <1>1, <1>2 DEF Funds
<1>6. Acknowledged' = Acknowledged
  <2>1. reply' = reply \/ Answer(r, "failed", None) BY DEF TxCommit
  <2>2. input' = input BY DEF TxCommit
  <2>3. \A x \in Requests : reply'[x].kind \in {"created", "replayed"} <=>
                             reply[x].kind \in {"created", "replayed"}
    <3>1. CASE reply' = reply BY <3>1
    <3>2. CASE Answer(r, "failed", None)
      <4>1. DOMAIN reply = Requests BY DEF TypeInv, TypeOK
      <4> QED BY <3>2, <4>1 DEF Answer, NoReply
    <3> QED BY <2>1, <3>1, <3>2
  <2> QED BY <2>2, <2>3 DEF Acknowledged
<1> QED BY <1>1, <1>2, <1>3, <1>4, <1>5, <1>6

\* A commit is a Move of the abstract bank.
LEMMA CommitMoves ==
    ASSUME TypeInv, LinkInv, LinkInv', NEW r \in Requests, TxCommit(r), [Next]_vars
    PROVE  Promise!Next
<1> DEFINE i == input[r]
           id == Slot(i)
<1>1. /\ i \in Inputs /\ i.key \in Keys /\ i.amount > 0 /\ i.sender # i.receiver
      /\ i.sender \in Accounts \cup {None} /\ i.receiver \in Accounts \cup {None}
      /\ i.sender # None => Funds[i.sender] >= i.amount
      /\ Funds' = [a \in Accounts |->
                      Funds[a] + (IF a = i.receiver THEN i.amount ELSE 0)
                               - (IF a = i.sender THEN i.amount ELSE 0)]
      /\ Acknowledged' = Acknowledged
  BY CommitFunds
<1>2. id \in Slots BY <1>1, InputType DEF Slot, Slots
<1>3. \A t \in transactions : t.idempotencyKey # i.key BY DEF TxCommit, Duplicate
<1>4. id \notin Settled BY <1>3 DEF Settled, LinkInv, Linked, TransactionsLinked, Slot
<1>5. Settled' = Settled \cup {id}
  <2>1. /\ transactions' = transactions \cup {TransactionDoc(r, i, snapshot[r])}
        /\ input' = input
    BY DEF TxCommit
  <2>2. TransactionDoc(r, i, snapshot[r]).id = r BY DEF TransactionDoc
  <2> QED BY <2>1, <2>2 DEF Settled
<1> HIDE DEF i, id
<1>6. Promise!Move(id, i.sender, i.receiver, i.amount) /\ UNCHANGED Acknowledged
  BY <1>1, <1>2, <1>4, <1>5 DEF Promise!Move
<1> QED BY <1>1, <1>2, <1>6 DEF Promise!Next

\* Every other step is invisible to the abstract bank or an Acknowledge.
LEMMA OthersAcknowledge ==
    ASSUME TypeInv, LinkInv, LinkInv', [Next]_vars,
           UNCHANGED <<account, ledger, transactions>>
    PROVE  Promise!Next \/ UNCHANGED Promise!bankVars
<1>1. Funds' = Funds BY DEF Funds
<1>2. Settled' = Settled
  <2>1. \A t \in transactions : input'[t.id] = input[t.id] BY NamedRequests, InputsKept
  <2> QED BY <2>1 DEF Settled
<1>3. Settled \subseteq Slots
  <2>1. ASSUME NEW t \in transactions PROVE Slot(input[t.id]) \in Slots
    <3>1. t.id \in Requests /\ Committed(t.id) BY NamedRequests
    <3>2. pc[t.id] # "idle" BY <3>1, CommittedIsPast
    <3>3. input[t.id] \in Inputs BY <3>1, <3>2 DEF TypeInv, TypeOK
    <3>4. t.idempotencyKey = input[t.id].key /\ t.idempotencyKey \in Keys
      BY DEF LinkInv, Linked, TransactionsLinked, TypeInv, TypeOK, TransactionDocs
    <3> QED BY <3>3, <3>4, InputType DEF Slot, Slots
  <2> QED BY <2>1 DEF Settled
<1>4. CASE Acknowledged' = Acknowledged BY <1>1, <1>2, <1>4 DEF Promise!bankVars
<1>5. ASSUME NEW id \in Settled', Acknowledged' = Acknowledged \cup {id} PROVE Promise!Next
  <2>1. Promise!Acknowledge(id) BY <1>1, <1>2, <1>5 DEF Promise!Acknowledge
  <2> QED BY <1>2, <1>3, <2>1 DEF Promise!Next
<1> QED BY <1>4, <1>5, AcknowledgeStep

\* Every behaviour of the engine is a behaviour of the abstract bank: money
\* moves in one step, once for each user and key, out of sufficient funds, and
\* clients are told only of what happened.
THEOREM EngineImplementsBank == Spec => ImplementsBank
<1>1. TypeInv /\ LinkInv /\ LinkInv' /\ [Next]_vars => [Promise!Next]_(Promise!bankVars)
  <2> SUFFICES ASSUME TypeInv, LinkInv, LinkInv', [Next]_vars
               PROVE  Promise!Next \/ UNCHANGED Promise!bankVars
    OBVIOUS
  <2> QED BY OnlyCommitMoves, CommitMoves, OthersAcknowledge
<1> QED
  BY <1>1, TypeInit, TypeNext, LinkInit, LinkNext, BankInit, PTL
  DEF Spec, ImplementsBank, Promise!Spec

(***************************************************************************)
(* The notifications handed to the email queue.                            *)
(***************************************************************************)

\* Only a handler past its commit adds jobs, and only those of its movement.
LEMMA EmailEffect ==
    ASSUME [Next]_vars
    PROVE  \/ emails' = emails
           \/ \E r \in Requests :
                 /\ pc[r] = "notify"
                 /\ \A e \in emails' \ emails : e.request = r /\ e.template \in Notices(input[r])
<1>1. ASSUME NEW r \in Requests, Notify(r) \/ NotifyFails(r), emails' # emails
      PROVE  /\ pc[r] = "notify"
             /\ \A e \in emails' \ emails : e.request = r /\ e.template \in Notices(input[r])
  BY <1>1 DEF Notify, NotifyFails
<1> QED
  BY <1>1 DEF Next, Handle, Environment, vars, Arrive, DepositUserLookupFails, CacheHit,
         CacheMiss, AcquireLock, LockBusy, LockUnavailable, RecordFound, RecordMissing,
         MongoFails, TxRead, TxRefuse, TxConflict, TxDuplicate, TxCommit, SetCache,
         Release, ResponseTimeout, Crash, LockExpire, CacheExpire, RecordExpire

LEMMA CommittedStays ==
    ASSUME [Next]_vars, NEW x, Committed(x) PROVE Committed(x)'
<1>1. transactions \subseteq transactions' BY OnlyCommitMoves DEF TxCommit
<1> QED BY <1>1 DEF Committed

LEMMA EmailsNext ==
    ASSUME TypeInv, LinkInv, EmailsAnnounceMovements, [Next]_vars
    PROVE  EmailsAnnounceMovements'
<1> SUFFICES ASSUME NEW e \in emails'
             PROVE  Committed(e.request)' /\ e.template \in Notices(input'[e.request])
  BY DEF EmailsAnnounceMovements, Notices
<1>1. e.request \in Requests /\ Committed(e.request) /\ e.template \in Notices(input[e.request])
  <2>1. CASE e \in emails BY <2>1 DEF EmailsAnnounceMovements, TypeInv, TypeOK
  <2>2. CASE e \notin emails
    <3>1. PICK r \in Requests :
             pc[r] = "notify" /\ e.request = r /\ e.template \in Notices(input[r])
      BY <2>2, EmailEffect
    <3> QED BY <3>1 DEF LinkInv, Linked, CommitKnown
  <2> QED BY <2>1, <2>2
<1> QED BY <1>1, CommittedStays, InputsKept

\* Whatever fails, expires or is retried, a notification that reaches the queue
\* is about a movement that was made.
THEOREM EmailsTruthful == Spec => []EmailsAnnounceMovements
<1>1. Init => EmailsAnnounceMovements BY DEF Init, EmailsAnnounceMovements
<1>2. TypeInv /\ LinkInv /\ EmailsAnnounceMovements /\ [Next]_vars => EmailsAnnounceMovements'
  BY EmailsNext
<1> QED BY <1>1, <1>2, TypeInit, TypeNext, LinkInit, LinkNext, PTL DEF Spec
=============================================================================
