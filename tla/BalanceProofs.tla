---------------------------- MODULE BalanceProofs ----------------------------
(* Balances and ledgers as sums over the documents, for all values of the   *)
(* constants of TransactionEngine.                                          *)
EXTENDS TransactionEngineProofs, SumTheorems

\* The summands of the three totals of an account.
Movements(a) == [t \in transactions |-> Delta(input[t.id], a)]

Leftovers(a) ==
    [t \in transactions |->
        IF t.type = "WITHDRAW" /\ t.sender = a THEN input[t.id].amount - t.amount ELSE 0]

Entries(a) ==
    [n \in DOMAIN ledger[a] |->
        IF ledger[a][n].type = "CREDIT" THEN ledger[a][n].amount ELSE -ledger[a][n].amount]

LEMMA Totals ==
    ASSUME NEW a
    PROVE  /\ MovementTotal(a) = SumFunction(Movements(a))
           /\ Unrecorded(a) = SumFunction(Leftovers(a))
           /\ Reconstructed(a) = SumFunction(Entries(a))
BY DEF MovementTotal, Unrecorded, Reconstructed, Movements, Leftovers, Entries

\* Behind every Transaction document is the input of a request.
LEMMA DocumentInputs ==
    ASSUME TypeInv, LinkInv, NEW t \in transactions
    PROVE  /\ t.id \in Requests /\ Committed(t.id)
           /\ input[t.id] \in Inputs
           /\ t.amount \in Int
<1>1. t.id \in Requests /\ Committed(t.id) BY NamedRequests
<1>2. pc[t.id] # "idle" BY <1>1, CommittedIsPast
<1>3. input[t.id] \in Inputs BY <1>1, <1>2 DEF TypeInv, TypeOK
<1> QED BY <1>1, <1>3 DEF TypeInv, TypeOK, TransactionDocs

LEMMA SummandTypes ==
    ASSUME TypeInv, LinkInv, NEW a \in Accounts
    PROVE  /\ \A t \in transactions : Movements(a)[t] \in Int /\ Leftovers(a)[t] \in Int
           /\ \A n \in DOMAIN ledger[a] : Entries(a)[n] \in Int
<1>1. ASSUME NEW t \in transactions
      PROVE  Movements(a)[t] \in Int /\ Leftovers(a)[t] \in Int
  <2>1. input[t.id] \in Inputs /\ t.amount \in Int BY DocumentInputs
  <2>2. input[t.id].amount \in Int /\ Delta(input[t.id], a) \in Int
    BY <2>1, InputType, DeltaType
  <2> QED BY <2>1, <2>2 DEF Movements, Leftovers
<1>2. ASSUME NEW n \in DOMAIN ledger[a]
      PROVE  Entries(a)[n] \in Int
  <2>1. ledger[a] \in Seq(LedgerDocs) BY DEF TypeInv, TypeOK
  <2>2. ledger[a][n] \in LedgerDocs BY <2>1
  <2> QED BY <2>2 DEF Entries, LedgerDocs
<1> QED BY <1>1, <1>2

LEMMA TotalTypes ==
    ASSUME TypeInv, LinkInv, IsFiniteSet(transactions), NEW a \in Accounts
    PROVE  MovementTotal(a) \in Int /\ Unrecorded(a) \in Int /\ Reconstructed(a) \in Int
<1>1. IsFiniteSet(DOMAIN ledger[a])
  <2>1. ledger[a] \in Seq(LedgerDocs) BY DEF TypeInv, TypeOK
  <2>2. DOMAIN ledger[a] = 1..Len(ledger[a]) /\ Len(ledger[a]) \in Nat BY <2>1
  <2> QED BY <2>2, FS_Interval
<1>2. /\ DOMAIN Movements(a) = transactions
      /\ DOMAIN Leftovers(a) = transactions
      /\ DOMAIN Entries(a) = DOMAIN ledger[a]
  BY DEF Movements, Leftovers, Entries
<1> QED BY <1>1, <1>2, SummandTypes, Totals, SumFunctionInt

\* A step that commits nothing leaves every total alone.
LEMMA TotalsStand ==
    ASSUME TypeInv, LinkInv, [Next]_vars, UNCHANGED <<ledger, transactions>>, NEW a
    PROVE  /\ MovementTotal(a)' = MovementTotal(a)
           /\ Unrecorded(a)' = Unrecorded(a)
           /\ Reconstructed(a)' = Reconstructed(a)
<1>1. \A t \in transactions : input'[t.id] = input[t.id] BY NamedRequests, InputsKept
<1>2. MovementTotal(a)' = MovementTotal(a)
  <2>1. [t \in transactions' |-> Delta(input'[t.id], a)]
          = [t \in transactions |-> Delta(input[t.id], a)]
    BY <1>1
  <2> QED BY <2>1 DEF MovementTotal, Delta
<1>3. Unrecorded(a)' = Unrecorded(a) BY <1>1 DEF Unrecorded
<1>4. Reconstructed(a)' = Reconstructed(a) BY DEF Reconstructed
<1> QED BY <1>2, <1>3, <1>4

\* The document a commit adds, and the sum of a function of documents with it.
LEMMA CommitDocument ==
    ASSUME TypeInv, LinkInv, NEW r \in Requests, TxCommit(r)
    PROVE  LET doc == TransactionDoc(r, input[r], snapshot[r])
               i == input[r]
           IN  /\ doc \notin transactions
               /\ transactions' = transactions \cup {doc}
               /\ doc.id = r
               /\ doc.type = "WITHDRAW" <=> i.purpose = "withdrawal"
               /\ doc.sender = i.sender
               /\ doc.amount = IF i.purpose = "withdrawal" THEN FromCents(i.amount) ELSE i.amount
               /\ input' = input
<1> DEFINE doc == TransactionDoc(r, input[r], snapshot[r])
<1>1. input[r] \in Inputs BY CommitEffect
<1>2. input[r].purpose \in {"deposit", "transfer", "withdrawal"}
  BY <1>1, InputType DEF Purposes
<1>3. /\ doc.id = r
      /\ doc.type = "WITHDRAW" <=> input[r].purpose = "withdrawal"
      /\ doc.sender = input[r].sender
      /\ doc.amount = IF input[r].purpose = "withdrawal" THEN FromCents(input[r].amount)
                      ELSE input[r].amount
      /\ doc.idempotencyKey = input[r].key
  BY <1>2 DEF TransactionDoc
<1>4. transactions' = transactions \cup {doc} /\ input' = input BY DEF TxCommit
<1> HIDE DEF doc
<1>5. doc \notin transactions BY <1>3 DEF TxCommit, Duplicate
<1> QED BY <1>3, <1>4, <1>5 DEF doc

\* A commit adds its movement to the total of every account.
LEMMA CommitAddsMovement ==
    ASSUME TypeInv, LinkInv, IsFiniteSet(transactions), NEW r \in Requests, TxCommit(r),
           NEW a \in Accounts
    PROVE  MovementTotal(a)' = MovementTotal(a) + Delta(input[r], a)
<1>1. PICK doc : /\ doc \notin transactions
                 /\ transactions' = transactions \cup {doc}
                 /\ doc.id = r /\ input' = input
  BY CommitDocument
<1>2. Delta(input[r], a) \in Int BY CommitEffect, DeltaType
<1> DEFINE f == Movements(a)
           g == [t \in transactions' |-> Delta(input'[t.id], a)]
<1>3. \A x \in transactions : f[x] \in Int /\ g[x] = f[x]
  BY <1>1, SummandTypes DEF Movements
<1>4. DOMAIN f = transactions /\ DOMAIN g = transactions \cup {doc} BY <1>1 DEF Movements
<1>5. g[doc] = Delta(input[r], a) BY <1>1
<1>6. MovementTotal(a)' = SumFunction(g) BY DEF MovementTotal, Delta
<1> HIDE DEF f, g
<1>7. SumFunction(g) = SumFunction(f) + g[doc] BY <1>1, <1>2, <1>3, <1>4, <1>5, SumFunctionGrows
<1> QED BY <1>5, <1>6, <1>7, Totals DEF f

\* What a commit leaves out of its ledger entry: only a withdrawal's cents.
Omitted(i, a) ==
    IF i.purpose = "withdrawal" /\ i.sender = a THEN i.amount - FromCents(i.amount) ELSE 0

LEMMA CommitAddsLeftover ==
    ASSUME TypeInv, LinkInv, IsFiniteSet(transactions), NEW r \in Requests, TxCommit(r),
           NEW a \in Accounts
    PROVE  Unrecorded(a)' = Unrecorded(a) + Omitted(input[r], a)
<1>1. PICK doc : /\ doc \notin transactions
                 /\ transactions' = transactions \cup {doc}
                 /\ doc.id = r /\ input' = input
                 /\ doc.type = "WITHDRAW" <=> input[r].purpose = "withdrawal"
                 /\ doc.sender = input[r].sender
                 /\ input[r].purpose = "withdrawal" => doc.amount = FromCents(input[r].amount)
  BY CommitDocument
<1>2. Omitted(input[r], a) \in Int
  <2>1. input[r].amount \in Int BY CommitEffect, InputType
  <2> QED BY <2>1, FromCentsType DEF Omitted
<1> DEFINE f == Leftovers(a)
           g == [t \in transactions' |->
                    IF t.type = "WITHDRAW" /\ t.sender = a THEN input'[t.id].amount - t.amount
                    ELSE 0]
<1>3. \A x \in transactions : f[x] \in Int /\ g[x] = f[x]
  BY <1>1, SummandTypes DEF Leftovers
<1>4. DOMAIN f = transactions /\ DOMAIN g = transactions \cup {doc} BY <1>1 DEF Leftovers
<1>5. g[doc] = Omitted(input[r], a) BY <1>1 DEF Omitted
<1>6. Unrecorded(a)' = SumFunction(g) BY DEF Unrecorded
<1> HIDE DEF f, g
<1>7. SumFunction(g) = SumFunction(f) + g[doc] BY <1>1, <1>2, <1>3, <1>4, <1>5, SumFunctionGrows
<1> QED BY <1>5, <1>6, <1>7, Totals DEF f

\* The entry of a commit is the movement without what it leaves out.
LEMMA CommitAddsEntry ==
    ASSUME TypeInv, LinkInv, NEW r \in Requests, TxCommit(r), NEW a \in Accounts
    PROVE  Reconstructed(a)' = Reconstructed(a) + Delta(input[r], a) + Omitted(input[r], a)
<1> DEFINE i == input[r]
           e == Entry(r, i, a, snapshot[r][a])
           worth == IF e.type = "CREDIT" THEN e.amount ELSE -e.amount
<1>1. /\ i \in Inputs /\ Valid(i) /\ i.amount \in Int /\ i.sender # i.receiver
      /\ i.purpose = "withdrawal" => i.receiver = None
      /\ FromCents(i.amount) \in Int
  BY CommitEffect, InputType, ValidInput, FromCentsType
<1>2. ledger[a] \in Seq(LedgerDocs) BY DEF TypeInv, TypeOK
<1>3. ledger'[a] = IF a \in Touched(i) THEN Append(ledger[a], e) ELSE ledger[a]
  BY DEF TxCommit
<1>4. Reconstructed(a) \in Int
  <2>1. DOMAIN ledger[a] = 1..Len(ledger[a]) /\ Len(ledger[a]) \in Nat BY <1>2
  <2>2. IsFiniteSet(DOMAIN Entries(a)) BY <2>1, FS_Interval DEF Entries
  <2>3. \A n \in DOMAIN Entries(a) : Entries(a)[n] \in Int BY SummandTypes DEF Entries
  <2> QED BY <2>2, <2>3, Totals, SumFunctionInt
<1>5. CASE a \notin Touched(i)
  <2>1. a # i.sender /\ a # i.receiver BY <1>5, NoneAssumption DEF Touched
  <2>2. Delta(i, a) = 0 /\ Omitted(i, a) = 0 BY <1>1, <2>1 DEF Delta, Omitted
  <2>3. Reconstructed(a)' = Reconstructed(a) BY <1>3, <1>5 DEF Reconstructed
  <2> HIDE DEF i
  <2> QED BY <1>4, <2>2, <2>3 DEF i
<1>6. CASE a \in Touched(i)
  <2>1. a = i.sender \/ a = i.receiver BY <1>6 DEF Touched
  <2>2. worth = Delta(i, a) + Omitted(i, a) /\ worth \in Int
    <3>1. /\ e.type = IF a = i.receiver THEN "CREDIT" ELSE "DEBIT"
          /\ e.amount = IF i.purpose = "withdrawal" THEN FromCents(i.amount) ELSE i.amount
      BY DEF Entry
    <3>2. a # None BY NoneAssumption
    <3> HIDE DEF i, e
    <3> QED BY <1>1, <2>1, <3>1, <3>2 DEF Delta, Omitted
  <2> DEFINE f == Entries(a)
             m == Len(ledger[a]) + 1
             g == [n \in DOMAIN ledger'[a] |->
                      IF ledger'[a][n].type = "CREDIT" THEN ledger'[a][n].amount
                      ELSE -ledger'[a][n].amount]
  <2>3. /\ DOMAIN ledger[a] = 1..Len(ledger[a]) /\ Len(ledger[a]) \in Nat
        /\ DOMAIN ledger'[a] = 1..m
        /\ ledger'[a][m] = e
        /\ \A n \in 1..Len(ledger[a]) : ledger'[a][n] = ledger[a][n]
    <3> HIDE DEF e, i
    <3> QED BY <1>2, <1>3, <1>6
  <2>4. IsFiniteSet(DOMAIN f) /\ DOMAIN f = DOMAIN ledger[a] BY <2>3, FS_Interval DEF Entries
  <2>5. m \notin DOMAIN f /\ DOMAIN g = DOMAIN f \cup {m} BY <2>3, <2>4
  <2>6. g[m] = worth
    <3> HIDE DEF e
    <3> QED BY <2>3, <2>5
  <2>7. \A n \in DOMAIN f : f[n] \in Int /\ g[n] = f[n]
    <3> HIDE DEF i, e, worth
    <3>1. SUFFICES ASSUME NEW n \in DOMAIN ledger[a] PROVE f[n] \in Int /\ g[n] = f[n]
      BY <2>4
    <3>2. f[n] \in Int BY SummandTypes
    <3>3. n \in DOMAIN ledger'[a] /\ ledger'[a][n] = ledger[a][n] BY <2>3
    <3>4. f[n] = IF ledger[a][n].type = "CREDIT" THEN ledger[a][n].amount
                 ELSE -ledger[a][n].amount
      BY DEF Entries
    <3> HIDE DEF f
    <3> QED BY <3>2, <3>3, <3>4
  <2>8. Reconstructed(a)' = SumFunction(g) BY DEF Reconstructed
  <2> HIDE DEF f, g, m, worth, i
  <2>9. SumFunction(g) = SumFunction(f) + g[m]
    BY <2>2, <2>4, <2>5, <2>6, <2>7, SumFunctionGrows
  <2>10. SumFunction(f) = Reconstructed(a) BY Totals DEF f
  <2>11. Delta(i, a) \in Int /\ Omitted(i, a) \in Int
    BY <1>1, DeltaType DEF Omitted
  <2> QED BY <1>4, <2>2, <2>6, <2>8, <2>9, <2>10, <2>11 DEF i
<1> QED BY <1>5, <1>6

\* Every step adds to the totals what it adds to the balance, and to the ledger
\* the same less what it leaves out.
LEMMA TotalsStep ==
    ASSUME TypeInv, LinkInv, IsFiniteSet(transactions), [Next]_vars, NEW a \in Accounts
    PROVE  /\ IsFiniteSet(transactions')
           /\ account[a].balance \in Int
           /\ \E moved, omitted \in Int :
                 /\ account'[a].balance = account[a].balance + moved
                 /\ MovementTotal(a)' = MovementTotal(a) + moved
                 /\ Unrecorded(a)' = Unrecorded(a) + omitted
                 /\ Reconstructed(a)' = Reconstructed(a) + moved + omitted
<1>1. account[a].balance \in Int BY DEF TypeInv, TypeOK, AccountDocs
<1>2. CASE UNCHANGED <<account, ledger, transactions>>
  <2>1. IsFiniteSet(transactions') /\ account'[a].balance = account[a].balance BY <1>2
  <2>2. /\ MovementTotal(a)' = MovementTotal(a)
        /\ Unrecorded(a)' = Unrecorded(a)
        /\ Reconstructed(a)' = Reconstructed(a)
    BY <1>2, TotalsStand
  <2>3. MovementTotal(a) \in Int /\ Unrecorded(a) \in Int /\ Reconstructed(a) \in Int
    BY TotalTypes
  <2>4. 0 \in Int /\ \A n \in Int : n = n + 0 /\ n = n + 0 + 0 OBVIOUS
  <2> QED BY <1>1, <2>1, <2>2, <2>3, <2>4
<1>3. ASSUME NEW r \in Requests, TxCommit(r)
      PROVE  /\ IsFiniteSet(transactions')
             /\ account[a].balance \in Int
             /\ \E moved, omitted \in Int :
                   /\ account'[a].balance = account[a].balance + moved
                   /\ MovementTotal(a)' = MovementTotal(a) + moved
                   /\ Unrecorded(a)' = Unrecorded(a) + omitted
                   /\ Reconstructed(a)' = Reconstructed(a) + moved + omitted
  <2>1. IsFiniteSet(transactions') BY <1>3, CommitDocument, FS_AddElement
  <2>2. account'[a].balance = account[a].balance + Delta(input[r], a) BY <1>3, CommitEffect
  <2>3. Delta(input[r], a) \in Int /\ Omitted(input[r], a) \in Int
    <3>1. input[r] \in Inputs /\ input[r].amount \in Int BY <1>3, CommitEffect, InputType
    <3> QED BY <3>1, DeltaType, FromCentsType DEF Omitted
  <2> QED BY <1>1, <1>3, <2>1, <2>2, <2>3, CommitAddsMovement, CommitAddsLeftover, CommitAddsEntry
<1> QED BY <1>2, <1>3, OnlyCommitMoves

LEMMA TotalsInit ==
    ASSUME Init, NEW a \in Accounts
    PROVE  /\ IsFiniteSet(transactions)
           /\ MovementTotal(a) = 0 /\ Unrecorded(a) = 0
           /\ Reconstructed(a) = OpeningBalance[a]
           /\ account[a].balance = OpeningBalance[a] /\ OpeningBalance[a] \in Nat
<1>1. transactions = {} /\ IsFiniteSet(transactions) BY FS_EmptySet DEF Init
<1>2. MovementTotal(a) = 0 /\ Unrecorded(a) = 0
  BY <1>1, SumFunctionEmpty DEF MovementTotal, Unrecorded
<1>3. account[a].balance = OpeningBalance[a] /\ OpeningBalance[a] \in Nat
  BY BalanceAssumption DEF Init
<1>4. ledger[a] = OpeningLedger(a) BY DEF Init
<1>5. Reconstructed(a) = OpeningBalance[a]
  <2>1. CASE OpeningBalance[a] = 0
    <3>1. ledger[a] = << >> BY <1>4, <2>1 DEF OpeningLedger
    <3>2. DOMAIN Entries(a) = {} BY <3>1 DEF Entries
    <3> QED BY <2>1, <3>2, SumFunctionEmpty, Totals
  <2>2. CASE OpeningBalance[a] # 0
    <3> DEFINE f == Entries(a)
               none == [x \in {} |-> 0]
    <3>1. /\ DOMAIN ledger[a] = {1}
          /\ ledger[a][1].type = "CREDIT" /\ ledger[a][1].amount = OpeningBalance[a]
      BY <1>4, <2>2 DEF OpeningLedger
    <3>2. DOMAIN f = {1} /\ f[1] = OpeningBalance[a] BY <3>1 DEF Entries
    <3>3. DOMAIN none = {} /\ IsFiniteSet({}) BY FS_EmptySet
    <3> HIDE DEF f, none
    <3>4. SumFunction(none) = 0 BY <3>3, SumFunctionEmpty
    <3>5. SumFunction(f) = SumFunction(none) + f[1] BY <1>3, <3>2, <3>3, SumFunctionGrows
    <3> QED BY <1>3, <3>2, <3>4, <3>5, Totals DEF f
  <2> QED BY <2>1, <2>2
<1> QED BY <1>1, <1>2, <1>3, <1>5

\* What makes the sums inductive: there are finitely many documents, and the
\* committed requests are the ones the documents name.
BalanceInv == IsFiniteSet(transactions) /\ BalancesExplained /\ DiscrepancyExplained

LEMMA BalanceInit == Init => BalanceInv
<1> SUFFICES ASSUME Init PROVE BalanceInv OBVIOUS
<1>1. IsFiniteSet(transactions) BY FS_EmptySet DEF Init
<1> QED BY <1>1, TotalsInit DEF BalanceInv, BalancesExplained, DiscrepancyExplained

LEMMA BalanceNext ==
    ASSUME TypeInv, LinkInv, BalanceInv, [Next]_vars PROVE BalanceInv'
<1>1. IsFiniteSet(transactions')
  <2>1. IsFiniteSet(transactions) BY DEF BalanceInv
  <2>2. transactions' = transactions \/ \E doc : transactions' = transactions \cup {doc}
    BY OnlyCommitMoves, CommitDocument
  <2> QED BY <2>1, <2>2, FS_AddElement
<1>2. ASSUME NEW a \in Accounts
      PROVE  /\ account'[a].balance = OpeningBalance[a] + MovementTotal(a)'
             /\ Reconstructed(a)' = account'[a].balance + Unrecorded(a)'
  <2>1. /\ account[a].balance = OpeningBalance[a] + MovementTotal(a)
        /\ Reconstructed(a) = account[a].balance + Unrecorded(a)
    BY DEF BalanceInv, BalancesExplained, DiscrepancyExplained
  <2>2. MovementTotal(a) \in Int /\ Unrecorded(a) \in Int /\ OpeningBalance[a] \in Int
    BY TotalTypes, BalanceAssumption DEF BalanceInv
  <2>3. PICK moved, omitted \in Int :
           /\ account'[a].balance = account[a].balance + moved
           /\ MovementTotal(a)' = MovementTotal(a) + moved
           /\ Unrecorded(a)' = Unrecorded(a) + omitted
           /\ Reconstructed(a)' = Reconstructed(a) + moved + omitted
    BY TotalsStep DEF BalanceInv
  <2> QED BY <2>1, <2>2, <2>3
<1> QED BY <1>1, <1>2 DEF BalanceInv, BalancesExplained, DiscrepancyExplained

\* Every balance is the opening balance plus what the committed requests asked
\* for, however the handlers interleave: no update is lost, doubled or half done.
THEOREM BalancesAreExplained == Spec => []BalancesExplained
<1>1. BalanceInv => BalancesExplained BY DEF BalanceInv
<1> QED
  BY <1>1, TypeInit, TypeNext, LinkInit, LinkNext, BalanceInit, BalanceNext, PTL DEF Spec

\* verifyBalance is off by the cents that the entries of withdrawals leave out,
\* and by nothing else.
THEOREM DiscrepanciesAreExplained == Spec => []DiscrepancyExplained
<1>1. BalanceInv => DiscrepancyExplained BY DEF BalanceInv
<1> QED
  BY <1>1, TypeInit, TypeNext, LinkInit, LinkNext, BalanceInit, BalanceNext, PTL DEF Spec

\* A withdrawal's document is in units and its request in cents.
WithdrawalsInUnits ==
    \A t \in transactions :
        t.type = "WITHDRAW" =>
            input[t.id].amount > 0 /\ t.amount = FromCents(input[t.id].amount)

LEMMA UnitsInit == Init => WithdrawalsInUnits
BY DEF Init, WithdrawalsInUnits

LEMMA UnitsNext == TypeInv /\ LinkInv /\ WithdrawalsInUnits /\ [Next]_vars => WithdrawalsInUnits'
<1> SUFFICES ASSUME TypeInv, LinkInv, WithdrawalsInUnits, [Next]_vars
             PROVE  WithdrawalsInUnits'
  OBVIOUS
<1>1. \A t \in transactions : input'[t.id] = input[t.id] BY NamedRequests, InputsKept
<1>2. CASE transactions' = transactions
  BY <1>1, <1>2 DEF WithdrawalsInUnits, FromCents
<1>3. ASSUME NEW r \in Requests, TxCommit(r) PROVE WithdrawalsInUnits'
  <2>1. PICK doc : /\ transactions' = transactions \cup {doc}
                   /\ doc.id = r /\ input' = input
                   /\ doc.type = "WITHDRAW" <=> input[r].purpose = "withdrawal"
                   /\ input[r].purpose = "withdrawal" => doc.amount = FromCents(input[r].amount)
    BY <1>3, CommitDocument
  <2>2. input[r].amount > 0 BY <1>3, CommitEffect, ValidInput
  <2> QED BY <2>1, <2>2 DEF WithdrawalsInUnits, FromCents
<1> QED BY <1>2, <1>3, OnlyCommitMoves

\* In units there is less of it.
LEMMA FewerUnits ==
    ASSUME CentsPerUnit > 1, NEW n \in Int, n > 0 PROVE FromCents(n) < n
<1>1. PICK d, c : d = FromCents(n) /\ c = CentsPerUnit OBVIOUS
<1>2. c \in Int /\ c > 1 BY <1>1, CentsAssumption
<1>3. d \in Int /\ c * d =< n BY <1>1, CentsAssumption DEF FromCents
<1>4. CASE d =< 0
  <2>1. d \in Int BY <1>3
  <2> QED BY <1>1, <1>4, <2>1
<1>5. CASE d > 0
  <2>1. c * d >= 2 * d
    <3>1. d \in Int BY <1>3
    <3>2. c * d = (c - 2) * d + 2 * d BY <1>2, <3>1
    <3>3. (c - 2) * d >= 0 BY <1>2, <1>5, <3>1
    <3> QED BY <1>2, <3>1, <3>2, <3>3
  <2>2. d < c * d BY <1>2, <1>3, <1>5, <2>1
  <2> QED BY <1>1, <1>2, <1>3, <2>2
<1>6. d =< 0 \/ d > 0 BY <1>3
<1> QED BY <1>4, <1>5, <1>6

LEMMA ReconciledBecause ==
    ASSUME TypeInv, LinkInv, BalanceInv, WithdrawalsInUnits
    PROVE  ReconciledUntilWithdrawal
<1> SUFFICES ASSUME CentsPerUnit > 1, NEW a \in Accounts
             PROVE  Reconstructed(a) = account[a].balance
                       <=> \A t \in transactions : ~(t.type = "WITHDRAW" /\ t.sender = a)
  BY DEF ReconciledUntilWithdrawal
<1>1. Reconstructed(a) = account[a].balance + Unrecorded(a)
  BY DEF BalanceInv, DiscrepancyExplained
<1>2. account[a].balance \in Int /\ Unrecorded(a) \in Int
  BY TotalTypes DEF BalanceInv, TypeInv, TypeOK, AccountDocs
<1>3. IsFiniteSet(DOMAIN Leftovers(a)) /\ DOMAIN Leftovers(a) = transactions
  BY DEF BalanceInv, Leftovers
<1>4. ASSUME \A t \in transactions : ~(t.type = "WITHDRAW" /\ t.sender = a)
      PROVE  Unrecorded(a) = 0
  <2>1. \A t \in DOMAIN Leftovers(a) : Leftovers(a)[t] = 0 BY <1>3, <1>4 DEF Leftovers
  <2> QED BY <1>3, <2>1, SumFunctionZero, Totals
<1>5. ASSUME NEW w \in transactions, w.type = "WITHDRAW", w.sender = a
      PROVE  Unrecorded(a) > 0
  <2>1. ASSUME NEW t \in transactions
        PROVE  /\ Leftovers(a)[t] \in Int /\ Leftovers(a)[t] >= 0
               /\ t.type = "WITHDRAW" /\ t.sender = a => Leftovers(a)[t] > 0
    <3>1. input[t.id].amount \in Int /\ t.amount \in Int BY DocumentInputs, InputType
    <3>2. t.type = "WITHDRAW" => t.amount < input[t.id].amount
      BY <3>1, FewerUnits DEF WithdrawalsInUnits
    <3> QED BY <3>1, <3>2 DEF Leftovers
  <2>2. Leftovers(a)[w] > 0 BY <1>5, <2>1
  <2> QED BY <1>3, <2>1, <2>2, SumFunctionPositive, Totals
<1> QED BY <1>1, <1>2, <1>4, <1>5

\* verifyBalance agrees with an account's ledger exactly until money is withdrawn
\* from it, whatever the amounts and whatever comes after.
THEOREM ReconcilesUntilWithdrawal == Spec => []ReconciledUntilWithdrawal
BY TypeInit, TypeNext, LinkInit, LinkNext, BalanceInit, BalanceNext, UnitsInit, UnitsNext,
   ReconciledBecause, PTL
DEF Spec
=============================================================================
