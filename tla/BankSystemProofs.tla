-------------------------- MODULE BankSystemProofs --------------------------
(* Theorems about BankSystem: the engine beside the freeze and unfreeze     *)
(* handlers and the payments, for all values of the constants.              *)
EXTENDS BankSystem, BalanceProofs

\* A handler between its findOne and its save holds a document that was
\* current when read; its status is still current if the version is.  This is
\* what the version filter of the save relies on: every writer of the status
\* bumps v.  A payment does not, and changes balances only.
VersionInv ==
    \A q \in StatusRequests :
        statusPc[q] = "save" =>
            LET i == statusInput[q]
            IN  /\ i \in Status!StatusInputs
                /\ fetched[q] \in AccountDocs
                /\ fetched[q].isActive = Status!Before(i.op)
                /\ fetched[q].v =< account[i.account].v
                /\ fetched[q].v = account[i.account].v =>
                       fetched[q].isActive = account[i.account].isActive

SystemInv == SystemTypeOK /\ CommitReady /\ VersionInv

LEMMA EngineTyped == ASSUME SystemInv PROVE TypeInv
BY DEF SystemInv, SystemTypeOK, TypeInv

LEMMA SystemInvInit == SystemInit => SystemInv
<1> SUFFICES ASSUME SystemInit PROVE SystemInv OBVIOUS
<1>1. TypeOK /\ CommitReady BY TypeInit DEF SystemInit, TypeInv
<1> QED BY <1>1 DEF SystemInit, SystemInv, SystemTypeOK, VersionInv, Status!StatusInit, Pay!PayInit

\* A document that has neither changed its status nor lost its version, or one
\* with a new version.
Versioned(a) ==
    \/ account'[a].v = account[a].v /\ account'[a].isActive = account[a].isActive
    \/ account'[a].v = account[a].v + 1

\* A commit gives every document it writes a new version and leaves the rest.
LEMMA CommitVersions ==
    ASSUME TypeInv, NEW r \in Requests, TxCommit(r), NEW a \in Accounts
    PROVE  Versioned(a)
<1>1. \A x \in Touched(input[r]) : snapshot[r][x] = account[x] BY CommitEffect
<1> QED BY <1>1 DEF TxCommit, Moved, Versioned

LEMMA VersionKept ==
    ASSUME SystemInv, UNCHANGED statusVars,
           \A a \in Accounts : Versioned(a)
    PROVE  VersionInv'
<1> SUFFICES ASSUME NEW q \in StatusRequests, statusPc[q] = "save"
             PROVE  LET i == statusInput[q]
                    IN  /\ i \in Status!StatusInputs
                        /\ fetched[q] \in AccountDocs
                        /\ fetched[q].isActive = Status!Before(i.op)
                        /\ fetched[q].v =< account'[i.account].v
                        /\ fetched[q].v = account'[i.account].v =>
                               fetched[q].isActive = account'[i.account].isActive
  BY DEF VersionInv, statusVars
<1> DEFINE i == statusInput[q]
<1>1. /\ i \in Status!StatusInputs /\ fetched[q] \in AccountDocs
      /\ fetched[q].isActive = Status!Before(i.op)
      /\ fetched[q].v =< account[i.account].v
      /\ fetched[q].v = account[i.account].v =>
                       fetched[q].isActive = account[i.account].isActive
  BY DEF SystemInv, VersionInv
<1>2. i.account \in Accounts BY <1>1 DEF Status!StatusInputs
<1>3. fetched[q].v \in Nat /\ account[i.account].v \in Nat
  BY <1>1, <1>2 DEF SystemInv, SystemTypeOK, TypeOK, AccountDocs
<1> HIDE DEF i
<1>4. CASE /\ account'[i.account].v = account[i.account].v
           /\ account'[i.account].isActive = account[i.account].isActive
  BY <1>1, <1>4 DEF i
<1>5. CASE account'[i.account].v = account[i.account].v + 1 BY <1>1, <1>3, <1>5 DEF i
<1> QED BY <1>2, <1>4, <1>5 DEF Versioned

LEMMA EngineStepKeeps ==
    ASSUME SystemInv, EngineStep PROVE SystemInv'
<1>1. TypeInv /\ [Next]_vars BY EngineTyped DEF EngineStep
<1>2. TypeInv' BY <1>1, TypeNext
<1>3. \A a \in Accounts : Versioned(a)
  BY <1>1, OnlyCommitMoves, CommitVersions DEF Versioned
<1>4. UNCHANGED <<statusVars, payVars>> BY DEF EngineStep
<1>5. VersionInv' BY <1>3, <1>4, VersionKept
<1>6. SystemTypeOK'
  BY <1>2, <1>4 DEF SystemInv, SystemTypeOK, TypeInv, statusVars, payVars
<1> QED BY <1>2, <1>5, <1>6 DEF SystemInv, TypeInv

\* The engine's variables other than the accounts, in a step of the others.
LEMMA EngineStands ==
    ASSUME SystemInv, account' \in [Accounts -> AccountDocs],
           UNCHANGED <<engineVars, transactions>>
    PROVE  TypeOK' /\ CommitReady'
BY DEF SystemInv, SystemTypeOK, TypeOK, CommitReady, engineVars

\* The variables of the payments, in a step of the status handlers.
PayTyped ==
    /\ payments \subseteq Pay!PaymentDocs
    /\ payPc \in [Payments -> {"idle", "payee", "pay", "done"}]
    /\ payInput \in [Payments -> PaymentInputs \cup {None}]
    /\ \A p \in Payments : payPc[p] \in {"payee", "pay"} => payInput[p] # None
    /\ payReply \in [Payments -> {"none", "ok", "failed"}]

LEMMA PayStands == ASSUME SystemInv, UNCHANGED payVars PROVE PayTyped'
BY DEF SystemInv, SystemTypeOK, PayTyped, payVars, Pay!PaymentDocs

LEMMA FetchKeeps ==
    ASSUME SystemInv, StatusStep, NEW q \in StatusRequests, NEW i \in Status!StatusInputs,
           Status!Fetch(q, i)
    PROVE  SystemInv'
<1>1. account' = account /\ account \in [Accounts -> AccountDocs]
  BY DEF Status!Fetch, SystemInv, SystemTypeOK, TypeOK
<1>2. TypeOK' /\ CommitReady' BY <1>1, EngineStands DEF StatusStep
<1>3. i.account \in Accounts BY DEF Status!StatusInputs
<1>4. account[i.account] \in AccountDocs /\ account[i.account].v \in Nat
  BY <1>1, <1>3 DEF AccountDocs
<1>5. /\ statusPc \in [StatusRequests -> {"idle", "save", "done"}]
      /\ statusInput \in [StatusRequests -> Status!StatusInputs \cup {None}]
      /\ fetched \in [StatusRequests -> AccountDocs \cup {None}]
      /\ statusReply \in [StatusRequests -> {"none", "ok", "failed"}]
  BY DEF SystemInv, SystemTypeOK
<1>6. statusInput' = [statusInput EXCEPT ![q] = i] BY DEF Status!Fetch
<1>7. \/ /\ account[i.account].isActive = Status!Before(i.op)
         /\ fetched' = [fetched EXCEPT ![q] = account[i.account]]
         /\ statusPc' = [statusPc EXCEPT ![q] = "save"]
         /\ statusReply' = statusReply
      \/ /\ statusReply' = [statusReply EXCEPT ![q] = "failed"]
         /\ statusPc' = [statusPc EXCEPT ![q] = "done"]
         /\ fetched' = fetched
  BY DEF Status!Fetch
<1>8. SystemTypeOK'
  <2>1. PayTyped' BY PayStands DEF StatusStep
  <2> QED BY <1>2, <1>4, <1>5, <1>6, <1>7, <2>1 DEF SystemTypeOK, PayTyped
<1>9. VersionInv'
  <2> SUFFICES ASSUME NEW p \in StatusRequests, statusPc'[p] = "save"
               PROVE  LET j == statusInput'[p]
                      IN  /\ j \in Status!StatusInputs
                          /\ fetched'[p] \in AccountDocs
                          /\ fetched'[p].isActive = Status!Before(j.op)
                          /\ fetched'[p].v =< account[j.account].v
                          /\ fetched'[p].v = account[j.account].v =>
                                 fetched'[p].isActive = account[j.account].isActive
    BY <1>1 DEF VersionInv, Status!Before, Status!StatusInputs
  <2>1. CASE p = q
    <3>1. statusInput'[p] = i BY <1>5, <1>6, <2>1
    <3>2. fetched'[p] = account[i.account] /\ account[i.account].isActive = Status!Before(i.op)
      BY <1>5, <1>7, <2>1
    <3> QED BY <1>4, <3>1, <3>2
  <2>2. CASE p # q
    <3>1. statusInput'[p] = statusInput[p] /\ fetched'[p] = fetched[p] /\ statusPc[p] = "save"
      BY <1>5, <1>6, <1>7, <2>2
    <3> QED BY <3>1 DEF SystemInv, VersionInv
  <2> QED BY <2>1, <2>2
<1> QED BY <1>2, <1>8, <1>9 DEF SystemInv

\* A save that goes through writes the document its handler had read.
LEMMA SaveCurrent ==
    ASSUME SystemInv, NEW q \in StatusRequests, Status!Save(q)
    PROVE  LET i == statusInput[q]
           IN  /\ i \in Status!StatusInputs /\ i.account \in Accounts
               /\ account[i.account].isActive = Status!Before(i.op)
               /\ account'[i.account] =
                     [balance |-> account[i.account].balance,
                      isActive |-> Status!After(i.op), v |-> account[i.account].v + 1]
               /\ \A a \in Accounts : a # i.account => account'[a] = account[a]
               /\ DOMAIN account' = Accounts
<1> DEFINE i == statusInput[q]
<1>1. statusPc[q] = "save" /\ account[i.account].v = fetched[q].v BY DEF Status!Save
<1>2. /\ i \in Status!StatusInputs
      /\ account[i.account].isActive = Status!Before(i.op)
  BY <1>1 DEF SystemInv, VersionInv
<1>3. i.account \in Accounts BY <1>2 DEF Status!StatusInputs
<1>4. account \in [Accounts -> AccountDocs] BY DEF SystemInv, SystemTypeOK, TypeOK
<1> HIDE DEF i
<1>5. account' = [account EXCEPT ![i.account] =
                     [balance |-> account[i.account].balance,
                      isActive |-> Status!After(i.op), v |-> account[i.account].v + 1]]
  <2>1. account[i.account] \in AccountDocs BY <1>3, <1>4
  <2>2. account' = [account EXCEPT ![i.account].isActive = Status!After(i.op),
                                   ![i.account].v = @ + 1]
    BY DEF Status!Save, i
  <2> QED BY <1>3, <1>4, <2>1, <2>2 DEF AccountDocs
<1> QED BY <1>2, <1>3, <1>4, <1>5 DEF i

\* A save of the status handlers writes the balance it had read.
LEMMA StatusLeavesBalances ==
    ASSUME SystemInv, StatusStep, NEW a \in Accounts
    PROVE  account'[a].balance = account[a].balance
<1>1. ASSUME NEW q \in StatusRequests, Status!Save(q)
      PROVE  account'[a].balance = account[a].balance
  <2> DEFINE i == statusInput[q]
  <2>1. /\ account'[i.account] =
              [balance |-> account[i.account].balance,
               isActive |-> Status!After(i.op), v |-> account[i.account].v + 1]
        /\ \A x \in Accounts : x # i.account => account'[x] = account[x]
    BY <1>1, SaveCurrent
  <2> HIDE DEF i
  <2>2. CASE a = i.account BY <2>1, <2>2
  <2>3. CASE a # i.account BY <2>1, <2>3
  <2> QED BY <2>2, <2>3
<1>2. account' = account \/ \E q \in StatusRequests : Status!Save(q)
  BY DEF StatusStep, Status!StatusNext, Status!Fetch, Status!SaveFails
<1> QED BY <1>1, <1>2

LEMMA SaveKeeps ==
    ASSUME SystemInv, StatusStep, NEW q \in StatusRequests, Status!Save(q)
    PROVE  SystemInv'
<1> DEFINE i == statusInput[q]
<1>1. /\ i \in Status!StatusInputs /\ i.account \in Accounts
      /\ account'[i.account] =
            [balance |-> account[i.account].balance,
             isActive |-> Status!After(i.op), v |-> account[i.account].v + 1]
      /\ \A a \in Accounts : a # i.account => account'[a] = account[a]
      /\ DOMAIN account' = Accounts
  BY SaveCurrent
<1>2. account \in [Accounts -> AccountDocs] BY DEF SystemInv, SystemTypeOK, TypeOK
<1>3. account' \in [Accounts -> AccountDocs]
  <2>1. account'[i.account] \in AccountDocs
    <3>1. account[i.account] \in AccountDocs BY <1>1, <1>2
    <3>2. Status!After(i.op) \in {"active", "suspended"} BY DEF Status!After
    <3> HIDE DEF i
    <3> QED BY <1>1, <3>1, <3>2 DEF AccountDocs
  <2>2. \A a \in Accounts : account'[a] \in AccountDocs BY <1>1, <1>2, <2>1
  <2>3. account' = [a \in Accounts |-> account'[a]]
    BY <1>1, <1>2 DEF Status!Save
  <2> QED BY <2>2, <2>3
<1>4. TypeOK' /\ CommitReady' BY <1>3, EngineStands DEF StatusStep
<1>5. /\ statusPc \in [StatusRequests -> {"idle", "save", "done"}]
      /\ statusInput \in [StatusRequests -> Status!StatusInputs \cup {None}]
      /\ fetched \in [StatusRequests -> AccountDocs \cup {None}]
      /\ statusReply \in [StatusRequests -> {"none", "ok", "failed"}]
  BY DEF SystemInv, SystemTypeOK
<1>6. /\ statusPc' = [statusPc EXCEPT ![q] = "done"]
      /\ fetched' = [fetched EXCEPT ![q] = None]
      /\ statusInput' = statusInput
      /\ \E answer \in {"ok", "failed"} : statusReply' = [statusReply EXCEPT ![q] = answer]
  BY DEF Status!Save
<1>7. SystemTypeOK'
  <2>1. PayTyped' BY PayStands DEF StatusStep
  <2> QED BY <1>4, <1>5, <1>6, <2>1 DEF SystemTypeOK, PayTyped
<1>8. VersionInv'
  <2> SUFFICES ASSUME NEW p \in StatusRequests, statusPc'[p] = "save"
               PROVE  LET j == statusInput[p]
                      IN  /\ j \in Status!StatusInputs
                          /\ fetched'[p] \in AccountDocs
                          /\ fetched'[p].isActive = Status!Before(j.op)
                          /\ fetched'[p].v =< account'[j.account].v
                          /\ fetched'[p].v = account'[j.account].v =>
                                 fetched'[p].isActive = account'[j.account].isActive
    BY <1>6 DEF VersionInv, Status!Before, Status!StatusInputs
  <2>1. p # q BY <1>5, <1>6
  <2>2. fetched'[p] = fetched[p] /\ statusPc[p] = "save" BY <1>5, <1>6, <2>1
  <2> DEFINE j == statusInput[p]
  <2>3. /\ j \in Status!StatusInputs
        /\ fetched[p] \in AccountDocs
        /\ fetched[p].isActive = Status!Before(j.op)
        /\ fetched[p].v =< account[j.account].v
        /\ fetched[p].v = account[j.account].v =>
              fetched[p].isActive = account[j.account].isActive
    BY <2>2 DEF SystemInv, VersionInv
  <2>4. j.account \in Accounts BY <2>3 DEF Status!StatusInputs
  <2>5. fetched[p].v \in Nat /\ account[j.account].v \in Nat
    BY <1>2, <2>3, <2>4 DEF AccountDocs
  <2>6. account'[j.account] = account[j.account] \/ account'[j.account].v = account[j.account].v + 1
    BY <1>1, <2>4
  <2> HIDE DEF i, j
  <2>7. CASE account'[j.account] = account[j.account] BY <2>2, <2>3, <2>7 DEF j
  <2>8. CASE account'[j.account].v = account[j.account].v + 1
    BY <2>2, <2>3, <2>5, <2>8 DEF j
  <2> QED BY <2>6, <2>7, <2>8
<1> QED BY <1>4, <1>7, <1>8 DEF SystemInv

LEMMA SaveFailsKeeps ==
    ASSUME SystemInv, StatusStep, NEW q \in StatusRequests, Status!SaveFails(q)
    PROVE  SystemInv'
<1>1. account' = account /\ account \in [Accounts -> AccountDocs]
  BY DEF Status!SaveFails, SystemInv, SystemTypeOK, TypeOK
<1>2. TypeOK' /\ CommitReady' BY <1>1, EngineStands DEF StatusStep
<1>3. SystemTypeOK'
  <2>1. PayTyped' BY PayStands DEF StatusStep
  <2> QED BY <1>2, <2>1 DEF SystemTypeOK, SystemInv, Status!SaveFails, PayTyped
<1>4. VersionInv'
  BY <1>1 DEF SystemInv, SystemTypeOK, VersionInv, Status!SaveFails, Status!Before,
              Status!StatusInputs
<1> QED BY <1>2, <1>3, <1>4 DEF SystemInv

\* What a payment that commits does to the accounts.
LEMMA PaymentEffect ==
    ASSUME SystemInv, NEW p \in Payments, Pay!PayCommit(p)
    PROVE  LET i == payInput[p]
           IN  /\ i \in PaymentInputs
               /\ account[i.sender].isActive = "active"
               /\ account[i.receiver].isActive = "active"
               /\ account[i.sender].balance >= i.amount
               /\ account' \in [Accounts -> AccountDocs]
               /\ \A a \in Accounts :
                     /\ account'[a].v = account[a].v
                     /\ account'[a].isActive = account[a].isActive
                     /\ a # i.sender => account'[a].balance >= account[a].balance
                     /\ a = i.sender => account'[a].balance >= account[a].balance - i.amount
                     /\ a \notin {i.sender, i.receiver} => account'[a] = account[a]
<1> DEFINE i == payInput[p]
<1>1. i \in PaymentInputs /\ i.sender \in Accounts /\ i.receiver \in Accounts /\ i.amount \in Nat
  BY PaymentAssumption DEF SystemInv, SystemTypeOK, Pay!PayCommit
<1>2. account' = Pay!Paid(i) /\ Pay!Payable(i) BY DEF Pay!PayCommit
<1>3. account \in [Accounts -> AccountDocs] BY DEF SystemInv, SystemTypeOK, TypeOK
<1> HIDE DEF i
<1>4. \A a \in Accounts :
         /\ account[a] \in AccountDocs
         /\ account'[a] \in AccountDocs
         /\ account'[a].v = account[a].v
         /\ account'[a].isActive = account[a].isActive
         /\ a # i.sender => account'[a].balance >= account[a].balance
         /\ a = i.sender => account'[a].balance >= account[a].balance - i.amount
         /\ a \notin {i.sender, i.receiver} => account'[a] = account[a]
  <2> SUFFICES ASSUME NEW a \in Accounts
               PROVE  /\ account[a] \in AccountDocs
                      /\ account'[a] \in AccountDocs
                      /\ account'[a].v = account[a].v
                      /\ account'[a].isActive = account[a].isActive
                      /\ a # i.sender => account'[a].balance >= account[a].balance
                      /\ a = i.sender => account'[a].balance >= account[a].balance - i.amount
                      /\ a \notin {i.sender, i.receiver} => account'[a] = account[a]
    OBVIOUS
  <2> DEFINE less == IF a = i.sender THEN i.amount ELSE 0
             more == IF a = i.receiver THEN i.amount ELSE 0
  <2>1. account'[a] = [account[a] EXCEPT !.balance = account[a].balance - less + more]
    BY <1>2 DEF Pay!Paid
  <2>2. account[a] \in AccountDocs /\ account[a].balance \in Int BY <1>3 DEF AccountDocs
  <2>3. /\ less \in Int /\ more \in Int /\ more >= 0
        /\ a # i.sender => less = 0
        /\ a = i.sender => less = i.amount
        /\ a \notin {i.sender, i.receiver} => less = 0 /\ more = 0
    BY <1>1
  <2> HIDE DEF less, more
  <2>4. account[a].balance - less + more \in Int BY <2>2, <2>3
  <2>5. /\ account'[a] \in AccountDocs
        /\ account'[a].balance = account[a].balance - less + more
        /\ account'[a].v = account[a].v
        /\ account'[a].isActive = account[a].isActive
    BY <2>1, <2>2, <2>4 DEF AccountDocs
  <2>6. a \notin {i.sender, i.receiver} => account'[a] = account[a]
    <3> SUFFICES ASSUME a \notin {i.sender, i.receiver} PROVE account'[a] = account[a]
      OBVIOUS
    <3>1. account[a].balance - less + more = account[a].balance BY <2>2, <2>3
    <3> QED BY <2>1, <2>2, <3>1 DEF AccountDocs
  <2> QED BY <1>1, <2>2, <2>3, <2>5, <2>6
<1>5. account' \in [Accounts -> AccountDocs]
  <2>1. account' = [a \in Accounts |-> account'[a]] BY <1>2, <1>3 DEF Pay!Paid
  <2> QED BY <1>4, <2>1
<1> QED BY <1>1, <1>2, <1>4, <1>5 DEF Pay!Payable, i

\* A payment's step, whichever it is.
LEMMA PayStepTyped ==
    ASSUME SystemInv, PayStep PROVE PayTyped'
<1> USE DEF PayTyped, Pay!Reply, Pay!Goto, Pay!PaymentDocs, Pay!PaymentDoc
<1>1. PayTyped BY DEF SystemInv, SystemTypeOK
<1>2. ASSUME NEW p \in Payments, NEW i \in PaymentInputs, Pay!PayCheck(p, i) PROVE PayTyped'
  BY <1>1, <1>2, PaymentAssumption DEF Pay!PayCheck
<1>3. ASSUME NEW p \in Payments, Pay!PayPayee(p) PROVE PayTyped'
  BY <1>1, <1>3 DEF Pay!PayPayee
<1>4. ASSUME NEW p \in Payments, Pay!PayCommit(p) PROVE PayTyped'
  <2>1. payInput[p] \in PaymentInputs BY <1>1, <1>4 DEF Pay!PayCommit
  <2>2. payInput[p].key \in Keys /\ payInput[p].amount \in Nat
    BY <1>4, <2>1, PaymentAssumption DEF Pay!PayCommit, Pay!Payable
  <2> QED BY <1>1, <1>4, <2>2 DEF Pay!PayCommit
<1>5. ASSUME NEW p \in Payments, Pay!PayFails(p) PROVE PayTyped'
  BY <1>1, <1>5 DEF Pay!PayFails
<1> QED BY <1>2, <1>3, <1>4, <1>5 DEF PayStep, Pay!PayNext

LEMMA PayStepEffect ==
    ASSUME PayStep
    PROVE  \/ account' = account /\ payments' = payments
           \/ \E p \in Payments : Pay!PayCommit(p)
BY DEF PayStep, Pay!PayNext, Pay!PayCheck, Pay!PayPayee, Pay!PayFails

LEMMA PayStepKeeps ==
    ASSUME SystemInv, PayStep PROVE SystemInv'
<1>1. account' \in [Accounts -> AccountDocs] /\ \A a \in Accounts : Versioned(a)
  <2>1. account \in [Accounts -> AccountDocs] BY DEF SystemInv, SystemTypeOK, TypeOK
  <2> QED BY <2>1, PayStepEffect, PaymentEffect DEF Versioned
<1>2. transactions' = transactions /\ UNCHANGED <<engineVars, statusVars>>
  BY DEF PayStep, Pay!PayNext, Pay!PayCheck, Pay!PayPayee, Pay!PayCommit, Pay!PayFails
<1>3. TypeOK' /\ CommitReady' BY <1>1, <1>2, EngineStands
<1>4. VersionInv' BY <1>1, <1>2, VersionKept
<1>5. PayTyped' BY PayStepTyped
<1>6. SystemTypeOK' BY <1>2, <1>3, <1>5 DEF SystemInv, SystemTypeOK, PayTyped, statusVars
<1> QED BY <1>3, <1>4, <1>6 DEF SystemInv

LEMMA SystemInvNext == SystemInv /\ [SystemNext]_systemVars => SystemInv'
<1> SUFFICES ASSUME SystemInv, [SystemNext]_systemVars PROVE SystemInv' OBVIOUS
<1>1. CASE EngineStep BY <1>1, EngineStepKeeps
<1>2. CASE StatusStep
  BY <1>2, FetchKeeps, SaveKeeps, SaveFailsKeeps DEF StatusStep, Status!StatusNext
<1>3. CASE UNCHANGED systemVars
  <2>1. TypeInv' BY <1>3, EngineTyped, TypeNext DEF systemVars
  <2>2. VersionInv' BY <1>3, VersionKept DEF systemVars, vars, Versioned
  <2>3. PayTyped' BY <1>3, PayStands DEF systemVars
  <2> QED BY <1>3, <2>1, <2>2, <2>3
          DEF SystemInv, SystemTypeOK, TypeInv, systemVars, statusVars, PayTyped
<1>4. CASE PayStep BY <1>4, PayStepKeeps
<1> QED BY <1>1, <1>2, <1>3, <1>4 DEF SystemNext

\* Types are kept by the engine and the status handlers together.
THEOREM SystemTypeCorrect == SystemSpec => []SystemTypeOK
<1>1. SystemInv => SystemTypeOK BY DEF SystemInv
<1> QED BY <1>1, SystemInvInit, SystemInvNext, PTL DEF SystemSpec

\* Money moves only into and out of accounts that are active at that moment,
\* whatever freezes and unfreezes go on beside the transactions.
THEOREM FrozenFundsAreSafe == SystemSpec => FrozenFundsStand
<1> DEFINE Stand == \A a \in Accounts :
                        account'[a].balance # account[a].balance =>
                            account[a].isActive = "active" /\ account'[a].isActive = "active"
<1>1. ASSUME SystemInv, [SystemNext]_systemVars PROVE Stand
  <2> SUFFICES ASSUME NEW a \in Accounts, account'[a].balance # account[a].balance
               PROVE  account[a].isActive = "active" /\ account'[a].isActive = "active"
    OBVIOUS
  <2>1. CASE EngineStep
    <3>1. TypeInv /\ [Next]_vars BY <1>1, <2>1, EngineTyped DEF EngineStep
    <3>2. PICK r \in Requests : TxCommit(r) BY <3>1, OnlyCommitMoves
    <3>3. /\ account'[a].balance = account[a].balance + Delta(input[r], a)
          /\ account'[a].isActive = account[a].isActive
          /\ \A x \in Touched(input[r]) : snapshot[r][x] = account[x]
      BY <3>1, <3>2, CommitEffect
    <3>4. a \in Touched(input[r])
      <4>1. account[a].balance \in Int
        BY <1>1 DEF SystemInv, SystemTypeOK, TypeOK, AccountDocs
      <4>2. Delta(input[r], a) # 0 BY <3>3, <4>1
      <4> QED BY <4>2, NoneAssumption DEF Delta, Touched
    <3>5. \A x \in Touched(input[r]) : snapshot[r][x].isActive = "active"
      BY <1>1, <3>2 DEF SystemInv, CommitReady, TxCommit
    <3> QED BY <3>3, <3>4, <3>5
  <2>2. CASE StatusStep BY <1>1, <2>2, StatusLeavesBalances
  <2>3. CASE UNCHANGED systemVars BY <2>3 DEF systemVars, vars
  <2>4. CASE PayStep BY <1>1, <2>4, PayStepEffect, PaymentEffect
  <2> QED BY <1>1, <2>1, <2>2, <2>3, <2>4 DEF SystemNext
<1>2. SystemInv /\ [SystemNext]_systemVars => [Stand]_systemVars BY <1>1
<1> QED BY <1>2, SystemInvInit, SystemInvNext, PTL DEF SystemSpec, FrozenFundsStand

\* A freeze or unfreeze answered with success found the account in the status
\* it had checked, and changed nothing else.
THEOREM StatusChecksHold == SystemSpec => StatusCheckHolds
<1> DEFINE Holds == \A q \in StatusRequests :
                        statusReply'[q] = "ok" /\ statusReply[q] # "ok" =>
                            LET i == statusInput[q]
                            IN  /\ account[i.account].isActive = Status!Before(i.op)
                                /\ account'[i.account].isActive = Status!After(i.op)
                                /\ account'[i.account].balance = account[i.account].balance
<1>1. ASSUME SystemInv, [SystemNext]_systemVars PROVE Holds
  <2> SUFFICES ASSUME NEW q \in StatusRequests, statusReply'[q] = "ok", statusReply[q] # "ok"
               PROVE  LET i == statusInput[q]
                      IN  /\ account[i.account].isActive = Status!Before(i.op)
                          /\ account'[i.account].isActive = Status!After(i.op)
                          /\ account'[i.account].balance = account[i.account].balance
    OBVIOUS
  <2>1. StatusStep
    BY <1>1 DEF SystemNext, EngineStep, PayStep, systemVars, statusVars
  <2>2. statusReply \in [StatusRequests -> {"none", "ok", "failed"}]
    BY <1>1 DEF SystemInv, SystemTypeOK
  <2>3. Status!Save(q)
    BY <2>1, <2>2 DEF StatusStep, Status!StatusNext, Status!Fetch, Status!Save, Status!SaveFails
  <2> DEFINE i == statusInput[q]
  <2>4. /\ account[i.account].isActive = Status!Before(i.op)
        /\ account'[i.account] =
              [balance |-> account[i.account].balance,
               isActive |-> Status!After(i.op), v |-> account[i.account].v + 1]
    BY <1>1, <2>3, SaveCurrent
  <2> HIDE DEF i
  <2>5. /\ account'[i.account].isActive = Status!After(i.op)
        /\ account'[i.account].balance = account[i.account].balance
    BY <2>4
  <2> QED BY <2>4, <2>5 DEF i
<1>2. SystemInv /\ [SystemNext]_systemVars => [Holds]_systemVars BY <1>1
<1> QED BY <1>2, SystemInvInit, SystemInvNext, PTL DEF SystemSpec, StatusCheckHolds

\* Debits of the engine and of payments together never overdraw an account.
THEOREM SystemNeverOverdrawn == SystemSpec => []NoOverdraft
<1>1. SystemInit => NoOverdraft BY BalanceAssumption DEF SystemInit, Init, NoOverdraft
<1>2. ASSUME SystemInv, NoOverdraft, [SystemNext]_systemVars PROVE NoOverdraft'
  <2>1. CASE EngineStep BY <1>2, <2>1, EngineTyped, OverdraftNext DEF EngineStep
  <2>2. CASE StatusStep BY <1>2, <2>2, StatusLeavesBalances DEF NoOverdraft
  <2>3. CASE PayStep
    <3>1. ASSUME NEW p \in Payments, Pay!PayCommit(p) PROVE NoOverdraft'
      <4> SUFFICES ASSUME NEW a \in Accounts PROVE account'[a].balance >= 0
        BY DEF NoOverdraft
      <4> DEFINE i == payInput[p]
      <4>1. /\ i \in PaymentInputs
            /\ account[i.sender].balance >= i.amount
            /\ account' \in [Accounts -> AccountDocs]
            /\ a # i.sender => account'[a].balance >= account[a].balance
            /\ a = i.sender => account'[a].balance >= account[a].balance - i.amount
        BY <1>2, <3>1, PaymentEffect
      <4>2. i.amount \in Nat BY <4>1, PaymentAssumption
      <4>3. account[a].balance \in Int /\ account'[a].balance \in Int /\ account[a].balance >= 0
        BY <1>2, <4>1 DEF SystemInv, SystemTypeOK, TypeOK, AccountDocs, NoOverdraft
      <4> HIDE DEF i
      <4> QED BY <4>1, <4>2, <4>3
    <3> QED BY <1>2, <2>3, <3>1, PayStepEffect DEF NoOverdraft
  <2>4. CASE UNCHANGED systemVars BY <1>2, <2>4 DEF systemVars, vars, NoOverdraft
  <2> QED BY <1>2, <2>1, <2>2, <2>3, <2>4 DEF SystemNext
<1> QED BY <1>1, <1>2, SystemInvInit, SystemInvNext, PTL DEF SystemSpec

\* One key moves money once, in the engine or by a payment: the unique index
\* alone, without locks, records or replays, is enough for that.
THEOREM KeysMoveOnce == SystemSpec => []KeyMovesOnce
<1>1. SystemInit => KeyMovesOnce BY DEF SystemInit, Init, Pay!PayInit, KeyMovesOnce
<1>2. ASSUME SystemInv, KeyMovesOnce, [SystemNext]_systemVars PROVE KeyMovesOnce'
  <2>1. CASE EngineStep
    <3>1. payments' = payments BY <2>1 DEF EngineStep, payVars
    <3>2. [Next]_vars BY <2>1 DEF EngineStep
    <3>3. ASSUME NEW r \in Requests, TxCommit(r) PROVE KeyMovesOnce'
      <4> DEFINE doc == TransactionDoc(r, input[r], snapshot[r])
      <4>1. transactions' = transactions \cup {doc} BY <3>3 DEF TxCommit
      <4>2. \A t \in transactions : t.idempotencyKey # doc.idempotencyKey
        BY <3>3 DEF TxCommit, Duplicate, TransactionDoc
      <4>3. doc \notin transactions BY <4>2
      <4>4. \A d \in payments : doc.idempotencyKey # d.idempotencyKey
        BY <2>1, <4>1, <4>3 DEF EngineStep
      <4> HIDE DEF doc
      <4> QED BY <1>2, <3>1, <4>1, <4>2, <4>4 DEF KeyMovesOnce
    <3> QED BY <1>2, <3>1, <3>2, <3>3, OnlyCommitMoves DEF KeyMovesOnce
  <2>2. CASE PayStep
    <3>1. transactions' = transactions
      BY <2>2 DEF PayStep, Pay!PayNext, Pay!PayCheck, Pay!PayPayee, Pay!PayCommit, Pay!PayFails
    <3>2. ASSUME NEW p \in Payments, Pay!PayCommit(p) PROVE KeyMovesOnce'
      <4> DEFINE doc == Pay!PaymentDoc(p, payInput[p])
      <4>1. payments' = payments \cup {doc} BY <3>2 DEF Pay!PayCommit
      <4>2. \A t \in transactions \cup payments : t.idempotencyKey # doc.idempotencyKey
        BY <3>2 DEF Pay!PayCommit, Pay!KeyUsed, Pay!PaymentDoc
      <4> HIDE DEF doc
      <4> QED BY <1>2, <3>1, <4>1, <4>2 DEF KeyMovesOnce
    <3> QED BY <1>2, <2>2, <3>1, <3>2, PayStepEffect DEF KeyMovesOnce
  <2>3. CASE StatusStep BY <1>2, <2>3 DEF StatusStep, payVars, KeyMovesOnce
  <2>4. CASE UNCHANGED systemVars
    BY <1>2, <2>4 DEF systemVars, vars, payVars, KeyMovesOnce
  <2> QED BY <1>2, <2>1, <2>2, <2>3, <2>4 DEF SystemNext
<1> QED BY <1>1, <1>2, SystemInvInit, SystemInvNext, PTL DEF SystemSpec
(***************************************************************************)
(* Balances and ledgers beside the payments.                               *)
(***************************************************************************)

\* The handlers beside the engine write none of what its links are about.
LEMMA LinksStand ==
    ASSUME LinkInv, UNCHANGED <<engineVars, transactions>> PROVE LinkInv'
BY DEF LinkInv, Linked, TransactionsLinked, RecordsLinked, CacheLinked, CommitKnown,
       ReplyTruthful, Committed, Slot, engineVars

LEMMA OthersLeaveEngine ==
    ASSUME SystemInv, StatusStep \/ PayStep
    PROVE  UNCHANGED <<engineVars, transactions>>
BY DEF StatusStep, PayStep, Pay!PayNext, Pay!PayCheck, Pay!PayPayee, Pay!PayCommit, Pay!PayFails

LEMMA SystemLinkInit == SystemInit => LinkInv
BY LinkInit DEF SystemInit

LEMMA SystemLinkNext == SystemInv /\ LinkInv /\ [SystemNext]_systemVars => LinkInv'
<1> SUFFICES ASSUME SystemInv, LinkInv, [SystemNext]_systemVars PROVE LinkInv' OBVIOUS
<1>1. CASE EngineStep \/ UNCHANGED systemVars
  <2>1. [Next]_vars BY <1>1 DEF EngineStep, systemVars
  <2> QED BY <2>1, EngineTyped, LinkNext
<1>2. CASE StatusStep \/ PayStep BY <1>2, OthersLeaveEngine, LinksStand
<1> QED BY <1>1, <1>2 DEF SystemNext

\* A payment that has a document is over, so what it was called with stands.
PaymentsLinked ==
    \A d \in payments : d.id \in Payments /\ payPc[d.id] = "done" /\ payInput[d.id] \in PaymentInputs

\* What a payment step does to the documents and to the inputs behind them.
LEMMA PaymentDocuments ==
    ASSUME SystemInv, PaymentsLinked, PayStep
    PROVE  /\ \A d \in payments : payInput'[d.id] = payInput[d.id] /\ payPc'[d.id] = "done"
           /\ \A p \in Payments : Pay!PayCommit(p) =>
                 /\ payments' = payments \cup {Pay!PaymentDoc(p, payInput[p])}
                 /\ Pay!PaymentDoc(p, payInput[p]) \notin payments
                 /\ payInput' = payInput /\ payInput[p] \in PaymentInputs
                 /\ payPc'[p] = "done"
<1> USE DEF Pay!Reply, Pay!Goto
<1>1. payPc \in [Payments -> {"idle", "payee", "pay", "done"}] /\ DOMAIN payInput = Payments
  BY DEF SystemInv, SystemTypeOK
<1>2. ASSUME NEW d \in payments
      PROVE  payInput'[d.id] = payInput[d.id] /\ payPc'[d.id] = "done"
  <2>1. d.id \in Payments /\ payPc[d.id] = "done" BY DEF PaymentsLinked
  <2>2. ASSUME NEW p \in Payments, NEW i \in PaymentInputs, Pay!PayCheck(p, i)
        PROVE  payInput'[d.id] = payInput[d.id] /\ payPc'[d.id] = "done"
    BY <1>1, <2>1, <2>2 DEF Pay!PayCheck
  <2>3. ASSUME NEW p \in Payments, Pay!PayPayee(p) \/ Pay!PayCommit(p) \/ Pay!PayFails(p)
        PROVE  payInput'[d.id] = payInput[d.id] /\ payPc'[d.id] = "done"
    BY <1>1, <2>1, <2>3 DEF Pay!PayPayee, Pay!PayCommit, Pay!PayFails
  <2> QED BY <2>2, <2>3 DEF PayStep, Pay!PayNext
<1>3. ASSUME NEW p \in Payments, Pay!PayCommit(p)
      PROVE  /\ payments' = payments \cup {Pay!PaymentDoc(p, payInput[p])}
             /\ Pay!PaymentDoc(p, payInput[p]) \notin payments
             /\ payInput' = payInput /\ payInput[p] \in PaymentInputs
             /\ payPc'[p] = "done"
  <2>1. payPc[p] = "pay" BY <1>3 DEF Pay!PayCommit
  <2>2. Pay!PaymentDoc(p, payInput[p]).id = p BY DEF Pay!PaymentDoc
  <2>3. Pay!PaymentDoc(p, payInput[p]) \notin payments BY <2>1, <2>2 DEF PaymentsLinked
  <2>4. payInput[p] \in PaymentInputs BY <1>3, PaymentEffect
  <2> QED BY <1>1, <1>3, <2>3, <2>4 DEF Pay!PayCommit
<1> QED BY <1>2, <1>3

LEMMA PaymentsLinkedNext ==
    ASSUME SystemInv, PaymentsLinked, [SystemNext]_systemVars PROVE PaymentsLinked'
<1>1. CASE PayStep
  <2>1. \A d \in payments : payInput'[d.id] = payInput[d.id] /\ payPc'[d.id] = "done"
    BY <1>1, PaymentDocuments
  <2>2. CASE payments' = payments BY <2>1, <2>2 DEF PaymentsLinked
  <2>3. ASSUME NEW p \in Payments, Pay!PayCommit(p) PROVE PaymentsLinked'
    <3> DEFINE doc == Pay!PaymentDoc(p, payInput[p])
    <3>1. payments' = payments \cup {doc} /\ payInput'[p] \in PaymentInputs /\ payPc'[p] = "done"
      BY <1>1, <2>3, PaymentDocuments
    <3>2. doc.id = p BY DEF Pay!PaymentDoc
    <3> HIDE DEF doc
    <3> QED BY <2>1, <3>1, <3>2 DEF PaymentsLinked
  <2> QED BY <1>1, <2>2, <2>3, PayStepEffect
<1>2. CASE UNCHANGED payVars BY <1>2 DEF PaymentsLinked, payVars
<1> QED BY <1>1, <1>2 DEF SystemNext, EngineStep, StatusStep, systemVars

\* The payments' share of the balances, as a function of the documents.
Payouts(a) == [d \in payments |-> PaidInto(d.id, a)]

LEMMA PaidIntoType ==
    ASSUME NEW p, payInput[p] \in PaymentInputs, NEW a PROVE PaidInto(p, a) \in Int
<1>1. payInput[p].amount \in Int BY PaymentAssumption
<1> QED BY <1>1 DEF PaidInto

LEMMA PaymentTotalType ==
    ASSUME PaymentsLinked, IsFiniteSet(payments), NEW a PROVE PaymentTotal(a) \in Int
<1>1. \A d \in payments : Payouts(a)[d] \in Int BY PaidIntoType DEF PaymentsLinked, Payouts
<1>2. DOMAIN Payouts(a) = payments BY DEF Payouts
<1>3. PaymentTotal(a) = SumFunction(Payouts(a)) BY DEF PaymentTotal, Payouts
<1> QED BY <1>1, <1>2, <1>3, SumFunctionInt

\* The total stands while no payment commits.
LEMMA PaymentTotalStands ==
    ASSUME PaymentsLinked, payments' = payments,
           \A d \in payments : payInput'[d.id] = payInput[d.id], NEW a
    PROVE  PaymentTotal(a)' = PaymentTotal(a)
<1>1. \A d \in payments : PaidInto(d.id, a)' = PaidInto(d.id, a) BY DEF PaidInto
<1>2. [d \in payments' |-> PaidInto(d.id, a)'] = [d \in payments |-> PaidInto(d.id, a)]
  BY <1>1
<1> QED BY <1>2 DEF PaymentTotal

\* What a payment that commits adds to a balance, it adds to the total.
LEMMA PaymentAdds ==
    ASSUME SystemInv, PaymentsLinked, IsFiniteSet(payments), PayStep,
           NEW p \in Payments, Pay!PayCommit(p), NEW a \in Accounts
    PROVE  /\ account'[a].balance = account[a].balance + PaidInto(p, a)
           /\ PaymentTotal(a)' = PaymentTotal(a) + PaidInto(p, a)
           /\ IsFiniteSet(payments')
<1> DEFINE doc == Pay!PaymentDoc(p, payInput[p])
<1>1. /\ payments' = payments \cup {doc} /\ doc \notin payments
      /\ payInput' = payInput /\ payInput[p] \in PaymentInputs
  BY PaymentDocuments
<1>2. doc.id = p BY DEF Pay!PaymentDoc
<1>3. account'[a].balance = account[a].balance + PaidInto(p, a)
  <2> DEFINE less == IF a = payInput[p].sender THEN payInput[p].amount ELSE 0
             more == IF a = payInput[p].receiver THEN payInput[p].amount ELSE 0
  <2>1. account'[a] = [account[a] EXCEPT !.balance = account[a].balance - less + more]
    BY DEF Pay!PayCommit, Pay!Paid
  <2>2. account[a] \in AccountDocs BY DEF SystemInv, SystemTypeOK, TypeOK
  <2>3. less \in Int /\ more \in Int BY <1>1, PaymentAssumption
  <2>4. PaidInto(p, a) = more - less BY DEF PaidInto
  <2> HIDE DEF less, more
  <2>5. account'[a].balance = account[a].balance - less + more /\ account[a].balance \in Int
    BY <2>1, <2>2 DEF AccountDocs
  <2> QED BY <2>3, <2>4, <2>5
<1>4. PaidInto(p, a) \in Int BY <1>1, PaidIntoType
<1> HIDE DEF doc
<1>5. PICK old : old = [d \in payments |-> PaidInto(d.id, a)] OBVIOUS
<1>6. PICK new : new = [d \in payments' |-> PaidInto(d.id, a)'] OBVIOUS
<1>7. \A q : PaidInto(q, a)' = PaidInto(q, a) BY <1>1 DEF PaidInto
<1>8. /\ IsFiniteSet(DOMAIN old) /\ doc \notin DOMAIN old
      /\ DOMAIN new = DOMAIN old \cup {doc}
      /\ new[doc] = PaidInto(p, a)
      /\ \A d \in DOMAIN old : old[d] \in Int /\ new[d] = old[d]
  BY <1>1, <1>2, <1>5, <1>6, <1>7, PaidIntoType DEF PaymentsLinked
<1>9. SumFunction(new) = SumFunction(old) + PaidInto(p, a) BY <1>4, <1>8, SumFunctionGrows
<1>10. IsFiniteSet(payments') BY <1>1, FS_AddElement
<1> QED BY <1>3, <1>5, <1>6, <1>9, <1>10 DEF PaymentTotal

\* The inductive form of the two: finitely many documents on both sides.
SystemBalanceInv ==
    /\ IsFiniteSet(transactions) /\ IsFiniteSet(payments)
    /\ PaymentsLinked
    /\ BalancesAccounted
    /\ DiscrepanciesAccounted

LEMMA SystemBalanceInit == SystemInit => SystemBalanceInv
<1> SUFFICES ASSUME SystemInit PROVE SystemBalanceInv OBVIOUS
<1>1. Init /\ payments = {} BY DEF SystemInit, Pay!PayInit
<1>2. IsFiniteSet(transactions) /\ IsFiniteSet(payments)
  BY <1>1, FS_EmptySet DEF Init
<1>3. PaymentsLinked BY <1>1 DEF PaymentsLinked
<1>4. ASSUME NEW a \in Accounts
      PROVE  /\ account[a].balance = OpeningBalance[a] + MovementTotal(a) + PaymentTotal(a)
             /\ Reconstructed(a) + PaymentTotal(a) = account[a].balance + Unrecorded(a)
  <2>1. PaymentTotal(a) = 0 BY <1>1, SumFunctionEmpty DEF PaymentTotal
  <2> QED BY <1>1, <2>1, TotalsInit
<1> QED BY <1>2, <1>3, <1>4 DEF SystemBalanceInv, BalancesAccounted, DiscrepanciesAccounted

\* What a step adds to a balance, it adds to the total of the movements or of
\* the payments, and the ledger gets the former less what is left out.
LEMMA SystemTotalsStep ==
    ASSUME SystemInv, LinkInv, SystemBalanceInv, [SystemNext]_systemVars, NEW a \in Accounts
    PROVE  /\ IsFiniteSet(transactions') /\ IsFiniteSet(payments')
           /\ \E moved, omitted, paid \in Int :
                 /\ account'[a].balance = account[a].balance + moved + paid
                 /\ MovementTotal(a)' = MovementTotal(a) + moved
                 /\ PaymentTotal(a)' = PaymentTotal(a) + paid
                 /\ Unrecorded(a)' = Unrecorded(a) + omitted
                 /\ Reconstructed(a)' = Reconstructed(a) + moved + omitted
<1> USE DEF SystemBalanceInv
<1>1. TypeInv /\ account[a].balance \in Int
  BY EngineTyped DEF SystemInv, SystemTypeOK, TypeOK, AccountDocs
<1>2. /\ MovementTotal(a) \in Int /\ Unrecorded(a) \in Int /\ Reconstructed(a) \in Int
      /\ PaymentTotal(a) \in Int
  BY <1>1, TotalTypes, PaymentTotalType
<1>3. 0 \in Int /\ \A n \in Int : n = n + 0 /\ n = n + 0 + 0 OBVIOUS
<1>4. CASE EngineStep \/ UNCHANGED systemVars
  <2>1. [Next]_vars /\ payments' = payments /\ payInput' = payInput
    BY <1>4 DEF EngineStep, systemVars, payVars
  <2>2. PaymentTotal(a)' = PaymentTotal(a) /\ IsFiniteSet(payments')
    BY <2>1, PaymentTotalStands
  <2>3. IsFiniteSet(transactions') BY <1>1, <2>1, TotalsStep
  <2>4. PICK moved, omitted \in Int :
           /\ account'[a].balance = account[a].balance + moved
           /\ MovementTotal(a)' = MovementTotal(a) + moved
           /\ Unrecorded(a)' = Unrecorded(a) + omitted
           /\ Reconstructed(a)' = Reconstructed(a) + moved + omitted
    BY <1>1, <2>1, TotalsStep
  <2>5. /\ account'[a].balance = account[a].balance + moved + 0
        /\ PaymentTotal(a)' = PaymentTotal(a) + 0
    BY <1>1, <1>2, <2>2, <2>4
  <2> QED BY <1>3, <2>2, <2>3, <2>4, <2>5
<1>5. CASE StatusStep \/ PayStep
  <2>1. UNCHANGED <<engineVars, transactions>> BY <1>5, OthersLeaveEngine
  <2>2. /\ MovementTotal(a)' = MovementTotal(a) /\ Unrecorded(a)' = Unrecorded(a)
        /\ Reconstructed(a)' = Reconstructed(a) /\ IsFiniteSet(transactions')
    BY <2>1 DEF MovementTotal, Unrecorded, Reconstructed, Delta, engineVars
  <2>3. ASSUME NEW paid \in Int, account'[a].balance = account[a].balance + paid,
               PaymentTotal(a)' = PaymentTotal(a) + paid, IsFiniteSet(payments')
        PROVE  /\ IsFiniteSet(transactions') /\ IsFiniteSet(payments')
               /\ \E moved, omitted, more \in Int :
                     /\ account'[a].balance = account[a].balance + moved + more
                     /\ MovementTotal(a)' = MovementTotal(a) + moved
                     /\ PaymentTotal(a)' = PaymentTotal(a) + more
                     /\ Unrecorded(a)' = Unrecorded(a) + omitted
                     /\ Reconstructed(a)' = Reconstructed(a) + moved + omitted
    <3>1. account'[a].balance = account[a].balance + 0 + paid BY <1>1, <2>3
    <3> QED BY <1>2, <1>3, <2>2, <2>3, <3>1
  <2>4. ASSUME NEW p \in Payments, Pay!PayCommit(p), PayStep
        PROVE  /\ PaidInto(p, a) \in Int
               /\ account'[a].balance = account[a].balance + PaidInto(p, a)
               /\ PaymentTotal(a)' = PaymentTotal(a) + PaidInto(p, a)
               /\ IsFiniteSet(payments')
    BY <2>4, PaymentAdds, PaidIntoType, PaymentDocuments
  <2>5. CASE payments' = payments /\ account'[a].balance = account[a].balance
    <3>1. \A d \in payments : payInput'[d.id] = payInput[d.id]
      BY <1>5, PaymentDocuments DEF StatusStep, payVars
    <3>2. PaymentTotal(a)' = PaymentTotal(a) BY <2>5, <3>1, PaymentTotalStands
    <3> QED BY <1>1, <1>2, <1>3, <2>3, <2>5, <3>2
  <2>6. CASE StatusStep BY <2>5, <2>6, StatusLeavesBalances DEF StatusStep, payVars
  <2> QED BY <1>5, <2>3, <2>4, <2>5, <2>6, PayStepEffect
<1> QED BY <1>4, <1>5 DEF SystemNext

LEMMA SystemBalanceNext ==
    SystemInv /\ LinkInv /\ SystemBalanceInv /\ [SystemNext]_systemVars => SystemBalanceInv'
<1> SUFFICES ASSUME SystemInv, LinkInv, SystemBalanceInv, [SystemNext]_systemVars
             PROVE  SystemBalanceInv'
  OBVIOUS
<1>1. PaymentsLinked' BY PaymentsLinkedNext DEF SystemBalanceInv
<1>2. IsFiniteSet(transactions') /\ IsFiniteSet(payments')
  <2>1. [Next]_vars \/ transactions' = transactions
    BY OthersLeaveEngine DEF SystemNext, EngineStep, systemVars
  <2>2. transactions' = transactions \/ \E doc : transactions' = transactions \cup {doc}
    BY <2>1, EngineTyped, OnlyCommitMoves, CommitDocument
  <2>3. payments' = payments \/ \E doc : payments' = payments \cup {doc}
    BY PayStepEffect, PaymentDocuments
    DEF SystemBalanceInv, SystemNext, EngineStep, StatusStep, systemVars, payVars
  <2> QED BY <2>2, <2>3, FS_AddElement DEF SystemBalanceInv
<1>3. ASSUME NEW a \in Accounts
      PROVE  /\ account'[a].balance = OpeningBalance[a] + MovementTotal(a)' + PaymentTotal(a)'
             /\ Reconstructed(a)' + PaymentTotal(a)' = account'[a].balance + Unrecorded(a)'
  <2>1. /\ account[a].balance = OpeningBalance[a] + MovementTotal(a) + PaymentTotal(a)
        /\ Reconstructed(a) + PaymentTotal(a) = account[a].balance + Unrecorded(a)
    BY DEF SystemBalanceInv, BalancesAccounted, DiscrepanciesAccounted
  <2>2. /\ MovementTotal(a) \in Int /\ Unrecorded(a) \in Int /\ OpeningBalance[a] \in Int
        /\ PaymentTotal(a) \in Int /\ Reconstructed(a) \in Int
    BY EngineTyped, TotalTypes, PaymentTotalType, BalanceAssumption DEF SystemBalanceInv
  <2>3. PICK moved, omitted, paid \in Int :
           /\ account'[a].balance = account[a].balance + moved + paid
           /\ MovementTotal(a)' = MovementTotal(a) + moved
           /\ PaymentTotal(a)' = PaymentTotal(a) + paid
           /\ Unrecorded(a)' = Unrecorded(a) + omitted
           /\ Reconstructed(a)' = Reconstructed(a) + moved + omitted
    BY SystemTotalsStep
  <2>4. account'[a].balance = OpeningBalance[a] + MovementTotal(a)' + PaymentTotal(a)'
    BY <2>1, <2>2, <2>3
  <2>5. account[a].balance \in Int BY <2>1, <2>2
  <2>6. Reconstructed(a)' + PaymentTotal(a)' = account'[a].balance + Unrecorded(a)'
    <3>1. Reconstructed(a)' + PaymentTotal(a)'
            = (Reconstructed(a) + PaymentTotal(a)) + (moved + omitted + paid)
      BY <2>2, <2>3
    <3>2. account'[a].balance + Unrecorded(a)'
            = (account[a].balance + Unrecorded(a)) + (moved + omitted + paid)
      BY <2>2, <2>3, <2>5
    <3> QED BY <2>1, <3>1, <3>2
  <2> QED BY <2>4, <2>6
<1> QED BY <1>1, <1>2, <1>3 DEF SystemBalanceInv, BalancesAccounted, DiscrepanciesAccounted

\* Movements and payments account for every balance together: no interleaving of
\* the two, which share neither locks nor versions, loses or doubles either.
THEOREM BalancesAreAccounted == SystemSpec => []BalancesAccounted
<1>1. SystemBalanceInv => BalancesAccounted BY DEF SystemBalanceInv
<1> QED
  BY <1>1, SystemInvInit, SystemInvNext, SystemLinkInit, SystemLinkNext, SystemBalanceInit,
     SystemBalanceNext, PTL
  DEF SystemSpec

\* verifyBalance is off by the payments and by the cents of withdrawals that the
\* ledger leaves out, and by nothing else.
THEOREM DiscrepanciesAreAccounted == SystemSpec => []DiscrepanciesAccounted
<1>1. SystemBalanceInv => DiscrepanciesAccounted BY DEF SystemBalanceInv
<1> QED
  BY <1>1, SystemInvInit, SystemInvNext, SystemLinkInit, SystemLinkNext, SystemBalanceInit,
     SystemBalanceNext, PTL
  DEF SystemSpec
(***************************************************************************)
(* The abstract bank with freezes.                                         *)
(***************************************************************************)

\* Where a payment is tells what its checks have found, and a payment that has
\* not been answered has not been told anything.
PayInv ==
    \A p \in Payments :
        /\ payPc[p] # "done" => payReply[p] = "none"
        /\ payPc[p] \in {"payee", "pay"} => Owner[payInput[p].sender] = payInput[p].userId
        /\ payPc[p] = "pay" => Owner[payInput[p].receiver] # payInput[p].userId

LEMMA PayInvInit == SystemInit => PayInv
BY DEF SystemInit, Pay!PayInit, PayInv

LEMMA PayInvNext == SystemInv /\ PayInv /\ [SystemNext]_systemVars => PayInv'
<1> SUFFICES ASSUME SystemInv, PayInv, [SystemNext]_systemVars PROVE PayInv' OBVIOUS
<1>1. CASE UNCHANGED payVars BY <1>1 DEF PayInv, payVars
<1>2. CASE PayStep
  <2> USE DEF PayInv, Pay!Reply, Pay!Goto
  <2>1. /\ payPc \in [Payments -> {"idle", "payee", "pay", "done"}]
        /\ payInput \in [Payments -> PaymentInputs \cup {None}]
        /\ payReply \in [Payments -> {"none", "ok", "failed"}]
    BY DEF SystemInv, SystemTypeOK
  <2>2. ASSUME NEW p \in Payments, NEW i \in PaymentInputs, Pay!PayCheck(p, i) PROVE PayInv'
    BY <2>1, <2>2 DEF Pay!PayCheck, Pay!SenderFit
  <2>3. ASSUME NEW p \in Payments, Pay!PayPayee(p) PROVE PayInv'
    BY <2>1, <2>3 DEF Pay!PayPayee, Pay!ReceiverFit
  <2>4. ASSUME NEW p \in Payments, Pay!PayCommit(p) \/ Pay!PayFails(p) PROVE PayInv'
    BY <2>1, <2>4 DEF Pay!PayCommit, Pay!PayFails
  <2> QED BY <1>2, <2>2, <2>3, <2>4 DEF PayStep, Pay!PayNext
<1> QED BY <1>1, <1>2 DEF SystemNext, EngineStep, StatusStep, systemVars

\* The two parts of what clients have been told.
ToldKeys == {input[r].key : r \in {x \in Requests : reply[x].kind \in {"created", "replayed"}}}
PaidKeys == {payInput[p].key : p \in {x \in Payments : payReply[x] = "ok"}}

FrozenAccounts == {a \in Accounts : account[a].isActive # "active"}

\* The keys are the second halves of the slots that the engine's promise names.
LEMMA KeysOfSlots ==
    ASSUME NEW asked, NEW told
    PROVE  {asked[r].key : r \in told} = {s[2] : s \in {Slot(asked[r]) : r \in told}}
<1>1. \A r : Slot(asked[r])[2] = asked[r].key BY DEF Slot
<1> QED BY <1>1

LEMMA ToldBySlots ==
    /\ ToldKeys = {s[2] : s \in Acknowledged}
    /\ ToldKeys' = {s[2] : s \in Acknowledged'}
<1>1. ToldKeys = {s[2] : s \in Acknowledged} BY KeysOfSlots DEF ToldKeys, Acknowledged
<1>2. ToldKeys' = {s[2] : s \in Acknowledged'}
  <2>1. {input'[r].key : r \in {x \in Requests : reply'[x].kind \in {"created", "replayed"}}}
          = {s[2] : s \in {Slot(input'[r]) :
                r \in {x \in Requests : reply'[x].kind \in {"created", "replayed"}}}}
    BY KeysOfSlots
  <2> QED BY <2>1 DEF ToldKeys, Acknowledged, Slot
<1> QED BY <1>1, <1>2

LEMMA ContractInit == SystemInit => Contract!FreezableInit
<1> SUFFICES ASSUME SystemInit PROVE Contract!FreezableInit OBVIOUS
<1>1. Init /\ payments = {} /\ payReply = [p \in Payments |-> "none"]
  BY DEF SystemInit, Pay!PayInit
<1>2. Funds = OpeningBalance BY <1>1, BalanceAssumption DEF Init, Funds
<1>3. SettledKeys = {} BY <1>1 DEF Init, SettledKeys
<1>4. AcknowledgedKeys = {} BY <1>1 DEF Init, AcknowledgedKeys, NoReply
<1>5. {a \in Accounts : account[a].isActive # "active"} = {} BY <1>1 DEF Init
<1> QED BY <1>2, <1>3, <1>4, <1>5 DEF Contract!FreezableInit, Contract!Init

\* A commit of the engine is a move between accounts that are not frozen.
LEMMA ContractCommit ==
    ASSUME SystemInv, EngineStep, NEW r \in Requests, TxCommit(r)
    PROVE  Contract!FreezableNext
<1>1. TypeInv BY EngineTyped
<1> DEFINE i == input[r]
<1>2. /\ i \in Inputs /\ i.key \in Keys /\ i.amount > 0 /\ i.sender # i.receiver
      /\ i.sender \in Accounts \cup {None} /\ i.receiver \in Accounts \cup {None}
      /\ i.sender # None => Funds[i.sender] >= i.amount
      /\ Funds' = [a \in Accounts |->
                      Funds[a] + (IF a = i.receiver THEN i.amount ELSE 0)
                               - (IF a = i.sender THEN i.amount ELSE 0)]
      /\ Acknowledged' = Acknowledged
  BY <1>1, CommitFunds
<1>3. FrozenAccounts' = FrozenAccounts BY <1>1, CommitEffect DEF FrozenAccounts
<1>4. {i.sender, i.receiver} \cap FrozenAccounts = {}
  <2>1. \A a \in Touched(i) : snapshot[r][a] = account[a] BY <1>1, CommitEffect
  <2>2. \A a \in Touched(i) : account[a].isActive = "active"
    BY <2>1 DEF SystemInv, CommitReady, TxCommit
  <2>3. \A a \in {i.sender, i.receiver} : a \in Accounts => a \in Touched(i)
    BY NoneAssumption DEF Touched
  <2> QED BY <2>2, <2>3 DEF FrozenAccounts
<1>5. /\ i.key \notin SettledKeys
      /\ SettledKeys' = SettledKeys \cup {i.key}
  <2> DEFINE doc == TransactionDoc(r, i, snapshot[r])
  <2>1. transactions' = transactions \cup {doc} /\ payments' = payments
    BY DEF TxCommit, EngineStep, payVars
  <2>2. doc.idempotencyKey = i.key BY DEF TransactionDoc
  <2>3. \A t \in transactions : t.idempotencyKey # i.key BY DEF TxCommit, Duplicate
  <2> HIDE DEF doc
  <2>4. doc \in transactions' \ transactions BY <2>1, <2>2, <2>3
  <2>5. \A d \in payments : d.idempotencyKey # i.key BY <2>2, <2>4 DEF EngineStep
  <2> QED BY <2>1, <2>2, <2>3, <2>5 DEF SettledKeys
<1>6. AcknowledgedKeys' = AcknowledgedKeys
  <2>1. ToldKeys' = ToldKeys BY <1>2, ToldBySlots
  <2>2. PaidKeys' = PaidKeys BY DEF EngineStep, payVars, PaidKeys
  <2> QED BY <2>1, <2>2 DEF ToldKeys, PaidKeys, AcknowledgedKeys
<1> HIDE DEF i
<1>7. Contract!MoveUnfrozen(i.key, i.sender, i.receiver, i.amount)
  BY <1>2, <1>3, <1>4, <1>5, <1>6
  DEF Contract!MoveUnfrozen, Contract!Move, FrozenAccounts
<1> QED BY <1>2, <1>7 DEF Contract!FreezableNext

\* Any other step of the engine tells a client of a settled key, or nothing.
LEMMA ContractTelling ==
    ASSUME SystemInv, LinkInv, LinkInv', [Next]_vars, UNCHANGED <<statusVars, payVars>>,
           UNCHANGED <<account, ledger, transactions>>
    PROVE  Contract!FreezableNext \/ UNCHANGED Contract!freezableVars
<1>1. TypeInv BY EngineTyped
<1>2. Funds' = Funds /\ FrozenAccounts' = FrozenAccounts BY DEF Funds, FrozenAccounts
<1>3. SettledKeys' = SettledKeys BY DEF SettledKeys, payVars
<1>4. PaidKeys' = PaidKeys BY DEF PaidKeys, payVars
<1>5. CASE Acknowledged' = Acknowledged
  <2>1. ToldKeys' = ToldKeys BY <1>5, ToldBySlots
  <2>2. AcknowledgedKeys' = AcknowledgedKeys
    BY <1>4, <2>1 DEF ToldKeys, PaidKeys, AcknowledgedKeys
  <2> QED BY <1>2, <1>3, <2>2 DEF Contract!freezableVars, Contract!bankVars, FrozenAccounts
<1>6. ASSUME NEW id \in Settled', Acknowledged' = Acknowledged \cup {id}
      PROVE  Contract!FreezableNext
  <2>1. PICK t \in transactions : id = Slot(input'[t.id]) BY <1>6 DEF Settled
  <2>2. id[2] = t.idempotencyKey
    BY <2>1 DEF LinkInv, Linked, TransactionsLinked, Slot
  <2>3. id[2] \in SettledKeys BY <2>2 DEF SettledKeys
  <2>4. id[2] \in Keys
    BY <2>2 DEF SystemInv, SystemTypeOK, TypeOK, TransactionDocs
  <2>5. AcknowledgedKeys' = AcknowledgedKeys \cup {id[2]}
    <3>1. ToldKeys' = ToldKeys \cup {id[2]} BY <1>6, ToldBySlots
    <3> QED BY <1>4, <3>1 DEF ToldKeys, PaidKeys, AcknowledgedKeys
  <2>6. Contract!Acknowledge(id[2]) BY <1>2, <1>3, <2>3, <2>5 DEF Contract!Acknowledge
  <2> QED BY <1>2, <2>4, <2>6 DEF Contract!FreezableNext, FrozenAccounts
<1> QED BY <1>1, <1>5, <1>6, AcknowledgeStep

\* A save of a status handler freezes or unfreezes one account.
LEMMA ContractStatus ==
    ASSUME SystemInv, StatusStep
    PROVE  Contract!FreezableNext \/ UNCHANGED Contract!freezableVars
<1>1. Funds' = Funds BY StatusLeavesBalances DEF Funds
<1>2. SettledKeys' = SettledKeys /\ AcknowledgedKeys' = AcknowledgedKeys
  BY DEF StatusStep, engineVars, payVars, SettledKeys, AcknowledgedKeys
<1>3. CASE account' = account
  BY <1>1, <1>2, <1>3 DEF Contract!freezableVars, Contract!bankVars
<1>4. ASSUME NEW q \in StatusRequests, Status!Save(q) PROVE Contract!FreezableNext
  <2> PICK i : i = statusInput[q] OBVIOUS
  <2> PICK a : a = i.account OBVIOUS
  <2>1. /\ i \in Status!StatusInputs /\ a \in Accounts
        /\ account[a].isActive = Status!Before(i.op)
        /\ account'[a].isActive = Status!After(i.op)
        /\ \A x \in Accounts : x # a => account'[x] = account[x]
    <3>1. /\ i \in Status!StatusInputs /\ a \in Accounts
          /\ account[a].isActive = Status!Before(i.op)
          /\ account'[a] = [balance |-> account[a].balance,
                            isActive |-> Status!After(i.op), v |-> account[a].v + 1]
          /\ \A x \in Accounts : x # a => account'[x] = account[x]
      BY <1>4, SaveCurrent
    <3> QED BY <3>1
  <2>2. CASE i.op = "freeze"
    <3>1. a \notin FrozenAccounts /\ FrozenAccounts' = FrozenAccounts \cup {a}
      BY <2>1, <2>2 DEF FrozenAccounts, Status!Before, Status!After
    <3>2. Contract!Freeze(a)
      BY <1>1, <1>2, <3>1 DEF Contract!Freeze, Contract!bankVars, FrozenAccounts
    <3> QED BY <2>1, <3>2 DEF Contract!FreezableNext
  <2>3. CASE i.op # "freeze"
    <3>1. a \in FrozenAccounts /\ FrozenAccounts' = FrozenAccounts \ {a}
      BY <2>1, <2>3 DEF FrozenAccounts, Status!Before, Status!After
    <3>2. Contract!Unfreeze(a)
      BY <1>1, <1>2, <3>1 DEF Contract!Unfreeze, Contract!bankVars, FrozenAccounts
    <3> QED BY <2>1, <3>2 DEF Contract!FreezableNext
  <2> QED BY <2>2, <2>3
<1> QED
  BY <1>3, <1>4 DEF StatusStep, Status!StatusNext, Status!Fetch, Status!SaveFails

LEMMA PaymentFunds ==
    ASSUME SystemInv, NEW p \in Payments, Pay!PayCommit(p)
    PROVE  LET i == payInput[p]
           IN  Funds' = [a \in Accounts |->
                            Funds[a] + (IF a = i.receiver THEN i.amount ELSE 0)
                                     - (IF a = i.sender THEN i.amount ELSE 0)]
<1> DEFINE i == payInput[p]
<1> SUFFICES ASSUME NEW a \in Accounts
             PROVE  account'[a].balance
                      = account[a].balance + (IF a = i.receiver THEN i.amount ELSE 0)
                                           - (IF a = i.sender THEN i.amount ELSE 0)
  BY DEF Funds
<1> DEFINE less == IF a = i.sender THEN i.amount ELSE 0
           more == IF a = i.receiver THEN i.amount ELSE 0
<1>1. account'[a] = [account[a] EXCEPT !.balance = account[a].balance - less + more]
  BY DEF Pay!PayCommit, Pay!Paid
<1>2. account[a] \in AccountDocs BY DEF SystemInv, SystemTypeOK, TypeOK
<1>3. i.amount \in Int BY PaymentEffect, PaymentAssumption
<1>4. less \in Int /\ more \in Int BY <1>3
<1>5. account'[a].balance = account[a].balance + more - less
  <2> HIDE DEF i, less, more
  <2> QED BY <1>1, <1>2, <1>4 DEF AccountDocs
<1> QED BY <1>5

\* A payment that commits is a move, too; its client may be told in the step.
LEMMA ContractPayment ==
    ASSUME SystemInv, PayInv, PayStep, NEW p \in Payments, Pay!PayCommit(p)
    PROVE  Contract!FreezableNext
<1> DEFINE i == payInput[p]
<1>1. /\ i \in PaymentInputs /\ i.sender \in Accounts /\ i.receiver \in Accounts
      /\ i.amount \in Nat /\ i.amount > 0 /\ i.key \in Keys
  <2>1. i \in PaymentInputs BY PaymentEffect
  <2>2. i.key # None /\ i.amount >= Cent BY DEF Pay!PayCommit, Pay!Payable
  <2>3. Cent \in Nat /\ Cent > 0 BY CentsAssumption DEF Cent
  <2>4. i.amount \in Nat BY <2>1, PaymentAssumption
  <2>5. i.amount > 0 BY <2>2, <2>3, <2>4
  <2> QED BY <2>1, <2>2, <2>4, <2>5, PaymentAssumption
<1>2. i.sender # i.receiver BY DEF PayInv, Pay!PayCommit
<1>3. /\ account[i.sender].isActive = "active" /\ account[i.receiver].isActive = "active"
      /\ account[i.sender].balance >= i.amount
      /\ \A a \in Accounts : account'[a].isActive = account[a].isActive
  BY PaymentEffect
<1>4. FrozenAccounts' = FrozenAccounts /\ {i.sender, i.receiver} \cap FrozenAccounts = {}
  BY <1>3 DEF FrozenAccounts
<1>5. Funds' = [a \in Accounts |->
                   Funds[a] + (IF a = i.receiver THEN i.amount ELSE 0)
                            - (IF a = i.sender THEN i.amount ELSE 0)]
  BY PaymentFunds
<1>6. /\ i.key \notin SettledKeys
      /\ SettledKeys' = SettledKeys \cup {i.key}
  <2> DEFINE doc == Pay!PaymentDoc(p, i)
  <2>1. payments' = payments \cup {doc} /\ transactions' = transactions
    BY DEF Pay!PayCommit
  <2>2. doc.idempotencyKey = i.key BY DEF Pay!PaymentDoc
  <2>3. \A t \in transactions \cup payments : t.idempotencyKey # i.key
    BY DEF Pay!PayCommit, Pay!KeyUsed
  <2> HIDE DEF doc
  <2> QED BY <2>1, <2>2, <2>3 DEF SettledKeys
<1>7. AcknowledgedKeys' \in {AcknowledgedKeys, AcknowledgedKeys \cup {i.key}}
  <2>1. ToldKeys' = ToldKeys BY DEF PayStep, engineVars, ToldKeys
  <2>2. payReply[p] = "none" /\ payInput' = payInput BY DEF PayInv, Pay!PayCommit
  <2>3. DOMAIN payReply = Payments BY DEF SystemInv, SystemTypeOK
  <2>4. CASE payReply' = [payReply EXCEPT ![p] = "ok"]
    <3>1. PaidKeys' = PaidKeys \cup {i.key} BY <2>2, <2>3, <2>4 DEF PaidKeys
    <3> QED BY <2>1, <3>1 DEF ToldKeys, PaidKeys, AcknowledgedKeys
  <2>5. CASE payReply' = [payReply EXCEPT ![p] = "failed"]
    <3>1. PaidKeys' = PaidKeys BY <2>2, <2>3, <2>5 DEF PaidKeys
    <3> QED BY <2>1, <3>1 DEF ToldKeys, PaidKeys, AcknowledgedKeys
  <2> QED BY <2>4, <2>5 DEF Pay!PayCommit, Pay!Reply
<1>8. Funds[i.sender] >= i.amount BY <1>1, <1>3 DEF Funds
<1> HIDE DEF i
<1>9. Contract!MoveUnfrozen(i.key, i.sender, i.receiver, i.amount)
  BY <1>1, <1>2, <1>4, <1>5, <1>6, <1>7, <1>8
  DEF Contract!MoveUnfrozen, Contract!Move, FrozenAccounts
<1> QED BY <1>1, <1>9 DEF Contract!FreezableNext, i

\* The other steps of a payment answer "failed" or nothing.
LEMMA ContractNoPayment ==
    ASSUME SystemInv, PayInv, PayStep, \A p \in Payments : ~Pay!PayCommit(p)
    PROVE  UNCHANGED Contract!freezableVars
<1>1. account' = account /\ payments' = payments BY PayStepEffect
<1>2. transactions' = transactions /\ UNCHANGED engineVars BY OthersLeaveEngine
<1>3. ToldKeys' = ToldKeys BY <1>2 DEF engineVars, ToldKeys
<1>4. PaidKeys' = PaidKeys
  <2>1. \A x \in Payments : (payReply'[x] = "ok" <=> payReply[x] = "ok")
                            /\ (payReply[x] = "ok" => payInput'[x] = payInput[x])
    <3> USE DEF PayInv, Pay!Reply, Pay!Goto
    <3>1. DOMAIN payReply = Payments /\ DOMAIN payInput = Payments
      BY DEF SystemInv, SystemTypeOK
    <3>2. ASSUME NEW p \in Payments, NEW i \in PaymentInputs, Pay!PayCheck(p, i),
                 NEW x \in Payments
          PROVE  (payReply'[x] = "ok" <=> payReply[x] = "ok")
                 /\ (payReply[x] = "ok" => payInput'[x] = payInput[x])
      BY <3>1, <3>2 DEF Pay!PayCheck
    <3>3. ASSUME NEW p \in Payments, Pay!PayPayee(p) \/ Pay!PayFails(p), NEW x \in Payments
          PROVE  (payReply'[x] = "ok" <=> payReply[x] = "ok")
                 /\ (payReply[x] = "ok" => payInput'[x] = payInput[x])
      BY <3>1, <3>3 DEF Pay!PayPayee, Pay!PayFails
    <3> QED BY <3>2, <3>3 DEF PayStep, Pay!PayNext
  <2> QED BY <2>1 DEF PaidKeys
<1>5. AcknowledgedKeys' = AcknowledgedKeys
  BY <1>3, <1>4 DEF ToldKeys, PaidKeys, AcknowledgedKeys
<1> QED
  BY <1>1, <1>2, <1>5 DEF Contract!freezableVars, Contract!bankVars, Funds, SettledKeys

LEMMA ContractNext ==
    SystemInv /\ LinkInv /\ LinkInv' /\ PayInv /\ [SystemNext]_systemVars
        => [Contract!FreezableNext]_(Contract!freezableVars)
<1> SUFFICES ASSUME SystemInv, LinkInv, LinkInv', PayInv, [SystemNext]_systemVars
             PROVE  Contract!FreezableNext \/ UNCHANGED Contract!freezableVars
  OBVIOUS
<1>1. CASE EngineStep
  BY <1>1, OnlyCommitMoves, ContractCommit, ContractTelling DEF EngineStep
<1>2. CASE StatusStep BY <1>2, ContractStatus
<1>3. CASE PayStep BY <1>3, ContractPayment, ContractNoPayment
<1>4. CASE UNCHANGED systemVars
  <2>1. [Next]_vars /\ UNCHANGED <<account, ledger, transactions>> BY <1>4 DEF systemVars, vars
  <2> QED BY <1>4, <2>1, ContractTelling DEF systemVars
<1> QED BY <1>1, <1>2, <1>3, <1>4 DEF SystemNext

\* The engine, the payments and the status changes together are one bank whose
\* accounts can be frozen: every interleaving of their steps is one of its
\* behaviours.
THEOREM SystemImplementsFreezableBank == SystemSpec => ImplementsFreezableBank
BY ContractInit, ContractNext, SystemInvInit, SystemInvNext, SystemLinkInit, SystemLinkNext,
   PayInvInit, PayInvNext, PTL
DEF SystemSpec, ImplementsFreezableBank, Contract!FreezableSpec
(***************************************************************************)
(* The money in the bank.                                                  *)
(***************************************************************************)

LEMMA FundsType ==
    ASSUME SystemInv PROVE DOMAIN Funds = Accounts /\ \A a \in Accounts : Funds[a] \in Int
BY DEF SystemInv, SystemTypeOK, TypeOK, AccountDocs, Funds

\* The summands of the cash total, and the total where it stands.
CashFlows == [t \in transactions |-> FromOutside(input[t.id])]

LEMMA CashType ==
    ASSUME TypeInv, LinkInv, NEW t \in transactions PROVE FromOutside(input[t.id]) \in Int
<1>1. input[t.id].amount \in Int BY DocumentInputs, InputType
<1> QED BY <1>1 DEF FromOutside

LEMMA CashStands ==
    ASSUME transactions' = transactions, \A t \in transactions : input'[t.id] = input[t.id]
    PROVE  CashTotal' = CashTotal
<1>1. [t \in transactions' |-> FromOutside(input[t.id])'] = [t \in transactions |-> FromOutside(input[t.id])]
  BY DEF FromOutside
<1> QED BY <1>1 DEF CashTotal

LEMMA CommitAddsCash ==
    ASSUME TypeInv, LinkInv, IsFiniteSet(transactions), NEW r \in Requests, TxCommit(r)
    PROVE  CashTotal' = CashTotal + FromOutside(input[r])
<1>1. PICK doc : /\ doc \notin transactions
                 /\ transactions' = transactions \cup {doc}
                 /\ doc.id = r /\ input' = input
  BY CommitDocument
<1>2. FromOutside(input[r]) \in Int
  <2>1. input[r].amount \in Int BY CommitEffect, InputType
  <2> QED BY <2>1 DEF FromOutside
<1> DEFINE f == CashFlows
           g == [t \in transactions' |-> FromOutside(input'[t.id])]
<1>3. \A x \in transactions : f[x] \in Int /\ g[x] = f[x]
  BY <1>1, CashType DEF CashFlows
<1>4. DOMAIN f = transactions /\ DOMAIN g = transactions \cup {doc} BY <1>1 DEF CashFlows
<1>5. g[doc] = FromOutside(input[r]) BY <1>1
<1>6. CashTotal' = SumFunction(g) BY DEF CashTotal, FromOutside
<1>7. CashTotal = SumFunction(f) BY DEF CashTotal, CashFlows
<1> HIDE DEF f, g
<1>8. SumFunction(g) = SumFunction(f) + g[doc] BY <1>1, <1>2, <1>3, <1>4, <1>5, SumFunctionGrows
<1> QED BY <1>5, <1>6, <1>7, <1>8

\* A commit of the engine changes the money in the bank by its cash.
LEMMA CommitMoney ==
    ASSUME TypeInv, SystemInv, NEW r \in Requests, TxCommit(r)
    PROVE  SumFunction(Funds') = SumFunction(Funds) + FromOutside(input[r])
<1> DEFINE i == input[r]
<1>1. /\ i \in Inputs /\ i.sender # i.receiver
      /\ i.sender \in Accounts \cup {None} /\ i.receiver \in Accounts \cup {None}
      /\ Funds' = [a \in Accounts |->
                      Funds[a] + (IF a = i.receiver THEN i.amount ELSE 0)
                               - (IF a = i.sender THEN i.amount ELSE 0)]
  BY CommitFunds
<1>2. i.amount \in Int BY <1>1, InputType
<1>3. None \notin Accounts BY NoneAssumption
<1> HIDE DEF i
<1>4. SumFunction(Funds') = SumFunction(Funds) + (IF i.receiver \in Accounts THEN i.amount ELSE 0)
                                               - (IF i.sender \in Accounts THEN i.amount ELSE 0)
  <2> PICK f, h, n, from, to :
            f = Funds /\ h = Funds' /\ n = i.amount /\ from = i.sender /\ to = i.receiver
    OBVIOUS
  <2>1. /\ DOMAIN f = Accounts /\ DOMAIN h = Accounts /\ n \in Int /\ from # to
        /\ \A a \in Accounts : f[a] \in Int
        /\ \A a \in Accounts : h[a] = f[a] + At(a, to, n) - At(a, from, n)
    BY <1>1, <1>2, FundsType DEF At
  <2>2. SumFunction(h) = SumFunction(f) + Among(Accounts, to, n) - Among(Accounts, from, n)
    BY <2>1, AccountsAssumption, SumFunctionMoves
  <2> QED BY <2>2 DEF Among
<1>5. SumFunction(Funds) \in Int BY FundsType, AccountsAssumption, SumFunctionInt
<1>6. /\ i.receiver \in Accounts <=> i.receiver # None
      /\ i.sender \in Accounts <=> i.sender # None
  BY <1>1, <1>3
<1> QED BY <1>1, <1>2, <1>4, <1>5, <1>6 DEF FromOutside, i

\* A payment leaves it alone.
LEMMA PaymentMoney ==
    ASSUME SystemInv, PayInv, NEW p \in Payments, Pay!PayCommit(p)
    PROVE  SumFunction(Funds') = SumFunction(Funds)
<1> DEFINE i == payInput[p]
<1>1. i.sender \in Accounts /\ i.receiver \in Accounts /\ i.amount \in Int
  BY PaymentEffect, PaymentAssumption
<1>2. i.sender # i.receiver BY DEF PayInv, Pay!PayCommit
<1>3. Funds' = [a \in Accounts |->
                   Funds[a] + (IF a = i.receiver THEN i.amount ELSE 0)
                            - (IF a = i.sender THEN i.amount ELSE 0)]
  BY PaymentFunds
<1> HIDE DEF i
<1>4. SumFunction(Funds') = SumFunction(Funds) + (IF i.receiver \in Accounts THEN i.amount ELSE 0)
                                               - (IF i.sender \in Accounts THEN i.amount ELSE 0)
  <2> PICK f, h, n, from, to :
            f = Funds /\ h = Funds' /\ n = i.amount /\ from = i.sender /\ to = i.receiver
    OBVIOUS
  <2>1. /\ DOMAIN f = Accounts /\ DOMAIN h = Accounts /\ n \in Int /\ from # to
        /\ \A a \in Accounts : f[a] \in Int
        /\ \A a \in Accounts : h[a] = f[a] + At(a, to, n) - At(a, from, n)
    BY <1>1, <1>2, <1>3, FundsType DEF At
  <2>2. SumFunction(h) = SumFunction(f) + Among(Accounts, to, n) - Among(Accounts, from, n)
    BY <2>1, AccountsAssumption, SumFunctionMoves
  <2> QED BY <2>2 DEF Among
<1>5. SumFunction(Funds) \in Int BY FundsType, AccountsAssumption, SumFunctionInt
<1> QED BY <1>1, <1>4, <1>5

MoneyInv == IsFiniteSet(transactions) /\ MoneyConserved

LEMMA MoneyInit == SystemInit => MoneyInv
<1> SUFFICES ASSUME SystemInit PROVE MoneyInv OBVIOUS
<1>1. transactions = {} /\ IsFiniteSet(transactions) BY FS_EmptySet DEF SystemInit, Init
<1>2. Funds = OpeningBalance BY BalanceAssumption DEF SystemInit, Init, Funds
<1>3. CashTotal = 0 BY <1>1, SumFunctionEmpty DEF CashTotal
<1>4. SumFunction(OpeningBalance) \in Int
  BY BalanceAssumption, AccountsAssumption, SumFunctionInt
<1> QED BY <1>1, <1>2, <1>3, <1>4 DEF MoneyInv, MoneyConserved

LEMMA MoneyNext ==
    SystemInv /\ LinkInv /\ PayInv /\ SystemBalanceInv /\ MoneyInv /\ [SystemNext]_systemVars
        => MoneyInv'
<1> SUFFICES ASSUME SystemInv, LinkInv, PayInv, SystemBalanceInv, MoneyInv,
                    [SystemNext]_systemVars
             PROVE  MoneyInv'
  OBVIOUS
<1>1. TypeInv BY EngineTyped
<1>2. IsFiniteSet(transactions) BY DEF MoneyInv
<1>3. IsFiniteSet(transactions') BY SystemBalanceNext DEF SystemBalanceInv
<1>4. CASE UNCHANGED Funds /\ UNCHANGED CashTotal
  BY <1>3, <1>4 DEF MoneyInv, MoneyConserved
<1>5. ASSUME NEW r \in Requests, TxCommit(r) PROVE MoneyInv'
  <2>1. /\ SumFunction(Funds') = SumFunction(Funds) + FromOutside(input[r])
        /\ CashTotal' = CashTotal + FromOutside(input[r])
    BY <1>1, <1>2, <1>5, CommitMoney, CommitAddsCash
  <2>2. CashTotal \in Int
    <3>1. DOMAIN CashFlows = transactions /\ \A t \in transactions : CashFlows[t] \in Int
      BY <1>1, CashType DEF CashFlows
    <3> QED BY <1>2, <3>1, SumFunctionInt DEF CashTotal, CashFlows
  <2>3. SumFunction(OpeningBalance) \in Int
    BY BalanceAssumption, AccountsAssumption, SumFunctionInt
  <2>4. FromOutside(input[r]) \in Int
    <3>1. input[r].amount \in Int BY <1>1, <1>5, CommitEffect, InputType
    <3> QED BY <3>1 DEF FromOutside
  <2> QED BY <1>3, <2>1, <2>2, <2>3, <2>4 DEF MoneyInv, MoneyConserved
<1>6. CASE EngineStep \/ UNCHANGED systemVars
  <2>1. [Next]_vars BY <1>6 DEF EngineStep, systemVars
  <2>2. CASE UNCHANGED <<account, ledger, transactions>>
    <3>1. \A t \in transactions : input'[t.id] = input[t.id]
      BY <1>1, <2>1, NamedRequests, InputsKept
    <3>2. UNCHANGED Funds BY <2>2 DEF Funds
    <3> QED BY <1>4, <2>2, <3>1, <3>2, CashStands
  <2> QED BY <1>5, <2>1, <2>2, OnlyCommitMoves
<1>7. CASE StatusStep \/ PayStep
  <2>1. UNCHANGED CashTotal
    BY <1>7, OthersLeaveEngine, CashStands DEF engineVars
  <2>2. CASE UNCHANGED Funds BY <1>4, <2>1, <2>2
  <2>3. CASE StatusStep BY <2>2, <2>3, StatusLeavesBalances DEF Funds
  <2>4. ASSUME NEW p \in Payments, Pay!PayCommit(p) PROVE MoneyInv'
    <3>1. SumFunction(Funds') = SumFunction(Funds) BY <2>4, PaymentMoney
    <3> QED BY <1>3, <2>1, <3>1 DEF MoneyInv, MoneyConserved
  <2>5. CASE account' = account BY <2>2, <2>5 DEF Funds
  <2> QED BY <1>7, <2>3, <2>4, <2>5, PayStepEffect
<1> QED BY <1>6, <1>7 DEF SystemNext

\* No handler makes or destroys money: all accounts together hold the opening
\* money plus the cash of deposits less that of withdrawals.
THEOREM MoneyIsConserved == SystemSpec => []MoneyConserved
<1>1. MoneyInv => MoneyConserved BY DEF MoneyInv
<1> QED
  BY <1>1, SystemInvInit, SystemInvNext, SystemLinkInit, SystemLinkNext, PayInvInit, PayInvNext,
     SystemBalanceInit, SystemBalanceNext, MoneyInit, MoneyNext, PTL
  DEF SystemSpec
=============================================================================
