-------------------------- MODULE BeneficiaryTransfer --------------------------
(***************************************************************************)
(* transferToBeneficiary of controller/beneficiary.controller.js: money is *)
(* sent to a verified beneficiary by two filtered updates and a Transaction*)
(* document in one MongoDB transaction.  Unlike the engine it takes no     *)
(* lock, replays nothing, writes no ledger entry, leaves __v alone and     *)
(* takes the amount, which clients write in units and with decimals, for   *)
(* cents.  Money is in hundredths of a cent, as in the engine.             *)
(***************************************************************************)
EXTENDS Integers

CONSTANTS
    Payments,      \* executions of the handler
    PaymentInputs, \* what clients may send, see BankSystem!PaymentAssumption
    Users, Keys, Accounts,
    Owner,         \* account -> its userId
    Currency,      \* account -> its currency
    Cent,          \* a cent, in hundredths
    None

VARIABLES
    account,      \* the BankAccount documents, shared with the engine
    transactions, \* the engine's Transaction documents
    payments,     \* the Transaction documents of this handler
    payPc,        \* where each handler is
    payInput,     \* what it was called with
    payReply      \* its response; a worker that dies has failed, too

payVars == <<payments, payPc, payInput, payReply>>

\* The schema has no field for the accounts a payment names: the documents are
\* seen by the unique index and by no query on accounts.  The amount is the
\* number the client wrote, with its decimals.
PaymentDocs == [id : Payments, idempotencyKey : Keys, amount : Nat]

PayInit ==
    /\ payments = {}
    /\ payPc = [p \in Payments |-> "idle"]
    /\ payInput = [p \in Payments |-> None]
    /\ payReply = [p \in Payments |-> "none"]

Reply(p, kind) ==
    /\ payPc' = [payPc EXCEPT ![p] = "done"]
    /\ payReply' = [payReply EXCEPT ![p] = kind]

Goto(p, label) ==
    /\ payPc' = [payPc EXCEPT ![p] = label]
    /\ UNCHANGED payReply

\* findOne of an active account of the user, and the first look at its balance.
SenderFit(i) ==
    /\ Owner[i.sender] = i.userId
    /\ account[i.sender].isActive = "active"
    /\ account[i.sender].balance >= i.amount

\* The checks on the account the beneficiary document is populated with.
ReceiverFit(i) ==
    /\ Currency[i.sender] = Currency[i.receiver]
    /\ account[i.receiver].isActive = "active"
    /\ Owner[i.receiver] # i.userId

PayCheck(p, i) ==
    /\ payPc[p] = "idle"
    /\ payInput' = [payInput EXCEPT ![p] = i]
    /\ \/ SenderFit(i) /\ Goto(p, "payee")
       \/ ~SenderFit(i) /\ Reply(p, "failed")
    /\ UNCHANGED <<account, transactions, payments>>

\* Beneficiary.findOne finds a verified one, which module Beneficiaries is
\* about, or refuses.
PayPayee(p) ==
    /\ payPc[p] = "payee"
    /\ \/ ReceiverFit(payInput[p]) /\ Goto(p, "pay")
       \/ Reply(p, "failed")
    /\ UNCHANGED <<account, transactions, payments, payInput>>

\* Mutant: the credit's filter names the receiver without its status.
PayableToFrozen(i) ==
    /\ account[i.sender].isActive = "active"
    /\ account[i.sender].balance >= i.amount
    /\ i.key # None
    /\ i.amount >= Cent

\* The filters of the two updates, the required idempotencyKey, and the schema's
\* minimum of 1 on the amount.
Payable(i) ==
    /\ account[i.sender].isActive = "active"
    /\ account[i.sender].balance >= i.amount
    /\ account[i.receiver].isActive = "active"
    /\ i.key # None
    /\ i.amount >= Cent

KeyUsed(key) == \E t \in transactions \cup payments : t.idempotencyKey = key

\* $inc of both balances.
Paid(i) ==
    [a \in Accounts |->
        [account[a] EXCEPT !.balance = @ - (IF a = i.sender THEN i.amount ELSE 0)
                                         + (IF a = i.receiver THEN i.amount ELSE 0)]]

PaymentDoc(p, i) == [id |-> p, idempotencyKey |-> i.key, amount |-> i.amount]

\* Mutant: the debit's filter names the account and no more.
PayCommitUnfiltered(p) ==
    LET i == payInput[p]
    IN  /\ payPc[p] = "pay"
        /\ i.key # None
        /\ i.amount >= Cent
        /\ ~KeyUsed(i.key)
        /\ account' = Paid(i)
        /\ payments' = payments \cup {PaymentDoc(p, i)}
        /\ Reply(p, "ok")
        /\ UNCHANGED <<transactions, payInput>>

\* Mutant: each update changes what its filter matches, and goes on without it.
PayCommitUncounted(p) ==
    LET i == payInput[p]
        debit == IF SenderFit(i) THEN i.amount ELSE 0
        credit == IF account[i.receiver].isActive = "active" THEN i.amount ELSE 0
    IN  /\ payPc[p] = "pay"
        /\ i.key # None
        /\ i.amount >= Cent
        /\ ~KeyUsed(i.key)
        /\ account' = [account EXCEPT ![i.sender].balance = @ - debit,
                                      ![i.receiver].balance = @ + credit]
        /\ payments' = payments \cup {PaymentDoc(p, i)}
        /\ Reply(p, "ok")
        /\ UNCHANGED <<transactions, payInput>>

\* Mutant: the key is looked up among this handler's documents only.
PayCommitOwnKeys(p) ==
    LET i == payInput[p]
    IN  /\ payPc[p] = "pay"
        /\ Payable(i)
        /\ \A t \in payments : t.idempotencyKey # i.key
        /\ account' = Paid(i)
        /\ payments' = payments \cup {PaymentDoc(p, i)}
        /\ Reply(p, "ok")
        /\ UNCHANGED <<transactions, payInput>>

\* withTransaction: MongoDB runs the callback again when another write meets
\* the documents it has touched, so its reads and writes are one step.  The
\* commit's acknowledgement may be lost.
PayCommit(p) ==
    LET i == payInput[p]
    IN  /\ payPc[p] = "pay"
        /\ Payable(i)
        /\ ~KeyUsed(i.key)
        /\ account' = Paid(i)
        /\ payments' = payments \cup {PaymentDoc(p, i)}
        /\ Reply(p, "ok") \/ Reply(p, "failed")
        /\ UNCHANGED <<transactions, payInput>>

\* A filter matches nothing, the key is missing or taken, MongoDB fails, or the
\* worker dies.
PayFails(p) ==
    /\ payPc[p] \in {"payee", "pay"}
    /\ Reply(p, "failed")
    /\ UNCHANGED <<account, transactions, payments, payInput>>

PayNext ==
    \/ \E p \in Payments, i \in PaymentInputs : PayCheck(p, i)
    \/ \E p \in Payments : PayPayee(p) \/ PayCommit(p) \/ PayFails(p)
=============================================================================
