------------------------------ MODULE BankSystem ------------------------------
(***************************************************************************)
(* The transaction engine, the account status handlers and the transfers   *)
(* to beneficiaries at work on the same account documents.  The last two   *)
(* meet the engine in the accounts; payments meet it in the unique index   *)
(* on the idempotencyKey of Transaction documents, too.                    *)
(***************************************************************************)
EXTENDS TransactionEngine

CONSTANTS StatusRequests, Payments, PaymentInputs

(* A payment names two accounts and carries an amount of two decimals, which *)
(* need not be whole cents; the key may be missing.                          *)
ASSUME PaymentAssumption ==
    /\ \A i \in PaymentInputs :
           /\ DOMAIN i = {"userId", "key", "sender", "receiver", "amount"}
           /\ i.userId \in Users
           /\ i.key \in Keys \cup {None}
           /\ i.sender \in Accounts
           /\ i.receiver \in Accounts
           /\ i.amount \in Nat
    /\ None \notin PaymentInputs

\* The bank has finitely many accounts, so its money can be added up.
ASSUME AccountsAssumption == IsFiniteSet(Accounts)

VARIABLES statusPc, statusInput, fetched, statusReply,
          payments, payPc, payInput, payReply

Status == INSTANCE AccountStatus

Pay == INSTANCE BeneficiaryTransfer

statusVars == <<statusPc, statusInput, fetched, statusReply>>
payVars == <<payments, payPc, payInput, payReply>>
systemVars == <<vars, statusVars, payVars>>

SystemInit == Init /\ Status!StatusInit /\ Pay!PayInit

\* A movement does not commit with the key of a payment: the handler gets E11000
\* and fails as with any other error of MongoDB (MongoFails).
EngineStep ==
    /\ Next
    /\ \A t \in transactions' \ transactions, d \in payments :
           t.idempotencyKey # d.idempotencyKey
    /\ UNCHANGED <<statusVars, payVars>>

\* What only the engine writes.
engineVars == <<ledger, idempotency, lock, cache, pc, input, snapshot, reply, emails, lapsed>>

StatusStep ==
    /\ Status!StatusNext
    /\ UNCHANGED <<engineVars, transactions, payVars>>

PayStep ==
    /\ Pay!PayNext
    /\ UNCHANGED <<engineVars, statusVars>>

SystemNext == EngineStep \/ StatusStep \/ PayStep

SystemSpec == SystemInit /\ [][SystemNext]_systemVars

-----------------------------------------------------------------------------
\* The type invariant of the whole.
SystemTypeOK ==
    /\ TypeOK
    /\ statusPc \in [StatusRequests -> {"idle", "save", "done"}]
    /\ statusInput \in [StatusRequests -> Status!StatusInputs \cup {None}]
    /\ fetched \in [StatusRequests -> AccountDocs \cup {None}]
    /\ statusReply \in [StatusRequests -> {"none", "ok", "failed"}]
    /\ payments \subseteq Pay!PaymentDocs
    /\ payPc \in [Payments -> {"idle", "payee", "pay", "done"}]
    /\ payInput \in [Payments -> PaymentInputs \cup {None}]
    /\ \A p \in Payments : payPc[p] \in {"payee", "pay"} => payInput[p] # None
    /\ payReply \in [Payments -> {"none", "ok", "failed"}]

\* An idempotency key moves money once, whether a movement of the engine or a
\* payment uses it and whoever sends it.
KeyMovesOnce ==
    \A t, d \in transactions \cup payments : t.idempotencyKey = d.idempotencyKey => t = d

\* What a payment adds to the balance of account a.
PaidInto(p, a) ==
    LET i == payInput[p]
    IN  (IF a = i.receiver THEN i.amount ELSE 0) - (IF a = i.sender THEN i.amount ELSE 0)

PaymentTotal(a) == SumFunction([d \in payments |-> PaidInto(d.id, a)])

\* A balance is the opening balance plus what each movement and each payment
\* that has a document adds to it, although payments leave no version behind
\* by which the engine's filters would notice them.
BalancesAccounted ==
    \A a \in Accounts :
        account[a].balance = OpeningBalance[a] + MovementTotal(a) + PaymentTotal(a)

\* verifyBalance is off by the payments, which write no ledger entry, and by
\* what the entries of withdrawals leave out, and by nothing else.
DiscrepanciesAccounted ==
    \A a \in Accounts :
        Reconstructed(a) + PaymentTotal(a) = account[a].balance + Unrecorded(a)

\* "All monetary values stored and processed as integer cents."
WholeCents == \A a \in Accounts : account[a].balance % Cent = 0

\* While an account is frozen its balance stands still, although a movement
\* may have checked the account before the freeze was saved.
FrozenFundsStand ==
    [][\A a \in Accounts :
          account'[a].balance # account[a].balance =>
              account[a].isActive = "active" /\ account'[a].isActive = "active"]_systemVars

\* A status change answered with success took the account from the status the
\* handler had checked, even if others wrote the account in between; so two
\* freezes never both succeed without an unfreeze between them.
StatusCheckHolds ==
    [][\A q \in StatusRequests :
          statusReply'[q] = "ok" /\ statusReply[q] # "ok" =>
              LET i == statusInput[q]
              IN  /\ account[i.account].isActive = Status!Before(i.op)
                  /\ account'[i.account].isActive = Status!After(i.op)
                  /\ account'[i.account].balance = account[i.account].balance]_systemVars

-----------------------------------------------------------------------------
(* The handlers implement one abstract bank together: a key is settled once *)
(* a movement or a payment with it has committed, whoever sent it.          *)

SettledKeys == {t.idempotencyKey : t \in transactions \cup payments}

AcknowledgedKeys ==
    {input[r].key : r \in {x \in Requests : reply[x].kind \in {"created", "replayed"}}}
        \cup {payInput[p].key : p \in {x \in Payments : payReply[x] = "ok"}}

Contract == INSTANCE FreezableBank WITH
    Opening <- OpeningBalance,
    Ids <- Keys,
    Amounts <- {i.amount : i \in Inputs} \cup {i.amount : i \in PaymentInputs},
    funds <- Funds,
    settled <- SettledKeys,
    acknowledged <- AcknowledgedKeys,
    frozen <- {a \in Accounts : account[a].isActive # "active"}

\* What a movement of input i brings into the bank.
FromOutside(i) == (IF i.sender = None THEN i.amount ELSE 0)
                  - (IF i.receiver = None THEN i.amount ELSE 0)

CashTotal == SumFunction([t \in transactions |-> FromOutside(input[t.id])])

\* The money in all accounts together is what was there at first plus the cash
\* of the committed deposits less that of the withdrawals: transfers, payments
\* and freezes neither make nor destroy any.
MoneyConserved == SumFunction(Funds) = SumFunction(OpeningBalance) + CashTotal

\* Every step of the engine, of a payment or of a status change is a step of
\* that bank or changes nothing it can see: whatever the handlers interleave,
\* money moves in one step, once for each key, out of sufficient funds, between
\* different accounts, none of them frozen, and clients are told the truth.
ImplementsFreezableBank == Contract!FreezableSpec
=============================================================================
