------------------------- MODULE MCTransactionEngine -------------------------
(* Small instances of TransactionEngine for TLC.                           *)
EXTENDS TransactionEngine, TLC

CONSTANTS alice, bob, k1, k2, acctA, acctB, ghost

\* alice owns acctA, bob owns acctB; ghost is an account number nobody has.
MCOwner == (acctA :> alice) @@ (acctB :> bob)
MCCurrency == [a \in {acctA, acctB} |-> "INR"]
MCOpening == (acctA :> 300 * Cent) @@ (acctB :> 0)

\* As .env.example leaves it: the withdrawal maximum is undefined.
MCMaxAmount == [p \in Purposes |-> IF p = "withdrawal" THEN None ELSE 1000 * Cent]

\* Amounts in cents.
Deposit(u, k, a, n) ==
    [purpose |-> "deposit", userId |-> u, key |-> k, sender |-> None,
     receiver |-> a, amount |-> n * Cent]
Transfer(u, k, a, b, n) ==
    [purpose |-> "transfer", userId |-> u, key |-> k, sender |-> a,
     receiver |-> b, amount |-> n * Cent]
Withdrawal(u, k, a, n) ==
    [purpose |-> "withdrawal", userId |-> u, key |-> k, sender |-> a,
     receiver |-> None, amount |-> n * Cent]

\* One transfer, and its retries; the sender could pay it three times.
OneTransfer == {Transfer(alice, k1, acctA, acctB, 100)}

\* Two transfers that meet in their accounts, and the retry of either.
TwoTransfers == {Transfer(alice, k1, acctA, acctB, 200), Transfer(alice, k2, acctA, acctB, 200)}

\* Transfers and withdrawals that cannot all be covered, crossing in both
\* directions, deposits beside them, and inputs every check refuses; one
\* withdrawal is of a unit and a half, one below a unit.
MovementInputs ==
    {Transfer(alice, k1, acctA, acctB, 200), Transfer(alice, k2, acctA, acctB, 200),
     Transfer(bob, k1, acctB, acctA, 100), Deposit(alice, k1, acctA, 100),
     Deposit(bob, k2, acctB, 100), Deposit(bob, k2, acctA, 100),
     Withdrawal(alice, k1, acctA, 200), Withdrawal(alice, k2, acctA, 150),
     Withdrawal(alice, k2, acctA, 50),
     Transfer(alice, k2, acctA, ghost, 100), Transfer(alice, k2, acctA, acctA, 100),
     Deposit(alice, None, acctA, 100), Deposit(alice, k1, acctA, 0)}

\* One key used for a deposit and for a transfer.
PurposeInputs == {Deposit(alice, k1, acctA, 100), Transfer(alice, k1, acctA, acctB, 200)}

Symmetric == Permutations(Requests)
=============================================================================
