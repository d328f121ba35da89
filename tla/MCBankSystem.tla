---------------------------- MODULE MCBankSystem ----------------------------
(* Small instances of BankSystem for TLC.                                  *)
EXTENDS BankSystem, TLC

CONSTANTS alice, bob, k1, k2, acctA, acctB

MCOwner == (acctA :> alice) @@ (acctB :> bob)
MCCurrency == [a \in {acctA, acctB} |-> "INR"]
MCOpening == (acctA :> 300 * Cent) @@ (acctB :> 100 * Cent)
MCMaxAmount == [p \in Purposes |-> IF p = "withdrawal" THEN None ELSE 1000 * Cent]

\* A transfer, and a withdrawal that competes with it and the payment for funds.
MCInputs ==
    {[purpose |-> "transfer", userId |-> alice, key |-> k1, sender |-> acctA,
      receiver |-> acctB, amount |-> 100 * Cent],
     [purpose |-> "withdrawal", userId |-> alice, key |-> k2, sender |-> acctA,
      receiver |-> None, amount |-> 200 * Cent]}

\* A payment of 150.5 with the key of the transfer.
MCPayments ==
    {[userId |-> alice, key |-> k1, sender |-> acctA, receiver |-> acctB, amount |-> 150 * Cent + 50]}

MCNothing == {}

Symmetric == Permutations(StatusRequests)
=============================================================================
