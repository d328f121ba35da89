--------------------------- MODULE MCNotifications ---------------------------
(* A small instance of Notifications for TLC.                              *)
EXTENDS Notifications, TLC

CONSTANTS alice, bob, k1, acctA, acctB

MCOwner == (acctA :> alice) @@ (acctB :> bob)
MCCurrency == [a \in {acctA, acctB} |-> "INR"]
MCOpening == (acctA :> 300 * Cent) @@ (acctB :> 100 * Cent)
MCMaxAmount == [p \in Purposes |-> IF p = "withdrawal" THEN None ELSE 1000 * Cent]

\* A movement that is announced by one job, and one that is by two.
MCInputs ==
    {[purpose |-> "deposit", userId |-> alice, key |-> k1, sender |-> None,
      receiver |-> acctA, amount |-> 100 * Cent],
     [purpose |-> "transfer", userId |-> alice, key |-> k1, sender |-> acctA,
      receiver |-> acctB, amount |-> 100 * Cent]}
=============================================================================
