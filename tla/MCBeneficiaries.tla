--------------------------- MODULE MCBeneficiaries ---------------------------
(* Small instances of Beneficiaries for TLC.                               *)
EXTENDS Beneficiaries, TLC

CONSTANTS bob, acctB, acctC

\* Both accounts are bob's.
MCOwner == (acctB :> bob) @@ (acctC :> bob)

Symmetric == Permutations(Requests) \cup Permutations(Codes) \cup Permutations(Accounts)
             \cup Permutations(Users)
=============================================================================
