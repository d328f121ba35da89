----------------------------- MODULE MCUserSystem -----------------------------
(* Small instances of UserSystem for TLC.                                  *)
EXTENDS UserSystem, TLC

CONSTANTS alice, bob, k1, k2, s1

\* alice is registered and has a session; bob is not.
MCOpenedBy == s1 :> alice

\* alice has one account of the two she may have here.
MCExisting == {[id |-> None, userId |-> alice, key |-> None, accountType |-> "current"]}

Symmetric == Permutations(Requests)
=============================================================================
