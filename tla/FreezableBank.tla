---------------------------- MODULE FreezableBank ----------------------------
(***************************************************************************)
(* What the transaction engine, the payments to beneficiaries and the      *)
(* freezes and unfreezes of accounts promise together: the bank of module  *)
(* Bank, whose accounts can be frozen, and whose client may be told of a   *)
(* movement at once.                                                       *)
(***************************************************************************)
EXTENDS Bank

VARIABLE frozen  \* accounts that no money enters or leaves

freezableVars == <<bankVars, frozen>>

FreezableInit == Init /\ frozen = {}

MoveUnfrozen(id, from, to, n) ==
    /\ {from, to} \cap frozen = {}
    /\ Move(id, from, to, n)
    /\ acknowledged' \in {acknowledged, acknowledged \cup {id}}
    /\ UNCHANGED frozen

Freeze(a) ==
    /\ a \notin frozen
    /\ frozen' = frozen \cup {a}
    /\ UNCHANGED bankVars

Unfreeze(a) ==
    /\ a \in frozen
    /\ frozen' = frozen \ {a}
    /\ UNCHANGED bankVars

FreezableNext ==
    \/ \E id \in Ids, n \in Amounts, from, to \in Accounts \cup {None} :
           MoveUnfrozen(id, from, to, n)
    \/ \E id \in Ids : Acknowledge(id) /\ UNCHANGED frozen
    \/ \E a \in Accounts : Freeze(a) \/ Unfreeze(a)

FreezableSpec == FreezableInit /\ [][FreezableNext]_freezableVars
=============================================================================
