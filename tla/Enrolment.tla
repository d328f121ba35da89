------------------------------ MODULE Enrolment ------------------------------
(***************************************************************************)
(* What managing beneficiaries promises: an account becomes a verified     *)
(* beneficiary of a user only by a code issued for exactly that user and   *)
(* account, and stops being one only by a removal that was asked for while *)
(* it was verified, each removal once.                                     *)
(***************************************************************************)
CONSTANTS
    Pairs,   \* pairs of a user and an account
    Codes,
    Removals \* identifies the requests to remove one

VARIABLES
    standing, \* pair -> "absent", "pending" or "verified"
    issued,   \* pairs and the codes issued for them
    removing  \* removals under way and their pairs

enrolmentVars == <<standing, issued, removing>>

Init ==
    /\ standing = [p \in Pairs |-> "absent"]
    /\ issued = {}
    /\ removing = {}

Propose(p) ==
    /\ standing[p] = "absent"
    /\ standing' = [standing EXCEPT ![p] = "pending"]
    /\ UNCHANGED <<issued, removing>>

Issue(p, c) ==
    /\ standing[p] # "absent"
    /\ issued' = issued \cup {<<p, c>>}
    /\ UNCHANGED <<standing, removing>>

Approve(p, c) ==
    /\ standing[p] = "pending"
    /\ <<p, c>> \in issued
    /\ standing' = [standing EXCEPT ![p] = "verified"]
    /\ UNCHANGED <<issued, removing>>

AskRemoval(m, p) ==
    /\ standing[p] = "verified"
    /\ removing' = removing \cup {<<m, p>>}
    /\ UNCHANGED <<standing, issued>>

Withdraw(m, p) ==
    /\ <<m, p>> \in removing
    /\ removing' = removing \ {<<m, p>>}
    /\ standing' = [standing EXCEPT ![p] = "pending"]
    /\ UNCHANGED issued

Abandon(m, p) ==
    /\ <<m, p>> \in removing
    /\ removing' = removing \ {<<m, p>>}
    /\ UNCHANGED <<standing, issued>>

Next ==
    \E p \in Pairs :
        \/ Propose(p)
        \/ \E c \in Codes : Issue(p, c) \/ Approve(p, c)
        \/ \E m \in Removals : AskRemoval(m, p) \/ Withdraw(m, p) \/ Abandon(m, p)

Spec == Init /\ [][Next]_enrolmentVars
=============================================================================
