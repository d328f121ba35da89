--------------------------------- MODULE Bank ---------------------------------
(***************************************************************************)
(* What the transaction engine promises, without caches, locks, snapshots  *)
(* or retries: a movement of money happens in one step, at most once for   *)
(* each request id, only out of sufficient funds, and a client is told of  *)
(* it only after it happened.                                              *)
(***************************************************************************)
EXTENDS Integers

CONSTANTS
    Accounts,
    Opening,   \* account -> opening funds
    Ids,       \* request ids: the pairs of user and idempotency key
    Amounts,   \* amounts that may be moved
    None       \* the outside world

VARIABLES
    funds,        \* account -> its funds
    settled,      \* ids whose movement has happened
    acknowledged  \* ids whose client has been told so

bankVars == <<funds, settled, acknowledged>>

Init ==
    /\ funds = Opening
    /\ settled = {}
    /\ acknowledged = {}

\* n moves from one account to another; None is cash.
Move(id, from, to, n) ==
    /\ id \notin settled
    /\ n > 0
    /\ from # to
    /\ from # None => funds[from] >= n
    /\ settled' = settled \cup {id}
    /\ funds' = [a \in Accounts |-> funds[a] + (IF a = to THEN n ELSE 0)
                                             - (IF a = from THEN n ELSE 0)]

Acknowledge(id) ==
    /\ id \in settled
    /\ acknowledged' = acknowledged \cup {id}
    /\ UNCHANGED <<funds, settled>>

Next ==
    \/ \E id \in Ids, n \in Amounts, from, to \in Accounts \cup {None} :
           Move(id, from, to, n) /\ UNCHANGED acknowledged
    \/ \E id \in Ids : Acknowledge(id)

Spec == Init /\ [][Next]_bankVars
=============================================================================
