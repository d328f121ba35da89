----------------------------- MODULE SessionChain -----------------------------
(***************************************************************************)
(* What refresh tokens promise: a session is a chain of tokens of one user *)
(* and one family.  A token is added to it only in exchange for one that   *)
(* was live when the exchange was asked for and is not any more when the   *)
(* successor appears, and no token that was ended lives again.             *)
(***************************************************************************)
CONSTANTS Tokens, Users, None, Opened, OpenedBy

VARIABLES
    standing, \* "none", "live", "ended" or "gone"
    chain,    \* token -> its user and family, None before it is issued
    claims    \* <<n, t>>: n has been asked for in exchange for t

chainVars == <<standing, chain, claims>>

Link(u, f) == [userId |-> u, family |-> f]

Init ==
    /\ standing = [t \in Tokens |-> IF t \in Opened THEN "live" ELSE "none"]
    /\ chain = [t \in Tokens |-> IF t \in Opened THEN Link(OpenedBy[t], t) ELSE None]
    /\ claims = {}

Issue(n, link) ==
    /\ standing[n] = "none"
    /\ standing' = [standing EXCEPT ![n] = "live"]
    /\ chain' = [chain EXCEPT ![n] = link]

\* A login.
Open(n, u) == Issue(n, Link(u, n)) /\ UNCHANGED claims

Claim(n, t) ==
    /\ standing[t] = "live"
    /\ claims' = claims \cup {<<n, t>>}
    /\ UNCHANGED <<standing, chain>>

\* The exchange.
Renew(n, t) ==
    /\ <<n, t>> \in claims
    /\ standing[t] # "live"
    /\ Issue(n, chain[t])
    /\ UNCHANGED claims

End(t) ==
    /\ standing[t] = "live"
    /\ standing' = [standing EXCEPT ![t] = "ended"]
    /\ UNCHANGED <<chain, claims>>

\* An expired token is forgotten.
Forget(t) ==
    /\ standing[t] \in {"live", "ended"}
    /\ standing' = [standing EXCEPT ![t] = "gone"]
    /\ UNCHANGED <<chain, claims>>

Next ==
    \/ \E n \in Tokens, u \in Users : Open(n, u)
    \/ \E c \in claims : Renew(c[1], c[2])
    \/ \E t \in Tokens : End(t) \/ Forget(t)
    \/ \E n, t \in Tokens : Claim(n, t)

Spec == Init /\ [][Next]_chainVars
=============================================================================
