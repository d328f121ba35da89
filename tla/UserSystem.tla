------------------------------ MODULE UserSystem ------------------------------
(***************************************************************************)
(* The handlers on users, sessions and the opening of accounts together.   *)
(* They meet in the User documents: who may log in, refresh and open an    *)
(* account is read from them and may change before the handler ends.       *)
(***************************************************************************)
EXTENDS Sessions, AccountOpening

VARIABLE activeDuring \* history: the users active at some time since r's call

vars == <<lifeVars, requestVars, sessionVars, openingVars, activeDuring>>

ActiveUsers == {u \in Users : user[u] # None /\ user[u].isActive}

Init ==
    /\ LifeInit
    /\ RequestInit
    /\ SessionInit
    /\ OpeningInit
    /\ activeDuring = [r \in Requests |-> {}]

\* A handler runs until it is done; while it runs whoever is active is noted.
Watch ==
    activeDuring' =
        [r \in Requests |->
            IF pc[r] = "done" THEN activeDuring[r]
            ELSE IF pc'[r] = "idle" THEN {}
            ELSE activeDuring[r] \cup ActiveUsers]

Step ==
    \/ LifeNext /\ UNCHANGED <<sessionVars, openingVars>>
    \/ SessionNext /\ UNCHANGED openingVars
    \/ OpeningNext /\ UNCHANGED sessionVars

Next == Step /\ Watch

Spec == Init /\ [][Next]_vars

-----------------------------------------------------------------------------
\* The types of documents, calls, copies and answers.
TypeOK ==
    /\ user \in [Users -> UserDocs \cup {None}]
    /\ accessTokens \subseteq Users
    /\ crossed \subseteq Users
    /\ pc \in [Requests -> {"idle", "enter", "insert", "save", "enqueue", "store", "user",
                            "spend", "revoke", "key", "count", "commit", "done"}]
    /\ call \in [Requests -> LifeCalls \cup SessionCalls \cup OpeningCalls \cup {None}]
    /\ held \in [Requests -> UserDocs \cup TokenDocs \cup {None}]
    /\ answer \in [Requests -> {"none", "ok", "failed", "reuse"}]
    /\ tokens \in [Tokens -> TokenDocs \cup {None}]
    /\ scope \in [Requests -> SUBSET Tokens]
    /\ lineage \in [Tokens -> TokenDocs \cup {None}]
    /\ raced \subseteq Tokens
    /\ opened \subseteq AccountDocs
    /\ crowded \subseteq Users
    /\ activeDuring \in [Requests -> SUBSET Users]

\* A token is stored and an account opened only for a user who was active at
\* some time while the request ran: whoever was deactivated before the call and
\* not reactivated since gets neither.
DeactivatedKeptOut ==
    /\ \A r \in Requests : lineage[r] # None => lineage[r].userId \in activeDuring[r]
    /\ \A d \in opened \ Existing : d.userId \in activeDuring[d.id]

-----------------------------------------------------------------------------
(* The sessions implement the abstract chains: a token stands as its       *)
(* document says, and a refresh claims its successor when it finds the     *)
(* presented token live.                                                   *)

Standing ==
    [t \in Tokens |-> IF lineage[t] = None THEN "none"
                      ELSE IF tokens[t] = None THEN "gone"
                      ELSE IF tokens[t].isRevoked THEN "ended" ELSE "live"]

Chain ==
    [t \in Tokens |-> IF lineage[t] = None THEN None
                      ELSE [userId |-> lineage[t].userId, family |-> lineage[t].family]]

Claims ==
    {<<r, call[r].token>> : r \in {q \in Requests : /\ pc[q] # "idle"
                                                    /\ call[q].op = "refreshToken"
                                                    /\ held[q] # None
                                                    /\ ~held[q].isRevoked}}

Promise == INSTANCE SessionChain WITH
    standing <- Standing, chain <- Chain, claims <- Claims

\* Every step of the handlers on tokens is a step of the abstract sessions.
ImplementsChains == Promise!Spec
=============================================================================
