---------------------------- MODULE AccountOpening ----------------------------
(***************************************************************************)
(* createAccount of controller/account.controller.js.  The two limits, of  *)
(* accounts and of savings accounts, are checked on the snapshot of a      *)
(* MongoDB transaction that then inserts a document.  Inserts of different *)
(* documents do not conflict: only the unique index on idempotencyKey ties *)
(* two requests together.                                                  *)
(***************************************************************************)
EXTENDS UserLifecycle

CONSTANTS
    Keys,         \* x-idempotency-key headers
    AccountTypes, \* VALID_ACCOUNT_TYPES
    MaxAccounts,  \* 3
    Existing      \* accounts opened before the run

VARIABLES
    opened,  \* the BankAccount documents, as far as createAccount looks at them
    crowded  \* history: users two of whose requests were past the checks at once

openingVars == <<opened, crowded>>

AccountDocs == [id : Requests \cup {None}, userId : Users, key : Keys \cup {None},
                accountType : AccountTypes]

OpeningCalls == [op : {"createAccount"}, user : Users, key : Keys, accountType : AccountTypes]

OpeningInit ==
    /\ opened = Existing
    /\ crowded = {}

AccountsOf(u, docs) == {d \in docs : d.userId = u}
Savings(docs) == {d \in docs : d.accountType = "savings"}

(* The accounts opened before keep the limits and the index on the keys.    *)
ASSUME ExistingAssumption ==
    /\ MaxAccounts \in Nat
    /\ Existing \subseteq AccountDocs
    /\ IsFiniteSet(Existing)
    /\ \A d \in Existing : d.id = None
    /\ \A d, e \in Existing : d.key = e.key /\ d.key # None => d = e
    /\ \A u \in Users : /\ Cardinality(AccountsOf(u, Existing)) =< MaxAccounts
                        /\ Cardinality(Savings(AccountsOf(u, Existing))) =< 1

\* The handler looks its user up once more; the type, which the header comes
\* after, is one of the valid ones.
OpenUser(r) ==
    /\ At(r, "createAccount", "enter")
    /\ \/ Admitted(call[r].user) /\ Goto(r, "key")
       \/ ~Admitted(call[r].user) /\ Reply(r, "failed")
    /\ UNCHANGED <<lifeVars, openingVars, call, held>>

\* findOne({idempotencyKey}), anybody's.
OpenKey(r) ==
    LET taken == \E d \in opened : d.key = call[r].key
    IN  /\ At(r, "createAccount", "key")
        /\ \/ ~taken /\ Goto(r, "count")
           \/ taken /\ Reply(r, "failed")
        /\ UNCHANGED <<lifeVars, openingVars, call, held>>

\* History: another request of the user is between its checks and its commit.
Crowds(r) ==
    \E q \in Requests \ {r} : At(q, "createAccount", "commit") /\ call[q].user = call[r].user

\* Mutant: the limit is off by one.
OpenCountLoose(r) ==
    LET u == call[r].user
        mine == AccountsOf(u, opened)
    IN  /\ At(r, "createAccount", "count")
        /\ \/ /\ Cardinality(mine) =< MaxAccounts
              /\ call[r].accountType = "savings" => Savings(mine) = {}
              /\ crowded' = IF Crowds(r) THEN crowded \cup {u} ELSE crowded
              /\ Goto(r, "commit")
           \/ Reply(r, "failed") /\ UNCHANGED crowded
        /\ UNCHANGED <<lifeVars, opened, call, held>>

\* The transaction's reads: the number of accounts, and for a savings account
\* whether the user has one.
OpenCount(r) ==
    LET u == call[r].user
        mine == AccountsOf(u, opened)
        allowed == /\ Cardinality(mine) < MaxAccounts
                   /\ call[r].accountType = "savings" => Savings(mine) = {}
    IN  /\ At(r, "createAccount", "count")
        /\ \/ /\ allowed
              /\ crowded' = IF Crowds(r) THEN crowded \cup {u} ELSE crowded
              /\ Goto(r, "commit")
           \/ ~allowed /\ Reply(r, "failed") /\ UNCHANGED crowded
        /\ UNCHANGED <<lifeVars, opened, call, held>>

NewAccount(r) == [id |-> r, userId |-> call[r].user, key |-> call[r].key,
                  accountType |-> call[r].accountType]

\* Mutant: idempotencyKey has no unique index.
OpenCommitAnyKey(r) ==
    /\ At(r, "createAccount", "commit")
    /\ opened' = opened \cup {NewAccount(r)}
    /\ Goto(r, "enqueue")
    /\ UNCHANGED <<lifeVars, crowded, call, held>>

\* The insert and the commit; a key that has been used since is E11000.
OpenCommit(r) ==
    LET taken == \E d \in opened : d.key = call[r].key
    IN  /\ At(r, "createAccount", "commit")
        /\ \/ /\ ~taken
              /\ opened' = opened \cup {NewAccount(r)}
              /\ Goto(r, "enqueue")
           \/ taken /\ Reply(r, "failed") /\ UNCHANGED opened
        /\ UNCHANGED <<lifeVars, crowded, call, held>>

OpeningNext ==
    \/ \E r \in Requests, c \in OpeningCalls : Middleware(r, c) /\ UNCHANGED openingVars
    \/ \E r \in Requests : OpenUser(r) \/ OpenKey(r) \/ OpenCount(r) \/ OpenCommit(r)

-----------------------------------------------------------------------------
(* Properties.                                                             *)

\* An idempotency key opens one account, whoever sends it how often: of two
\* requests that both found it unused one fails.
KeyOpensOnce == \A d, e \in opened : d.key = e.key /\ d.key # None => d = e

\* Nobody has more accounts than the limit or two savings accounts, unless two
\* of the user's requests were between their checks and their commits at once.
LimitsKept ==
    \A u \in Users \ crowded :
        LET mine == AccountsOf(u, opened)
        IN  /\ Cardinality(mine) =< MaxAccounts
            /\ Cardinality(Savings(mine)) =< 1
=============================================================================
