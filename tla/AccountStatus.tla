---------------------------- MODULE AccountStatus ----------------------------
(***************************************************************************)
(* freezeAccount and unfreezeAccount of controller/account.controller.js:  *)
(* the account document is fetched, checked, changed in memory and saved.  *)
(* The save carries the version read (optimisticConcurrency of the schema) *)
(* and fails if the document has been written since.  Nothing else ties    *)
(* the two calls together: no lock and no MongoDB transaction.             *)
(***************************************************************************)
EXTENDS Integers

CONSTANTS
    StatusRequests, \* executions of the two handlers
    Users,
    Accounts,
    Owner,          \* account -> its userId
    None

VARIABLES
    account,     \* the BankAccount documents, shared with the engine
    statusPc,    \* where each handler is
    statusInput, \* what it was called with
    fetched,     \* the document it holds between findOne and save
    statusReply  \* its response; a worker that dies has failed, too

statusVars == <<statusPc, statusInput, fetched, statusReply>>

StatusInputs == [op : {"freeze", "unfreeze"}, userId : Users, account : Accounts]

\* The status an operation looks for and the one it leaves.
Before(op) == IF op = "freeze" THEN "active" ELSE "suspended"
After(op) == IF op = "freeze" THEN "suspended" ELSE "active"

StatusInit ==
    /\ statusPc = [q \in StatusRequests |-> "idle"]
    /\ statusInput = [q \in StatusRequests |-> None]
    /\ fetched = [q \in StatusRequests |-> None]
    /\ statusReply = [q \in StatusRequests |-> "none"]

\* findOne({_id, userId}) and the checks on the document it returns: nobody
\* else's account, no closed account, and only from the expected status.
Fetch(q, i) ==
    LET doc == account[i.account]
    IN  /\ statusPc[q] = "idle"
        /\ statusInput' = [statusInput EXCEPT ![q] = i]
        /\ \/ /\ Owner[i.account] = i.userId
              /\ doc.isActive = Before(i.op)
              /\ fetched' = [fetched EXCEPT ![q] = doc]
              /\ statusPc' = [statusPc EXCEPT ![q] = "save"]
              /\ UNCHANGED statusReply
           \/ /\ Owner[i.account] # i.userId \/ doc.isActive # Before(i.op)
              /\ statusReply' = [statusReply EXCEPT ![q] = "failed"]
              /\ statusPc' = [statusPc EXCEPT ![q] = "done"]
              /\ UNCHANGED fetched
        /\ UNCHANGED account

\* Mutant: a save without the version in its filter.
SaveUnversioned(q) ==
    LET i == statusInput[q]
    IN  /\ statusPc[q] = "save"
        /\ account' = [account EXCEPT ![i.account].isActive = After(i.op),
                                      ![i.account].v = @ + 1]
        /\ statusReply' = [statusReply EXCEPT ![q] = "ok"]
        /\ statusPc' = [statusPc EXCEPT ![q] = "done"]
        /\ fetched' = [fetched EXCEPT ![q] = None]
        /\ UNCHANGED statusInput

\* account.save(): an update of the one changed field, filtered by the version.
\* The acknowledgement of the update may be lost, and the worker may die.
Save(q) ==
    LET i == statusInput[q]
    IN  /\ statusPc[q] = "save"
        /\ account[i.account].v = fetched[q].v
        /\ account' = [account EXCEPT ![i.account].isActive = After(i.op),
                                      ![i.account].v = @ + 1]
        /\ \E answer \in {"ok", "failed"} :
              statusReply' = [statusReply EXCEPT ![q] = answer]
        /\ statusPc' = [statusPc EXCEPT ![q] = "done"]
        /\ fetched' = [fetched EXCEPT ![q] = None]
        /\ UNCHANGED statusInput

\* The save rejects, with a VersionError or a database failure, or the worker
\* dies before it.
SaveFails(q) ==
    /\ statusPc[q] = "save"
    /\ statusReply' = [statusReply EXCEPT ![q] = "failed"]
    /\ statusPc' = [statusPc EXCEPT ![q] = "done"]
    /\ fetched' = [fetched EXCEPT ![q] = None]
    /\ UNCHANGED <<account, statusInput>>

StatusNext ==
    \/ \E q \in StatusRequests, i \in StatusInputs : Fetch(q, i)
    \/ \E q \in StatusRequests : Save(q) \/ SaveFails(q)
=============================================================================
