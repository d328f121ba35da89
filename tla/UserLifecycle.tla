---------------------------- MODULE UserLifecycle ----------------------------
(***************************************************************************)
(* The User documents and the handlers of controller/auth.controller.js    *)
(* that change them: register, activateUser (which verifies an address),   *)
(* deactivateUser, deactivateOwnAccount, requestReactivationOtp and        *)
(* verifyReactivationOtp, with the authMiddleware in front of some.        *)
(*                                                                         *)
(* A request is one execution of a handler.  A handler reads the document, *)
(* changes its copy and saves it: no lock, no version, no transaction.     *)
(* Mongoose writes the fields whose value differs from the one read, so    *)
(* what a save does depends on the copy and on the document.               *)
(***************************************************************************)
EXTENDS Integers, FiniteSets

CONSTANTS
    Requests,   \* executions of the handlers
    Users,      \* email addresses; a user is one of them
    Registered, \* the users who are registered and verified at the start
    None

ASSUME RegisteredAssumption == Registered \subseteq Users

VARIABLES
    user,         \* the User documents
    accessTokens, \* the users whose clients have been given an access token
    pc,           \* where each request's handler is
    call,         \* what each request was called with
    held,         \* what its handler has read and still uses
    answer,       \* its response; a worker that dies has failed, too
    crossed       \* history: users whose reactivation met a deactivation

lifeVars == <<user, accessTokens, crossed>>
requestVars == <<pc, call, held, answer>>

\* The date of deactivation is a field the schema does not default: absent in
\* a new document, null after a reactivation.
UserDocs == [isActive : BOOLEAN, isVerified : BOOLEAN,
             deactivatedAt : {"absent", "null", "date"}]

ASSUME UserNone == None \notin UserDocs

LifeCalls ==
    [op : {"register", "activateUser", "deactivateUser", "deactivateOwnAccount",
           "requestReactivationOtp", "verifyReactivationOtp"},
     user : Users]

\* The handlers whose route is behind authMiddleware.
Protected == {"deactivateUser", "deactivateOwnAccount", "logout", "logoutAllSessions",
              "createAccount"}

LifeInit ==
    /\ user = [u \in Users |->
                  IF u \in Registered
                  THEN [isActive |-> TRUE, isVerified |-> TRUE, deactivatedAt |-> "absent"]
                  ELSE None]
    /\ crossed = {}

RequestInit ==
    /\ pc = [r \in Requests |-> "idle"]
    /\ call = [r \in Requests |-> None]
    /\ held = [r \in Requests |-> None]
    /\ answer = [r \in Requests |-> "none"]

-----------------------------------------------------------------------------
(* What every handler is made of.                                          *)

\* The call arrives and its first await has settled.
Arrive(r, c) ==
    /\ pc[r] = "idle"
    /\ call' = [call EXCEPT ![r] = c]

Goto(r, label) ==
    /\ pc' = [pc EXCEPT ![r] = label]
    /\ UNCHANGED answer

Reply(r, kind) ==
    /\ pc' = [pc EXCEPT ![r] = "done"]
    /\ answer' = [answer EXCEPT ![r] = kind]

Holding(r, doc) == held' = [held EXCEPT ![r] = doc]

At(r, op, label) == pc[r] = label /\ call[r].op = op

\* user.isActive and user.isVerified of a user that exists.
Admitted(u) == user[u] # None /\ user[u].isActive /\ user[u].isVerified

\* authMiddleware: a valid access token, and a user who is active and verified
\* now.  User documents have no tokenVersion and neither do access tokens, so
\* the comparison of the two always holds.
Middleware(r, c) ==
    /\ Arrive(r, c)
    /\ c.op \in Protected
    /\ c.user \in accessTokens
    /\ \/ Admitted(c.user) /\ Goto(r, "enter")
       \/ ~Admitted(c.user) /\ Reply(r, "failed")
    /\ UNCHANGED <<lifeVars, held>>

\* A call of the handler rejects, or its worker dies.
Fail(r) ==
    /\ pc[r] \notin {"idle", "done"}
    /\ Reply(r, "failed")
    /\ UNCHANGED <<lifeVars, call, held>>

-----------------------------------------------------------------------------
(* register.                                                               *)

\* User.findOne({email}).
RegisterFind(r, c) ==
    /\ Arrive(r, c)
    /\ c.op = "register"
    /\ \/ user[c.user] = None /\ Goto(r, "insert")
       \/ user[c.user] # None /\ Reply(r, "failed")
    /\ UNCHANGED <<lifeVars, held>>

\* Mutant: email has no unique index and the later insert wins.
RegisterCreateAnyway(r) ==
    LET u == call[r].user
    IN  /\ At(r, "register", "insert")
        /\ user' = [user EXCEPT ![u] = [isActive |-> TRUE, isVerified |-> FALSE,
                                        deactivatedAt |-> "absent"]]
        /\ Goto(r, "enqueue")
        /\ UNCHANGED <<accessTokens, crossed, call, held>>

\* User.create: the unique index on email lets one of two requests through.
RegisterCreate(r) ==
    LET u == call[r].user
    IN  /\ At(r, "register", "insert")
        /\ \/ /\ user[u] = None
              /\ user' = [user EXCEPT ![u] = [isActive |-> TRUE, isVerified |-> FALSE,
                                              deactivatedAt |-> "absent"]]
              /\ Goto(r, "enqueue")
           \/ /\ user[u] # None
              /\ Reply(r, "failed")
              /\ UNCHANGED user
        /\ UNCHANGED <<accessTokens, crossed, call, held>>

-----------------------------------------------------------------------------
(* The handlers that read, change and save a document.                     *)

\* findOne or findById: go on with a copy of the document.
TakeCopy(r, u) == Holding(r, user[u]) /\ Goto(r, "save")

\* activateUser verifies the access token itself and then the user.
VerifyFind(r, c) ==
    /\ Arrive(r, c)
    /\ c.op = "activateUser"
    /\ c.user \in accessTokens
    /\ \/ ~user[c.user].isVerified /\ TakeCopy(r, c.user)
       \/ user[c.user].isVerified /\ Reply(r, "failed") /\ UNCHANGED held
    /\ UNCHANGED lifeVars

\* deactivateUser acts on req.user.id, whatever :userId says.  A body without a
\* reason makes reason.trim() throw before the save; no role equals "admin".
DeactivateFind(r) ==
    LET u == call[r].user
    IN  /\ At(r, "deactivateUser", "enter")
        /\ \/ user[u].isActive /\ TakeCopy(r, u)
           \/ Reply(r, "failed") /\ UNCHANGED held
        /\ UNCHANGED <<lifeVars, call>>

\* deactivateOwnAccount does not look at isActive again.
DeactivateOwnFind(r) ==
    /\ At(r, "deactivateOwnAccount", "enter")
    /\ TakeCopy(r, call[r].user)
    /\ UNCHANGED <<lifeVars, call>>

\* requestReactivationOtp: isActive is a Boolean and never equals "active", so
\* active users pass.  The OTP it sends, and every failure on the way to the
\* save, is left to Fail.
ReactivateFind(r, c) ==
    /\ Arrive(r, c)
    /\ c.op = "requestReactivationOtp"
    /\ \/ user[c.user] # None /\ TakeCopy(r, c.user)
       \/ user[c.user] = None /\ Reply(r, "failed") /\ UNCHANGED held
    /\ UNCHANGED lifeVars

\* verifyReactivationOtp compares a field OTP documents do not have with the
\* code it was given, so no code is ever the right one.
VerifyReactivation(r, c) ==
    /\ Arrive(r, c)
    /\ c.op = "verifyReactivationOtp"
    /\ Reply(r, "failed")
    /\ UNCHANGED <<lifeVars, held>>

Deactivations == {"deactivateUser", "deactivateOwnAccount"}

\* Mutant: the whole copy is written back.
WrittenWhole(op, read, doc) ==
    CASE op = "activateUser" -> [read EXCEPT !.isVerified = TRUE]
      [] op \in Deactivations -> [read EXCEPT !.isActive = FALSE, !.deactivatedAt = "date"]
      [] OTHER -> [read EXCEPT !.isActive = TRUE, !.deactivatedAt = "null"]

\* Mutant: a deactivation keeps no date.
WrittenUndated(op, read, doc) ==
    CASE op = "activateUser" -> [doc EXCEPT !.isVerified = TRUE]
      [] op \in Deactivations -> [doc EXCEPT !.isActive = FALSE]
      [] OTHER -> [doc EXCEPT !.isActive = TRUE]

\* What save() makes of the document, given the copy it was read into: only
\* the assigned fields whose value differs from the one read.
Written(op, read, doc) ==
    CASE op = "activateUser" -> [doc EXCEPT !.isVerified = TRUE]
      [] op \in Deactivations ->
            [doc EXCEPT !.isActive = IF read.isActive THEN FALSE ELSE @,
                        !.deactivatedAt = "date"]
      [] OTHER ->
            [doc EXCEPT !.isActive = IF read.isActive THEN @ ELSE TRUE,
                        !.deactivatedAt = IF read.deactivatedAt = "null" THEN @ ELSE "null"]

\* History: at a save of request r on user u, a handler of the opposite sense
\* holds a copy of the same document.
Crossing(r, u) ==
    \E q \in Requests \ {r} :
        /\ pc[q] = "save" /\ call[q].user = u
        /\ \/ call[r].op \in Deactivations /\ call[q].op = "requestReactivationOtp"
           \/ call[r].op = "requestReactivationOtp" /\ call[q].op \in Deactivations

\* user.save().
Save(r) ==
    LET u == call[r].user
    IN  /\ pc[r] = "save"
        /\ user' = [user EXCEPT ![u] = Written(call[r].op, held[r], @)]
        /\ crossed' = IF Crossing(r, u) THEN crossed \cup {u} ELSE crossed
        /\ Goto(r, "enqueue")
        /\ UNCHANGED <<accessTokens, call, held>>

\* emailQueue.add, and the success response.
Enqueue(r) ==
    /\ pc[r] = "enqueue"
    /\ Reply(r, "ok")
    /\ UNCHANGED <<lifeVars, call, held>>

-----------------------------------------------------------------------------
LifeNext ==
    \/ \E r \in Requests, c \in LifeCalls :
          \/ RegisterFind(r, c)
          \/ VerifyFind(r, c)
          \/ ReactivateFind(r, c)
          \/ VerifyReactivation(r, c)
          \/ Middleware(r, c)
    \/ \E r \in Requests :
          \/ RegisterCreate(r)
          \/ DeactivateFind(r)
          \/ DeactivateOwnFind(r)
          \/ Save(r)
          \/ Enqueue(r)
          \/ Fail(r)

-----------------------------------------------------------------------------
(* Properties.                                                             *)

\* One address is registered by one request: of two that both found it free,
\* the other is told that it failed, and neither overwrites the user's document.
OneRegistration ==
    \A r, q \in Requests :
        /\ answer[r] = "ok" /\ answer[q] = "ok"
        /\ call[r].op = "register" /\ call[q].op = "register"
        /\ call[r].user = call[q].user
        => r = q

\* A deactivated user becomes active only by a reactivation that had read the
\* user as inactive: the late save of any other handler, whose copy is from
\* before the deactivation, leaves the user out.
NoResurrection ==
    [][\A u \in Users :
          user[u] # None /\ user'[u] # user[u] /\ ~user[u].isActive /\ user'[u].isActive =>
              \E r \in Requests : /\ pc[r] = "save" /\ pc'[r] = "enqueue"
                                  /\ call[r].op = "requestReactivationOtp"
                                  /\ ~held[r].isActive]_<<user, requestVars>>

\* An inactive user has a date of deactivation, unless a reactivation and a
\* deactivation worked on copies of the document at the same time.
DeactivationDated ==
    \A u \in Users :
        user[u] # None /\ ~user[u].isActive => user[u].deactivatedAt = "date" \/ u \in crossed
=============================================================================
