------------------------------- MODULE Sessions -------------------------------
(***************************************************************************)
(* Refresh tokens and the handlers of controller/auth.controller.js that   *)
(* store, rotate and revoke them: login, refreshToken, logout and          *)
(* logoutAllSessions.  A token is named by the request that stores it and  *)
(* its family by the token a login started it with.  The handlers look a   *)
(* token up, decide, and write it later: no lock, no transaction.          *)
(***************************************************************************)
EXTENDS UserLifecycle

CONSTANTS
    Opened,  \* tokens of sessions opened before the run
    OpenedBy \* such a token -> its user

Tokens == Requests \cup Opened

ASSUME OpenedAssumption ==
    /\ OpenedBy \in [Opened -> Registered]
    /\ Opened \cap Requests = {}
    /\ None \notin Tokens \cup Users

VARIABLES
    tokens,  \* the RefreshToken documents
    scope,   \* the tokens an updateMany of a request has found
    lineage, \* history: what was stored as each token, kept when it is gone
    raced    \* history: families two refreshes of one token met in

sessionVars == <<tokens, scope, lineage, raced>>

TokenDocs == [userId : Users, family : Tokens, isRevoked : BOOLEAN]

ASSUME TokenNone == None \notin TokenDocs

SessionCalls ==
    [op : {"login", "logoutAllSessions"}, user : Users]
      \cup [op : {"refreshToken"}, token : Tokens]
      \cup [op : {"logout"}, user : Users, token : Tokens \cup {None}]

FirstDoc(t) == [userId |-> OpenedBy[t], family |-> t, isRevoked |-> FALSE]

SessionInit ==
    /\ tokens = [t \in Tokens |-> IF t \in Opened THEN FirstDoc(t) ELSE None]
    /\ scope = [r \in Requests |-> {}]
    /\ lineage = tokens
    /\ raced = {}
    /\ accessTokens = {OpenedBy[t] : t \in Opened}

Live(t) == tokens[t] # None /\ ~tokens[t].isRevoked

Revoke(t) == tokens' = [tokens EXCEPT ![t].isRevoked = TRUE]

\* A client holds a refresh token if it was answered with it.
Delivered(t) ==
    \/ t \in Opened
    \/ t \in Requests /\ answer[t] = "ok" /\ call[t].op \in {"login", "refreshToken"}

\* RefreshToken.create, and the response with both tokens unless it is lost.
Store(r, u, family) ==
    LET doc == [userId |-> u, family |-> family, isRevoked |-> FALSE]
    IN  /\ tokens' = [tokens EXCEPT ![r] = doc]
        /\ lineage' = [lineage EXCEPT ![r] = doc]
        /\ \/ Reply(r, "ok") /\ accessTokens' = accessTokens \cup {u}
           \/ Reply(r, "failed") /\ UNCHANGED accessTokens
        /\ UNCHANGED <<user, crossed, call, held, scope, raced>>

-----------------------------------------------------------------------------
(* login.                                                                  *)

\* User.findOne; an unknown or inactive user and a wrong password are refused.
\* The password is compared with the copy just read.
LoginFind(r, c) ==
    /\ Arrive(r, c)
    /\ c.op = "login"
    /\ \/ /\ user[c.user] # None
          /\ user[c.user].isActive
          /\ Holding(r, user[c.user])
          /\ Goto(r, "store")
       \/ Reply(r, "failed") /\ UNCHANGED held
    /\ UNCHANGED <<lifeVars, sessionVars>>

\* Mutant: the user's id in the place of a new UUID.
LoginStoreByUser(r) == At(r, "login", "store") /\ Store(r, call[r].user, call[r].user)

\* The first token of a new family.
LoginStore(r) == At(r, "login", "store") /\ Store(r, call[r].user, r)

-----------------------------------------------------------------------------
(* refreshToken.                                                           *)

\* History: request r finds token t live while another holds it, found live.
Meets(r, t) ==
    \E q \in Requests \ {r} :
        /\ pc[q] \in {"user", "spend"}
        /\ call[q].op = "refreshToken"
        /\ call[q].token = t

\* Mutant: isRevoked is not looked at.
RefreshFindAny(r, c) ==
    LET t == c.token
    IN  /\ Arrive(r, c)
        /\ c.op = "refreshToken"
        /\ Delivered(t)
        /\ tokens[t] # None
        /\ Holding(r, tokens[t])
        /\ raced' = IF Meets(r, t) THEN raced \cup {tokens[t].family} ELSE raced
        /\ Goto(r, "user")
        /\ UNCHANGED <<lifeVars, tokens, scope, lineage>>

\* RefreshToken.findOne: an unknown token is refused, a revoked one has its
\* whole family looked up to be revoked, and a live one may have expired.
RefreshFind(r, c) ==
    LET t == c.token
    IN  /\ Arrive(r, c)
        /\ c.op = "refreshToken"
        /\ Delivered(t)
        /\ \/ /\ tokens[t] = None \/ Live(t)
              /\ Reply(r, "failed")
              /\ UNCHANGED <<held, scope, raced>>
           \/ /\ Live(t)
              /\ Holding(r, tokens[t])
              /\ raced' = IF Meets(r, t) THEN raced \cup {tokens[t].family} ELSE raced
              /\ Goto(r, "user")
              /\ UNCHANGED scope
           \/ /\ tokens[t] # None /\ ~Live(t)
              /\ Holding(r, tokens[t])
              /\ scope' = [scope EXCEPT ![r] =
                              {x \in Tokens : Live(x) /\ tokens[x].family = tokens[t].family}]
              /\ Goto(r, "revoke")
              /\ UNCHANGED raced
        /\ UNCHANGED <<lifeVars, tokens, lineage>>

\* Mutant: the user is not looked at.
RefreshAnyUser(r) ==
    /\ At(r, "refreshToken", "user")
    /\ Goto(r, "spend")
    /\ UNCHANGED <<lifeVars, sessionVars, call, held>>

\* User.findById: only an active user goes on.
RefreshUser(r) ==
    /\ At(r, "refreshToken", "user")
    /\ \/ user[held[r].userId].isActive /\ Goto(r, "spend")
       \/ ~user[held[r].userId].isActive /\ Reply(r, "failed")
    /\ UNCHANGED <<lifeVars, sessionVars, call, held>>

\* Mutant: the presented token is left to expire.
RefreshSpendNothing(r) ==
    /\ At(r, "refreshToken", "spend")
    /\ Goto(r, "store")
    /\ UNCHANGED <<lifeVars, sessionVars, call, held>>

\* storedToken.save() sets isRevoked, whoever has set it since; it throws if
\* the TTL index has removed the document.
RefreshSpend(r) ==
    LET t == call[r].token
    IN  /\ At(r, "refreshToken", "spend")
        /\ \/ tokens[t] # None /\ Revoke(t) /\ Goto(r, "store")
           \/ tokens[t] = None /\ Reply(r, "failed") /\ UNCHANGED tokens
        /\ UNCHANGED <<lifeVars, scope, lineage, raced, call, held>>

\* The successor joins the family.
RefreshStore(r) ==
    At(r, "refreshToken", "store") /\ Store(r, held[r].userId, held[r].family)

-----------------------------------------------------------------------------
(* Revocations.                                                            *)

\* logout and logoutAllSessions are called; a cookie is one a client was given.
Enter(r, c) ==
    /\ c.op = "logout" /\ c.token # None => Delivered(c.token)
    /\ Middleware(r, c)
    /\ UNCHANGED sessionVars

\* findOneAndUpdate of the token in the cookie, anybody's; none is no error.  Its
\* answer may be lost.
Logout(r) ==
    LET t == call[r].token
    IN  /\ At(r, "logout", "enter")
        /\ IF t # None /\ tokens[t] # None THEN Revoke(t) ELSE UNCHANGED tokens
        /\ Reply(r, "ok") \/ Reply(r, "failed")
        /\ UNCHANGED <<lifeVars, scope, lineage, raced, call, held>>

\* logoutAllSessions starts its updateMany.
LogoutAllFind(r) ==
    /\ At(r, "logoutAllSessions", "enter")
    /\ scope' = [scope EXCEPT ![r] =
                    {x \in Tokens : Live(x) /\ tokens[x].userId = call[r].user}]
    /\ Goto(r, "revoke")
    /\ UNCHANGED <<lifeVars, tokens, lineage, raced, call, held>>

\* The documents the filter of a request's updateMany matches.
Matches(r, t) ==
    /\ Live(t)
    /\ IF call[r].op = "refreshToken" THEN tokens[t].family = held[r].family
       ELSE tokens[t].userId = call[r].user

\* updateMany takes the documents one at a time; one that is inserted while it
\* runs may be found or missed.
RevokeOne(r, t) ==
    /\ pc[r] = "revoke"
    /\ Matches(r, t)
    /\ Revoke(t)
    /\ UNCHANGED <<lifeVars, scope, lineage, raced, requestVars>>

\* Mutant: updateOne in the place of updateMany.
RevokeEndEarly(r) ==
    /\ pc[r] = "revoke"
    /\ scope[r] = {} \/ \E t \in scope[r] : ~Live(t)
    /\ Reply(r, IF call[r].op = "refreshToken" THEN "reuse" ELSE "ok")
    /\ UNCHANGED <<lifeVars, sessionVars, call, held>>

\* All that was there when it started is revoked or gone.
RevokeEnd(r) ==
    /\ pc[r] = "revoke"
    /\ \A t \in scope[r] : ~Live(t)
    /\ Reply(r, IF call[r].op = "refreshToken" THEN "reuse" ELSE "ok")
    /\ UNCHANGED <<lifeVars, sessionVars, call, held>>

-----------------------------------------------------------------------------
(* Time.                                                                   *)

\* The TTL index on expiresAt.  Clocks are not modelled: a token expires and is
\* removed at any time.
TokenReap(t) ==
    /\ tokens[t] # None
    /\ tokens' = [tokens EXCEPT ![t] = None]
    /\ UNCHANGED <<lifeVars, requestVars, scope, lineage, raced>>

-----------------------------------------------------------------------------
SessionNext ==
    \/ \E r \in Requests, c \in SessionCalls :
          \/ LoginFind(r, c)
          \/ RefreshFind(r, c)
          \/ Enter(r, c)
    \/ \E r \in Requests :
          \/ LoginStore(r)
          \/ RefreshUser(r)
          \/ RefreshSpend(r)
          \/ RefreshStore(r)
          \/ Logout(r)
          \/ LogoutAllFind(r)
          \/ RevokeEnd(r)
          \/ \E t \in Tokens : RevokeOne(r, t)
    \/ \E t \in Tokens : TokenReap(t)

-----------------------------------------------------------------------------
(* Properties.                                                             *)

FamilyOf(t) == lineage[t].family

\* A session has one live token at most, unless two refreshes have held the
\* same token at the same time: a refresh that fails half way, a logout or a
\* reuse answer in between never leave a second one behind.
OneLivePerFamily ==
    \A t, x \in Tokens :
        Live(t) /\ Live(x) /\ FamilyOf(t) = FamilyOf(x) => t = x \/ FamilyOf(t) \in raced

\* What a logout of all sessions or a detected reuse has found live is dead
\* from its answer on; no refresh under way brings any of it back.
InvalidatedStayDead ==
    \A r \in Requests :
        \/ answer[r] = "reuse"
        \/ answer[r] = "ok" /\ call[r].op = "logoutAllSessions"
        => \A t \in scope[r] : ~Live(t)

\* "The entire token family is invalidated": after a reuse has been answered
\* no token of the family is live.
ReuseEndsFamily ==
    \A r \in Requests, t \in Tokens :
        answer[r] = "reuse" /\ lineage[t] # None /\ FamilyOf(t) = held[r].family => ~Live(t)
=============================================================================
