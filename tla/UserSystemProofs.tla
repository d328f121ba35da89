--------------------------- MODULE UserSystemProofs ---------------------------
(* Theorems about UserSystem: users, sessions and the opening of accounts,  *)
(* for all values of the constants.                                         *)
EXTENDS UserSystem, FiniteSetTheorems, TLAPS

Calls == LifeCalls \cup SessionCalls \cup OpeningCalls
Saving == Deactivations \cup {"activateUser", "requestReactivationOtp"}
Labels == {"idle", "enter", "insert", "save", "enqueue", "store", "user", "spend",
           "revoke", "key", "count", "commit", "done"}
Copies == UserDocs \cup TokenDocs \cup {None}
Answers == {"none", "ok", "failed", "reuse"}

\* A handler at label p that was called with c, holds h and has answered a fits
\* the User documents docs.
Fits(p, c, h, a, docs) ==
    /\ p # "done" => a = "none"
    /\ p # "idle" => c \in Calls
    /\ p = "enter" => c.op \in Protected
    /\ p = "insert" => c.op = "register"
    /\ p = "save" => c.op \in Saving /\ h \in UserDocs
    /\ p = "store" => c.op \in {"login", "refreshToken"}
    /\ p \in {"user", "spend"} => c.op = "refreshToken"
    /\ p = "revoke" => c.op \in {"refreshToken", "logoutAllSessions"}
    /\ p = "enqueue" => c.op \in Saving \cup {"register", "createAccount"}
    /\ p \in {"key", "count", "commit"} => c.op = "createAccount"
    /\ p \in {"enter", "save"} => docs[c.user] # None
    /\ p = "store" /\ c.op = "login" => docs[c.user] # None
    /\ p \in {"user", "spend", "store", "revoke"} /\ c.op = "refreshToken" =>
           h \in TokenDocs /\ docs[h.userId] # None

RequestsTyped ==
    /\ pc \in [Requests -> Labels]
    /\ call \in [Requests -> Calls \cup {None}]
    /\ held \in [Requests -> Copies]
    /\ answer \in [Requests -> Answers]

UsersTyped ==
    /\ user \in [Users -> UserDocs \cup {None}]
    /\ accessTokens \subseteq Users
    /\ crossed \subseteq Users
    /\ \A u \in accessTokens : user[u] # None

TokensTyped ==
    /\ tokens \in [Tokens -> TokenDocs \cup {None}]
    /\ scope \in [Requests -> SUBSET Tokens]
    /\ lineage \in [Tokens -> TokenDocs \cup {None}]
    /\ raced \subseteq Tokens
    /\ \A t \in Tokens : tokens[t] # None => user[tokens[t].userId] # None

OpeningTyped ==
    /\ opened \subseteq AccountDocs
    /\ crowded \subseteq Users

\* Types, and what a handler's label says of its call, its copy and the users.
TypeInv ==
    /\ RequestsTyped
    /\ UsersTyped
    /\ TokensTyped
    /\ OpeningTyped
    /\ activeDuring \in [Requests -> SUBSET Users]
    /\ \A r \in Requests : Fits(pc[r], call[r], held[r], answer[r], user)

LEMMA TypeInvMeans == TypeInv => TypeOK
BY DEF TypeInv, RequestsTyped, UsersTyped, TokensTyped, OpeningTyped, TypeOK, Labels, Calls,
       Copies, Answers

-----------------------------------------------------------------------------
\* What a call has, by its operation.
LEMMA CallFacts ==
    ASSUME NEW c \in Calls
    PROVE  /\ c.op # "refreshToken" => c.user \in Users
           /\ c.op = "refreshToken" => c.token \in Tokens
           /\ c.op = "logout" => c.token \in Tokens \cup {None}
           /\ c.op = "createAccount" => c.key \in Keys /\ c.accountType \in AccountTypes
<1>1. CASE c \in LifeCalls BY <1>1 DEF LifeCalls
<1>2. CASE c \in SessionCalls BY <1>2 DEF SessionCalls
<1>3. CASE c \in OpeningCalls BY <1>3 DEF OpeningCalls
<1> QED BY <1>1, <1>2, <1>3 DEF Calls

LEMMA InitTyped == Init => TypeInv
<1> SUFFICES ASSUME Init PROVE TypeInv OBVIOUS
<1>1. RequestsTyped /\ \A r \in Requests : Fits(pc[r], call[r], held[r], answer[r], user)
  BY DEF Init, RequestInit, RequestsTyped, Fits, Labels, Copies, Answers
<1> DEFINE First == [isActive |-> TRUE, isVerified |-> TRUE, deactivatedAt |-> "absent"]
<1>0. First \in UserDocs BY DEF UserDocs
<1>a. First \in UserDocs /\ First # None BY <1>0, UserNone
<1>b. user = [u \in Users |-> IF u \in Registered THEN First ELSE None] /\ crossed = {}
  BY DEF Init, LifeInit
<1>c. accessTokens = {OpenedBy[t] : t \in Opened} BY DEF Init, SessionInit
<1>d. \A t \in Opened : OpenedBy[t] \in Registered BY OpenedAssumption
<1> HIDE DEF First
<1>2. UsersTyped BY <1>a, <1>b, <1>c, <1>d, RegisteredAssumption DEF UsersTyped
<1>3. \A t \in Opened : FirstDoc(t) \in TokenDocs /\ user[OpenedBy[t]] # None
                            /\ FirstDoc(t).userId = OpenedBy[t]
  BY <1>a, <1>b, <1>d, RegisteredAssumption DEF FirstDoc, TokenDocs, Tokens
<1>4. TokensTyped
  BY <1>3, OpenedAssumption DEF Init, SessionInit, TokensTyped, FirstDoc
<1>5. OpeningTyped BY ExistingAssumption DEF Init, OpeningInit, OpeningTyped
<1> QED BY <1>1, <1>2, <1>4, <1>5 DEF Init, TypeInv

\* The step is request r's.
Only(r) ==
    \A q \in Requests \ {r} :
        pc'[q] = pc[q] /\ call'[q] = call[q] /\ held'[q] = held[q] /\ answer'[q] = answer[q]

\* No user document goes away.
UsersStay == \A u \in Users : user[u] # None => user'[u] # None

\* Request r takes a typed step and fits afterwards.
Moves(r) ==
    /\ RequestsTyped'
    /\ Only(r)
    /\ Fits(pc'[r], call'[r], held'[r], answer'[r], user')

LEMMA OthersFit ==
    ASSUME TypeInv, UsersStay, NEW r \in Requests, Moves(r), NEW q \in Requests
    PROVE  Fits(pc'[q], call'[q], held'[q], answer'[q], user')
<1>1. CASE q = r BY <1>1 DEF Moves
<1>2. CASE q # r
  <2>1. /\ pc'[q] = pc[q] /\ call'[q] = call[q] /\ held'[q] = held[q] /\ answer'[q] = answer[q]
    BY <1>2 DEF Moves, Only
  <2>2. Fits(pc[q], call[q], held[q], answer[q], user) BY DEF TypeInv
  <2>3. pc[q] # "idle" /\ call[q].op # "refreshToken" => call[q].user \in Users
    BY <2>2, CallFacts DEF Fits
  <2>4. \A h \in TokenDocs : h.userId \in Users BY DEF TokenDocs
  <2>5. \A u \in Users : user[u] # None => user'[u] # None BY DEF UsersStay
  <2> HIDE DEF UsersStay
  <2>6. Fits(pc[q], call[q], held[q], answer[q], user')
    BY <2>2, <2>3, <2>4, <2>5 DEF Fits, Protected, Saving, Deactivations
  <2> QED BY <2>1, <2>6
<1> QED BY <1>1, <1>2

LEMMA WatchTyped == ASSUME TypeInv, Watch PROVE activeDuring' \in [Requests -> SUBSET Users]
BY DEF TypeInv, Watch, ActiveUsers

LEMMA StepTyped ==
    ASSUME TypeInv, Watch, NEW r \in Requests, Moves(r), UsersStay,
           UsersTyped', TokensTyped', OpeningTyped'
    PROVE  TypeInv'
<1>1. \A q \in Requests : Fits(pc'[q], call'[q], held'[q], answer'[q], user') BY OthersFit
<1>2. activeDuring' \in [Requests -> SUBSET Users] BY WatchTyped
<1> QED BY <1>1, <1>2 DEF TypeInv, Moves

-----------------------------------------------------------------------------
(* Request r's step leaves the documents alone.                             *)

\* A call, by the handler that may make it.
LEMMA CallKinds ==
    /\ \A c \in LifeCalls \cup SessionCalls \cup OpeningCalls : c \in Calls
    /\ \A c \in LifeCalls : c.user \in Users
    /\ \A c \in OpeningCalls : c.user \in Users
    /\ \A c \in SessionCalls : c.op # "refreshToken" => c.user \in Users
BY CallFacts DEF Calls, LifeCalls, OpeningCalls, SessionCalls

\* Only r's call and copy change, and to values of their types.
OthersCalls(r) ==
    /\ call' \in [Requests -> Calls \cup {None}]
    /\ held' \in [Requests -> Copies]
    /\ \A q \in Requests \ {r} : call'[q] = call[q] /\ held'[q] = held[q]

LEMMA CallKept ==
    ASSUME RequestsTyped, NEW r \in Requests, UNCHANGED call, UNCHANGED held
    PROVE  OthersCalls(r)
BY DEF RequestsTyped, OthersCalls

LEMMA CallArrives ==
    ASSUME RequestsTyped, NEW r \in Requests, NEW c \in Calls, Arrive(r, c), UNCHANGED held
    PROVE  OthersCalls(r) /\ call'[r] = c
BY DEF RequestsTyped, OthersCalls, Arrive

LEMMA CallHolds ==
    ASSUME RequestsTyped, NEW r \in Requests, NEW h \in Copies, Holding(r, h), UNCHANGED call
    PROVE  OthersCalls(r) /\ held'[r] = h
BY DEF RequestsTyped, OthersCalls, Holding

LEMMA CallArrivesHolding ==
    ASSUME RequestsTyped, NEW r \in Requests, NEW c \in Calls, Arrive(r, c),
           NEW h \in Copies, Holding(r, h)
    PROVE  OthersCalls(r) /\ call'[r] = c /\ held'[r] = h
BY DEF RequestsTyped, OthersCalls, Arrive, Holding

\* The two ways in which a step of a handler ends.
LEMMA GotoMoves ==
    ASSUME RequestsTyped, NEW r \in Requests, NEW label \in Labels, Goto(r, label),
           OthersCalls(r), Fits(label, call'[r], held'[r], answer[r], user')
    PROVE  Moves(r)
<1>1. RequestsTyped' BY DEF RequestsTyped, OthersCalls, Goto
<1>2. Only(r) BY DEF RequestsTyped, OthersCalls, Goto, Only
<1>3. pc'[r] = label /\ answer'[r] = answer[r] BY DEF RequestsTyped, Goto
<1> QED BY <1>1, <1>2, <1>3 DEF Moves

LEMMA ReplyMoves ==
    ASSUME RequestsTyped, NEW r \in Requests, NEW kind \in Answers, Reply(r, kind),
           OthersCalls(r), call'[r] \in Calls
    PROVE  Moves(r)
<1>1. RequestsTyped' BY DEF RequestsTyped, OthersCalls, Reply, Labels
<1>2. Only(r) BY DEF RequestsTyped, OthersCalls, Reply, Only
<1>3. Fits(pc'[r], call'[r], held'[r], answer'[r], user') BY DEF RequestsTyped, Reply, Fits
<1> QED BY <1>1, <1>2, <1>3 DEF Moves

\* What TypeInv says of r.
LEMMA Here ==
    ASSUME TypeInv, NEW r \in Requests
    PROVE  /\ RequestsTyped /\ UsersTyped /\ TokensTyped /\ OpeningTyped
           /\ Fits(pc[r], call[r], held[r], answer[r], user)
           /\ pc[r] # "idle" => call[r] \in Calls
BY DEF TypeInv, Fits

\* The middleware, in front of any of the handlers.
LEMMA MiddlewareMoves ==
    ASSUME TypeInv, NEW r \in Requests, NEW c \in Calls, Middleware(r, c)
    PROVE  Moves(r)
<1>1. RequestsTyped /\ UsersTyped /\ Fits(pc[r], call[r], held[r], answer[r], user) BY Here
<1>2. Arrive(r, c) /\ UNCHANGED held /\ UNCHANGED user BY DEF Middleware, lifeVars
<1>3. OthersCalls(r) /\ call'[r] = c BY <1>1, <1>2, CallArrives
<1>4. CASE Goto(r, "enter")
  <2>1. Fits("enter", c, held'[r], answer[r], user')
    BY <1>1, <1>2 DEF Fits, Middleware, Arrive, UsersTyped
  <2> QED BY <1>1, <1>3, <1>4, <2>1, GotoMoves DEF Labels
<1>5. CASE Reply(r, "failed") BY <1>1, <1>3, <1>5, ReplyMoves DEF Answers
<1> QED BY <1>4, <1>5 DEF Middleware

LEMMA FailMoves ==
    ASSUME TypeInv, NEW r \in Requests, Fail(r)
    PROVE  Moves(r)
<1>1. RequestsTyped /\ OthersCalls(r) BY Here, CallKept DEF Fail
<1>2. call'[r] \in Calls BY Here DEF Fail
<1> QED BY <1>1, <1>2, ReplyMoves DEF Fail, Answers

LEMMA RegisterFindMoves ==
    ASSUME TypeInv, NEW r \in Requests, NEW c \in Calls, RegisterFind(r, c)
    PROVE  Moves(r)
<1>1. RequestsTyped /\ OthersCalls(r) /\ call'[r] = c BY Here, CallArrives DEF RegisterFind
<1>2. CASE Goto(r, "insert")
  <2>1. Fits("insert", c, held'[r], answer[r], user')
    BY Here DEF Fits, RegisterFind, Arrive
  <2> QED BY <1>1, <1>2, <2>1, GotoMoves DEF Labels
<1>3. CASE Reply(r, "failed") BY <1>1, <1>3, ReplyMoves DEF Answers
<1> QED BY <1>2, <1>3 DEF RegisterFind

LEMMA RegisterCreateMoves ==
    ASSUME TypeInv, NEW r \in Requests, RegisterCreate(r)
    PROVE  Moves(r)
<1>1. RequestsTyped /\ OthersCalls(r) BY Here, CallKept DEF RegisterCreate
<1>2. call'[r] \in Calls /\ call'[r] = call[r] /\ pc[r] = "insert"
  BY Here DEF RegisterCreate, At
<1>3. CASE Goto(r, "enqueue")
  <2>1. Fits("enqueue", call'[r], held'[r], answer[r], user') BY <1>2, Here DEF Fits
  <2> QED BY <1>1, <1>3, <2>1, GotoMoves DEF Labels
<1>4. CASE Reply(r, "failed") BY <1>1, <1>2, <1>4, ReplyMoves DEF Answers
<1> QED BY <1>3, <1>4 DEF RegisterCreate

\* A copy of an existing document is taken.
LEMMA TakeCopyMoves ==
    ASSUME TypeInv, NEW r \in Requests, UNCHANGED user, NEW u \in Users, user[u] # None,
           pc[r] # "done",
           TakeCopy(r, u), OthersCalls(r),
           call'[r] \in Calls, call'[r].op \in Saving, call'[r].user = u, held'[r] = user[u]
    PROVE  Moves(r)
<1>1. user[u] \in UserDocs BY Here DEF UsersTyped
<1>2. Fits("save", call'[r], held'[r], answer[r], user')
  BY <1>1, Here DEF Fits, Saving, Deactivations
<1> QED BY <1>2, Here, GotoMoves DEF TakeCopy, Labels

LEMMA VerifyFindMoves ==
    ASSUME TypeInv, NEW r \in Requests, NEW c \in Calls, VerifyFind(r, c)
    PROVE  Moves(r)
<1>1. RequestsTyped /\ UsersTyped BY Here
<1>2. c.user \in Users /\ user[c.user] # None /\ user[c.user] \in Copies
      /\ UNCHANGED user /\ pc[r] # "done"
  BY <1>1 DEF VerifyFind, UsersTyped, lifeVars, Copies, Arrive
<1>3. CASE TakeCopy(r, c.user)
  <2>1. OthersCalls(r) /\ call'[r] = c /\ held'[r] = user[c.user]
    BY <1>1, <1>2, <1>3, CallArrivesHolding DEF VerifyFind, TakeCopy
  <2> QED BY <1>2, <1>3, <2>1, TakeCopyMoves DEF VerifyFind, Saving
<1>4. CASE Reply(r, "failed") /\ UNCHANGED held
  BY <1>1, <1>4, CallArrives, ReplyMoves DEF VerifyFind, Answers
<1> QED BY <1>3, <1>4 DEF VerifyFind

LEMMA ReactivateFindMoves ==
    ASSUME TypeInv, NEW r \in Requests, NEW c \in LifeCalls, ReactivateFind(r, c)
    PROVE  Moves(r)
<1>1. RequestsTyped /\ UsersTyped /\ c \in Calls /\ c.user \in Users BY Here, CallKinds
<1>2. user[c.user] \in Copies /\ UNCHANGED user /\ pc[r] # "done"
  BY <1>1 DEF ReactivateFind, UsersTyped, lifeVars, Copies, Arrive
<1>3. CASE user[c.user] # None /\ TakeCopy(r, c.user)
  <2>1. OthersCalls(r) /\ call'[r] = c /\ held'[r] = user[c.user]
    BY <1>1, <1>2, <1>3, CallArrivesHolding DEF ReactivateFind, TakeCopy
  <2> QED BY <1>1, <1>2, <1>3, <2>1, TakeCopyMoves DEF ReactivateFind, Saving
<1>4. CASE Reply(r, "failed") /\ UNCHANGED held
  BY <1>1, <1>4, CallArrives, ReplyMoves DEF ReactivateFind, Answers
<1> QED BY <1>3, <1>4 DEF ReactivateFind

LEMMA VerifyReactivationMoves ==
    ASSUME TypeInv, NEW r \in Requests, NEW c \in Calls, VerifyReactivation(r, c)
    PROVE  Moves(r)
BY Here, CallArrives, ReplyMoves DEF VerifyReactivation, Answers

\* A user behind the middleware exists.
LEMMA EnteredUser ==
    ASSUME TypeInv, NEW r \in Requests, pc[r] = "enter"
    PROVE  /\ call[r] \in Calls /\ call[r].user \in Users
           /\ user[call[r].user] # None /\ user[call[r].user] \in Copies
<1>1. Fits(pc[r], call[r], held[r], answer[r], user) /\ UsersTyped BY Here
<1>2. call[r] \in Calls /\ call[r].user \in Users
  BY <1>1, CallFacts DEF Fits, Protected
<1> QED BY <1>1, <1>2 DEF Fits, UsersTyped, Copies

LEMMA DeactivateMoves ==
    ASSUME TypeInv, NEW r \in Requests, DeactivateFind(r) \/ DeactivateOwnFind(r)
    PROVE  Moves(r)
<1> DEFINE u == call[r].user
<1>1. pc[r] = "enter" /\ call[r].op \in Saving /\ UNCHANGED user /\ UNCHANGED call
  BY DEF DeactivateFind, DeactivateOwnFind, At, lifeVars, Saving, Deactivations
<1>2. RequestsTyped /\ call[r] \in Calls /\ u \in Users /\ user[u] # None /\ user[u] \in Copies
  BY <1>1, Here, EnteredUser
<1>3. CASE TakeCopy(r, u)
  <2>1. OthersCalls(r) /\ held'[r] = user[u] BY <1>1, <1>2, <1>3, CallHolds DEF TakeCopy
  <2> QED BY <1>1, <1>2, <1>3, <2>1, TakeCopyMoves
<1>4. CASE Reply(r, "failed") /\ UNCHANGED held
  BY <1>1, <1>2, <1>4, CallKept, ReplyMoves DEF Answers
<1> QED BY <1>3, <1>4 DEF DeactivateFind, DeactivateOwnFind

LEMMA SaveMoves ==
    ASSUME TypeInv, NEW r \in Requests, Save(r)
    PROVE  Moves(r)
<1>1. RequestsTyped /\ OthersCalls(r) BY Here, CallKept DEF Save
<1>2. Fits("enqueue", call'[r], held'[r], answer[r], user') BY Here DEF Fits, Save
<1> QED BY <1>1, <1>2, GotoMoves DEF Save, Labels

LEMMA EnqueueMoves ==
    ASSUME TypeInv, NEW r \in Requests, Enqueue(r)
    PROVE  Moves(r)
<1>1. RequestsTyped /\ OthersCalls(r) BY Here, CallKept DEF Enqueue
<1>2. call'[r] \in Calls BY Here DEF Enqueue
<1> QED BY <1>1, <1>2, ReplyMoves DEF Enqueue, Answers

LEMMA LoginFindMoves ==
    ASSUME TypeInv, NEW r \in Requests, NEW c \in SessionCalls, LoginFind(r, c)
    PROVE  Moves(r)
<1>1. RequestsTyped /\ UsersTyped /\ c \in Calls /\ c.op = "login" /\ UNCHANGED user
  BY Here, CallKinds DEF LoginFind, lifeVars
<1>2. c.user \in Users BY <1>1, CallKinds
<1>3. user[c.user] \in Copies BY <1>1, <1>2 DEF UsersTyped, Copies
<1>4. CASE user[c.user] # None /\ Holding(r, user[c.user]) /\ Goto(r, "store")
  <2>1. OthersCalls(r) /\ call'[r] = c
    BY <1>1, <1>3, <1>4, CallArrivesHolding DEF LoginFind
  <2>2. Fits("store", c, held'[r], answer[r], user')
    BY <1>1, <1>4, Here DEF Fits, LoginFind, Arrive
  <2> QED BY <1>1, <1>4, <2>1, <2>2, GotoMoves DEF Labels
<1>5. CASE Reply(r, "failed") /\ UNCHANGED held
  BY <1>1, <1>5, CallArrives, ReplyMoves DEF LoginFind, Answers
<1> QED BY <1>4, <1>5 DEF LoginFind

LEMMA StoreMoves ==
    ASSUME TypeInv, NEW r \in Requests, NEW u, NEW family, Store(r, u, family), pc[r] = "store"
    PROVE  Moves(r)
<1>1. RequestsTyped /\ OthersCalls(r) BY Here, CallKept DEF Store
<1>2. call'[r] \in Calls BY Here DEF Store
<1> QED BY <1>1, <1>2, ReplyMoves DEF Store, Answers

LEMMA RefreshFindMoves ==
    ASSUME TypeInv, NEW r \in Requests, NEW c \in SessionCalls, RefreshFind(r, c)
    PROVE  Moves(r)
<1> DEFINE t == c.token
<1>1. RequestsTyped /\ TokensTyped /\ c \in Calls /\ c.op = "refreshToken" /\ UNCHANGED user
  BY Here, CallKinds DEF RefreshFind, lifeVars
<1>2. t \in Tokens BY <1>1, CallFacts
<1>3. CASE Reply(r, "failed") /\ UNCHANGED held
  BY <1>1, <1>3, CallArrives, ReplyMoves DEF RefreshFind, Answers
<1>4. ASSUME NEW label \in {"user", "revoke"},
             tokens[t] # None, Holding(r, tokens[t]), Goto(r, label)
      PROVE  Moves(r)
  <2>1. tokens[t] \in TokenDocs /\ tokens[t] \in Copies /\ user[tokens[t].userId] # None
    BY <1>1, <1>2, <1>4 DEF TokensTyped, Copies
  <2>2. OthersCalls(r) /\ call'[r] = c /\ held'[r] = tokens[t]
    BY <1>1, <1>4, <2>1, CallArrivesHolding DEF RefreshFind
  <2>3. Fits(label, c, tokens[t], answer[r], user')
    BY <1>1, <2>1, Here DEF Fits, RefreshFind, Arrive
  <2> QED BY <1>1, <1>4, <2>2, <2>3, GotoMoves DEF Labels
<1> QED BY <1>3, <1>4 DEF RefreshFind, Live

LEMMA RefreshUserMoves ==
    ASSUME TypeInv, NEW r \in Requests, RefreshUser(r)
    PROVE  Moves(r)
<1>1. RequestsTyped /\ OthersCalls(r) /\ UNCHANGED user
  BY Here, CallKept DEF RefreshUser, lifeVars
<1>2. call'[r] \in Calls /\ call'[r] = call[r] /\ held'[r] = held[r]
  BY Here DEF RefreshUser, At
<1>3. CASE Goto(r, "spend")
  <2>1. Fits("spend", call'[r], held'[r], answer[r], user')
    BY <1>1, <1>2, Here DEF Fits, RefreshUser, At
  <2> QED BY <1>1, <1>3, <2>1, GotoMoves DEF Labels
<1>4. CASE Reply(r, "failed") BY <1>1, <1>2, <1>4, ReplyMoves DEF Answers
<1> QED BY <1>3, <1>4 DEF RefreshUser

LEMMA RefreshSpendMoves ==
    ASSUME TypeInv, NEW r \in Requests, RefreshSpend(r)
    PROVE  Moves(r)
<1>1. RequestsTyped /\ OthersCalls(r) /\ UNCHANGED user
  BY Here, CallKept DEF RefreshSpend, lifeVars
<1>2. call'[r] \in Calls /\ call'[r] = call[r] /\ held'[r] = held[r]
  BY Here DEF RefreshSpend, At
<1>3. CASE Goto(r, "store")
  <2>1. Fits("store", call'[r], held'[r], answer[r], user')
    BY <1>1, <1>2, Here DEF Fits, RefreshSpend, At
  <2> QED BY <1>1, <1>3, <2>1, GotoMoves DEF Labels
<1>4. CASE Reply(r, "failed") BY <1>1, <1>2, <1>4, ReplyMoves DEF Answers
<1> QED BY <1>3, <1>4 DEF RefreshSpend

LEMMA LogoutMoves ==
    ASSUME TypeInv, NEW r \in Requests, Logout(r)
    PROVE  Moves(r)
<1>1. RequestsTyped /\ OthersCalls(r) BY Here, CallKept DEF Logout
<1>2. call'[r] \in Calls BY Here DEF Logout, At
<1> QED BY <1>1, <1>2, ReplyMoves DEF Logout, Answers

LEMMA LogoutAllFindMoves ==
    ASSUME TypeInv, NEW r \in Requests, LogoutAllFind(r)
    PROVE  Moves(r)
<1>1. RequestsTyped /\ OthersCalls(r) BY Here, CallKept DEF LogoutAllFind
<1>2. Fits("revoke", call'[r], held'[r], answer[r], user')
  BY Here DEF Fits, LogoutAllFind, At
<1> QED BY <1>1, <1>2, GotoMoves DEF LogoutAllFind, Labels

LEMMA RevokeEndMoves ==
    ASSUME TypeInv, NEW r \in Requests, RevokeEnd(r)
    PROVE  Moves(r)
<1>1. RequestsTyped /\ OthersCalls(r) BY Here, CallKept DEF RevokeEnd
<1>2. call'[r] \in Calls BY Here DEF RevokeEnd
<1> QED BY <1>1, <1>2, ReplyMoves DEF RevokeEnd, Answers

\* No request moves.
LEMMA StandMoves ==
    ASSUME TypeInv, NEW r \in Requests, UNCHANGED requestVars, UNCHANGED user
    PROVE  Moves(r)
BY Here DEF Moves, requestVars, RequestsTyped, Only

\* The three steps of createAccount that lead to the next.
LEMMA OpeningMoves ==
    ASSUME TypeInv, NEW r \in Requests, OpenUser(r) \/ OpenKey(r) \/ OpenCount(r)
    PROVE  Moves(r)
<1>1. RequestsTyped /\ OthersCalls(r) /\ UNCHANGED user /\ pc[r] \in {"enter", "key", "count"}
  BY Here, CallKept DEF OpenUser, OpenKey, OpenCount, At, lifeVars
<1>2. call'[r] \in Calls /\ call'[r] = call[r] /\ call[r].op = "createAccount"
  BY <1>1, Here DEF OpenUser, OpenKey, OpenCount, At
<1>3. CASE \E label \in {"key", "count", "commit"} : Goto(r, label)
  <2> PICK label \in {"key", "count", "commit"} : Goto(r, label) BY <1>3
  <2>1. Fits(label, call'[r], held'[r], answer[r], user')
    BY <1>1, <1>2, Here DEF Fits
  <2> QED BY <1>1, <2>1, GotoMoves DEF Labels
<1>4. CASE Reply(r, "failed") BY <1>1, <1>2, <1>4, ReplyMoves DEF Answers
<1> QED BY <1>3, <1>4 DEF OpenUser, OpenKey, OpenCount

LEMMA OpenCommitMoves ==
    ASSUME TypeInv, NEW r \in Requests, OpenCommit(r)
    PROVE  Moves(r)
<1>1. RequestsTyped /\ OthersCalls(r) BY Here, CallKept DEF OpenCommit
<1>2. call'[r] \in Calls /\ call'[r] = call[r] /\ pc[r] = "commit" /\ call[r].op = "createAccount"
  BY Here DEF OpenCommit, At
<1>3. CASE Goto(r, "enqueue")
  <2>1. Fits("enqueue", call'[r], held'[r], answer[r], user') BY <1>2, Here DEF Fits
  <2> QED BY <1>1, <1>3, <2>1, GotoMoves DEF Labels
<1>4. CASE Reply(r, "failed") BY <1>1, <1>2, <1>4, ReplyMoves DEF Answers
<1> QED BY <1>3, <1>4 DEF OpenCommit

-----------------------------------------------------------------------------
(* What the steps make of the documents.                                    *)

LEMMA UsersKept ==
    ASSUME TypeInv, UNCHANGED <<user, accessTokens, crossed>>
    PROVE  UsersTyped' /\ UsersStay
BY DEF TypeInv, UsersTyped, UsersStay

LEMMA TokensKept ==
    ASSUME TypeInv, UNCHANGED sessionVars, UsersStay
    PROVE  TokensTyped'
<1>1. \A d \in TokenDocs : d.userId \in Users BY DEF TokenDocs
<1>2. \A t \in Tokens : tokens[t] # None => user'[tokens[t].userId] # None
  BY <1>1 DEF TypeInv, TokensTyped, UsersStay
<1> QED BY <1>2 DEF TypeInv, TokensTyped, sessionVars

LEMMA OpeningKept == ASSUME TypeInv, UNCHANGED openingVars PROVE OpeningTyped'
BY DEF TypeInv, OpeningTyped, openingVars

\* A request moves and nothing else does.
LEMMA QuietTyped ==
    ASSUME TypeInv, Watch, NEW r \in Requests, Moves(r),
           UNCHANGED lifeVars, UNCHANGED sessionVars, UNCHANGED openingVars
    PROVE  TypeInv'
<1>1. UsersTyped' /\ UsersStay BY UsersKept DEF lifeVars
<1>2. TokensTyped' /\ OpeningTyped' BY <1>1, TokensKept, OpeningKept
<1> QED BY <1>1, <1>2, StepTyped

LEMMA NewUserDoc ==
    [isActive |-> TRUE, isVerified |-> FALSE, deactivatedAt |-> "absent"] \in UserDocs
BY DEF UserDocs

LEMMA RegisterCreateTyped ==
    ASSUME TypeInv, Watch, NEW r \in Requests, RegisterCreate(r),
           UNCHANGED sessionVars, UNCHANGED openingVars
    PROVE  TypeInv'
<1> DEFINE u == call[r].user
           doc == [isActive |-> TRUE, isVerified |-> FALSE, deactivatedAt |-> "absent"]
<1>1. Moves(r) BY RegisterCreateMoves
<1>2. doc \in UserDocs /\ doc # None BY NewUserDoc, UserNone
<1>3. UsersTyped /\ u \in Users
  BY Here, CallFacts DEF RegisterCreate, At
<1>4. user' = user \/ (user[u] = None /\ user' = [user EXCEPT ![u] = doc])
  BY DEF RegisterCreate
<1> HIDE DEF doc, u
<1>5. UNCHANGED <<accessTokens, crossed>> BY DEF RegisterCreate
<1>6. UsersTyped' /\ UsersStay
  BY <1>2, <1>3, <1>4, <1>5 DEF UsersTyped, UsersStay
<1>7. TokensTyped' /\ OpeningTyped' BY <1>6, TokensKept, OpeningKept
<1> QED BY <1>1, <1>6, <1>7, StepTyped

\* What a save makes of a document.
LEMMA WrittenTyped ==
    ASSUME NEW op, NEW read \in UserDocs, NEW doc \in UserDocs
    PROVE  Written(op, read, doc) \in UserDocs
BY DEF Written, UserDocs

LEMMA SaveTyped ==
    ASSUME TypeInv, Watch, NEW r \in Requests, Save(r),
           UNCHANGED sessionVars, UNCHANGED openingVars
    PROVE  TypeInv'
<1> DEFINE u == call[r].user
           doc == Written(call[r].op, held[r], user[u])
<1>1. Moves(r) BY SaveMoves
<1>2. UsersTyped /\ call[r] \in Calls /\ call[r].op \in Saving /\ held[r] \in UserDocs
      /\ user[u] # None
  BY Here DEF Save, Fits
<1>3. u \in Users BY <1>2, CallFacts DEF Saving, Deactivations
<1>4. user[u] \in UserDocs BY <1>2, <1>3 DEF UsersTyped
<1>5. doc \in UserDocs /\ doc # None BY <1>2, <1>4, WrittenTyped, UserNone
<1>6. user' = [user EXCEPT ![u] = doc] BY DEF Save
<1>7. crossed' \in {crossed, crossed \cup {u}} /\ UNCHANGED accessTokens BY DEF Save
<1> HIDE DEF doc, u
<1>8. UsersTyped' /\ UsersStay
  BY <1>2, <1>3, <1>5, <1>6, <1>7 DEF UsersTyped, UsersStay
<1>9. TokensTyped' /\ OpeningTyped' BY <1>8, TokensKept, OpeningKept
<1> QED BY <1>1, <1>8, <1>9, StepTyped

\* A token is stored for an existing user.
LEMMA StoreTyped ==
    ASSUME TypeInv, Watch, NEW r \in Requests, NEW u \in Users, NEW family \in Tokens,
           user[u] # None, pc[r] = "store", Store(r, u, family), UNCHANGED openingVars
    PROVE  TypeInv'
<1> DEFINE doc == [userId |-> u, family |-> family, isRevoked |-> FALSE]
<1>1. Moves(r) BY StoreMoves
<1>2. doc \in TokenDocs /\ doc.userId = u BY DEF TokenDocs
<1>3. tokens' = [tokens EXCEPT ![r] = doc] /\ lineage' = [lineage EXCEPT ![r] = doc]
      /\ accessTokens' \in {accessTokens, accessTokens \cup {u}}
      /\ UNCHANGED <<user, crossed, scope, raced>>
  BY DEF Store
<1>4. UsersTyped /\ TokensTyped /\ r \in Tokens BY Here DEF Tokens
<1> HIDE DEF doc
<1>5. UsersTyped' /\ UsersStay BY <1>3, <1>4 DEF UsersTyped, UsersStay
<1>6. TokensTyped' BY <1>2, <1>3, <1>4 DEF TokensTyped
<1> QED BY <1>1, <1>5, <1>6, OpeningKept, StepTyped

\* What a handler that stores a token stores it for.
LEMMA StoringFor ==
    ASSUME TypeInv, NEW r \in Requests, pc[r] = "store"
    PROVE  /\ call[r].op = "login" => call[r].user \in Users /\ user[call[r].user] # None
           /\ call[r].op = "refreshToken" =>
                  /\ held[r].userId \in Users /\ user[held[r].userId] # None
                  /\ held[r].family \in Tokens
BY Here, CallFacts DEF Fits, TokenDocs

\* Revocations, and what updates look up.
LEMMA RevokesTyped ==
    ASSUME TypeInv, Watch, NEW r \in Requests, Moves(r), UNCHANGED lifeVars, UNCHANGED openingVars,
           UNCHANGED lineage,
           UNCHANGED tokens \/ \E t \in Tokens : tokens[t] # None /\ Revoke(t),
           scope' \in [Requests -> SUBSET Tokens], raced' \subseteq Tokens
    PROVE  TypeInv'
<1>1. UsersTyped' /\ UsersStay /\ UNCHANGED user BY UsersKept DEF lifeVars
<1>2. TokensTyped BY Here
<1>3. TokensTyped'
  <2>1. CASE UNCHANGED tokens BY <1>1, <1>2, <2>1 DEF TokensTyped
  <2>2. CASE \E t \in Tokens : tokens[t] # None /\ Revoke(t)
    <3> PICK t \in Tokens : tokens[t] # None /\ Revoke(t) BY <2>2
    <3> DEFINE doc == [tokens[t] EXCEPT !.isRevoked = TRUE]
    <3>1. tokens[t] \in TokenDocs BY <1>2 DEF TokensTyped
    <3>2. doc \in TokenDocs /\ doc.userId = tokens[t].userId BY <3>1 DEF TokenDocs
    <3>3. tokens' = [tokens EXCEPT ![t] = doc] BY DEF Revoke
    <3> HIDE DEF doc
    <3> QED BY <1>1, <1>2, <3>2, <3>3 DEF TokensTyped
  <2> QED BY <2>1, <2>2
<1> QED BY <1>1, <1>3, OpeningKept, StepTyped

LEMMA ReapTyped ==
    ASSUME TypeInv, Watch, NEW t \in Tokens, TokenReap(t), UNCHANGED openingVars
    PROVE  TypeInv'
<1>1. UsersTyped' /\ UNCHANGED user BY UsersKept DEF TokenReap, lifeVars
<1>2. TokensTyped' BY <1>1 DEF TypeInv, TokensTyped, TokenReap
<1>3. RequestsTyped' /\ \A r \in Requests : Fits(pc[r], call[r], held[r], answer[r], user)'
  BY <1>1 DEF TypeInv, TokenReap, requestVars, RequestsTyped
<1> QED BY <1>1, <1>2, <1>3, OpeningKept, WatchTyped DEF TypeInv

LEMMA LifeTyped ==
    ASSUME TypeInv, Watch, LifeNext, UNCHANGED sessionVars, UNCHANGED openingVars
    PROVE  TypeInv'
<1>1. ASSUME NEW r \in Requests, NEW c \in LifeCalls,
             RegisterFind(r, c) \/ VerifyFind(r, c) \/ ReactivateFind(r, c)
               \/ VerifyReactivation(r, c) \/ Middleware(r, c)
      PROVE  TypeInv'
  <2>1. c \in Calls BY CallKinds
  <2>2. Moves(r)
    BY <1>1, <2>1, RegisterFindMoves, VerifyFindMoves, ReactivateFindMoves,
       VerifyReactivationMoves, MiddlewareMoves
  <2>3. UNCHANGED lifeVars
    BY <1>1 DEF RegisterFind, VerifyFind, ReactivateFind, VerifyReactivation, Middleware
  <2> QED BY <2>2, <2>3, QuietTyped
<1>2. ASSUME NEW r \in Requests,
             DeactivateFind(r) \/ DeactivateOwnFind(r) \/ Enqueue(r) \/ Fail(r)
      PROVE  TypeInv'
  <2>1. Moves(r) BY <1>2, DeactivateMoves, EnqueueMoves, FailMoves
  <2>2. UNCHANGED lifeVars BY <1>2 DEF DeactivateFind, DeactivateOwnFind, Enqueue, Fail
  <2> QED BY <2>1, <2>2, QuietTyped
<1>3. ASSUME NEW r \in Requests, RegisterCreate(r) PROVE TypeInv' BY <1>3, RegisterCreateTyped
<1>4. ASSUME NEW r \in Requests, Save(r) PROVE TypeInv' BY <1>4, SaveTyped
<1> QED BY <1>1, <1>2, <1>3, <1>4 DEF LifeNext

LEMMA RefreshFindTyped ==
    ASSUME TypeInv, Watch, NEW r \in Requests, NEW c \in SessionCalls, RefreshFind(r, c),
           UNCHANGED openingVars
    PROVE  TypeInv'
<1>1. Moves(r) BY RefreshFindMoves
<1>2. TokensTyped /\ c.token \in Tokens BY Here, CallKinds, CallFacts DEF RefreshFind
<1>3. tokens[c.token] # None => tokens[c.token].family \in Tokens
  BY <1>2 DEF TokensTyped, TokenDocs
<1>4. raced' \subseteq Tokens BY <1>2, <1>3 DEF RefreshFind, TokensTyped, Live
<1>5. scope' \in [Requests -> SUBSET Tokens] BY <1>2 DEF RefreshFind, TokensTyped
<1> QED BY <1>1, <1>4, <1>5, RevokesTyped DEF RefreshFind

LEMMA SessionTyped ==
    ASSUME TypeInv, Watch, SessionNext, UNCHANGED openingVars
    PROVE  TypeInv'
<1>1. ASSUME NEW r \in Requests, NEW c \in SessionCalls, LoginFind(r, c) PROVE TypeInv'
  BY <1>1, LoginFindMoves, QuietTyped DEF LoginFind
<1>2. ASSUME NEW r \in Requests, NEW c \in SessionCalls, RefreshFind(r, c) PROVE TypeInv'
  BY <1>2, RefreshFindTyped
<1>3. ASSUME NEW r \in Requests, NEW c \in SessionCalls, Enter(r, c) PROVE TypeInv'
  BY <1>3, CallKinds, MiddlewareMoves, QuietTyped DEF Enter, Middleware
<1>4. ASSUME NEW r \in Requests, LoginStore(r) PROVE TypeInv'
  <2>1. pc[r] = "store" /\ call[r].op = "login" /\ Store(r, call[r].user, r)
    BY <1>4 DEF LoginStore, At
  <2> QED BY <2>1, StoringFor, StoreTyped DEF Tokens
<1>5. ASSUME NEW r \in Requests, RefreshStore(r) PROVE TypeInv'
  <2>1. pc[r] = "store" /\ call[r].op = "refreshToken"
        /\ Store(r, held[r].userId, held[r].family)
    BY <1>5 DEF RefreshStore, At
  <2> QED BY <2>1, StoringFor, StoreTyped
<1>6. ASSUME NEW r \in Requests, RefreshUser(r) PROVE TypeInv'
  BY <1>6, RefreshUserMoves, QuietTyped DEF RefreshUser
<1>7. ASSUME NEW r \in Requests, RefreshSpend(r) PROVE TypeInv'
  <2>1. call[r].token \in Tokens /\ scope \in [Requests -> SUBSET Tokens] /\ raced \subseteq Tokens
    BY <1>7, Here, CallFacts DEF RefreshSpend, At, TokensTyped
  <2>2. Moves(r) BY <1>7, RefreshSpendMoves
  <2> QED BY <1>7, <2>1, <2>2, RevokesTyped DEF RefreshSpend
<1>8. ASSUME NEW r \in Requests, Logout(r) PROVE TypeInv'
  <2>1. call[r].token \in Tokens \cup {None}
        /\ scope \in [Requests -> SUBSET Tokens] /\ raced \subseteq Tokens
    BY <1>8, Here, CallFacts DEF Logout, At, TokensTyped
  <2>2. Moves(r) BY <1>8, LogoutMoves
  <2> QED BY <1>8, <2>1, <2>2, RevokesTyped DEF Logout
<1>9. ASSUME NEW r \in Requests, LogoutAllFind(r) PROVE TypeInv'
  <2>1. scope' \in [Requests -> SUBSET Tokens] /\ raced \subseteq Tokens
    BY <1>9, Here DEF LogoutAllFind, TokensTyped
  <2>2. Moves(r) BY <1>9, LogoutAllFindMoves
  <2> QED BY <1>9, <2>1, <2>2, RevokesTyped DEF LogoutAllFind
<1>10. ASSUME NEW r \in Requests, RevokeEnd(r) PROVE TypeInv'
  BY <1>10, RevokeEndMoves, QuietTyped DEF RevokeEnd
<1>11. ASSUME NEW r \in Requests, NEW t \in Tokens, RevokeOne(r, t) PROVE TypeInv'
  <2>1. scope \in [Requests -> SUBSET Tokens] /\ raced \subseteq Tokens BY Here DEF TokensTyped
  <2>2. Moves(r) BY <1>11, StandMoves DEF RevokeOne, lifeVars
  <2> QED BY <1>11, <2>1, <2>2, RevokesTyped DEF RevokeOne, Matches, Live
<1>12. ASSUME NEW t \in Tokens, TokenReap(t) PROVE TypeInv' BY <1>12, ReapTyped
<1> QED
  BY <1>1, <1>2, <1>3, <1>4, <1>5, <1>6, <1>7, <1>8, <1>9, <1>10, <1>11, <1>12 DEF SessionNext

LEMMA OpeningStepTyped ==
    ASSUME TypeInv, Watch, OpeningNext, UNCHANGED sessionVars
    PROVE  TypeInv'
<1>1. ASSUME NEW r \in Requests, NEW c \in OpeningCalls, Middleware(r, c), UNCHANGED openingVars
      PROVE  TypeInv'
  BY <1>1, CallKinds, MiddlewareMoves, QuietTyped DEF Middleware
<1>2. ASSUME NEW r \in Requests, Moves(r), UNCHANGED lifeVars, OpeningTyped' PROVE TypeInv'
  <2>1. UsersTyped' /\ UsersStay BY <1>2, UsersKept DEF lifeVars
  <2> QED BY <1>2, <2>1, TokensKept, StepTyped
<1>3. ASSUME NEW r \in Requests, OpenUser(r) \/ OpenKey(r) \/ OpenCount(r) PROVE TypeInv'
  <2>1. Moves(r) /\ UNCHANGED lifeVars /\ UNCHANGED opened
    BY <1>3, OpeningMoves DEF OpenUser, OpenKey, OpenCount, openingVars
  <2>2. call[r].user \in Users
    BY <1>3, Here, CallFacts DEF OpenUser, OpenKey, OpenCount, At
  <2>3. crowded' \in {crowded, crowded \cup {call[r].user}}
    BY <1>3 DEF OpenUser, OpenKey, OpenCount, openingVars
  <2>4. OpeningTyped' BY <2>1, <2>2, <2>3, Here DEF OpeningTyped
  <2> QED BY <1>2, <2>1, <2>4
<1>4. ASSUME NEW r \in Requests, OpenCommit(r) PROVE TypeInv'
  <2>1. Moves(r) /\ UNCHANGED lifeVars /\ UNCHANGED crowded
    BY <1>4, OpenCommitMoves DEF OpenCommit
  <2>2. NewAccount(r) \in AccountDocs
    BY <1>4, Here, CallFacts DEF OpenCommit, At, NewAccount, AccountDocs
  <2>3. OpeningTyped' BY <1>4, <2>1, <2>2, Here DEF OpeningTyped, OpenCommit
  <2> QED BY <1>2, <2>1, <2>3
<1> QED BY <1>1, <1>3, <1>4 DEF OpeningNext

LEMMA NextTyped == ASSUME TypeInv, [Next]_vars PROVE TypeInv'
<1>1. CASE UNCHANGED vars
  BY <1>1 DEF vars, lifeVars, requestVars, sessionVars, openingVars, TypeInv, RequestsTyped,
              UsersTyped, TokensTyped, OpeningTyped
<1>2. CASE Next BY <1>2, LifeTyped, SessionTyped, OpeningStepTyped DEF Next, Step
<1> QED BY <1>1, <1>2

\* In every state each handler's label agrees with its call, with the copies it
\* works on and with the users it still needs: the invariant the rest builds on.
THEOREM Typed == Spec => []TypeInv
BY InitTyped, NextTyped, PTL DEF Spec

\* Users, tokens and accounts, handlers and what they hold keep their types.
THEOREM UserTypesCorrect == Spec => []TypeOK
BY Typed, TypeInvMeans, PTL

-----------------------------------------------------------------------------
(* The steps by what they do, whichever handler takes them.                 *)

docs == <<lifeVars, sessionVars, openingVars>>

\* Request r ends in an error and leaves the documents alone.
Failing(r) ==
    /\ UNCHANGED docs
    /\ pc[r] # "done" /\ pc'[r] = "done" /\ answer'[r] = "failed"
    /\ held'[r] = held[r]
    /\ pc[r] # "idle" => call'[r] = call[r]

\* Request r passes a check.
Advancing(r) ==
    /\ UNCHANGED docs
    /\ \/ pc[r] = "idle" /\ pc'[r] = "insert"
       \/ /\ pc[r] \in {"idle", "enter"} /\ pc'[r] = "save"
          /\ call'[r].op \in Saving /\ held'[r] = user[call'[r].user]
       \/ pc[r] = "idle" /\ pc'[r] = "enter" /\ Admitted(call'[r].user)
       \/ /\ pc[r] = "idle" /\ pc'[r] = "store" /\ call'[r].op = "login"
          /\ user[call'[r].user].isActive
       \/ /\ pc[r] = "user" /\ pc'[r] = "spend" /\ user[held[r].userId].isActive
          /\ call'[r] = call[r] /\ held'[r] = held[r]
       \/ /\ pc[r] \in {"enter", "key"} /\ pc'[r] \in {"key", "count"}
          /\ call[r].op = "createAccount" /\ call'[r] = call[r] /\ held'[r] = held[r]

\* Request r ends.
Ending(r) ==
    /\ UNCHANGED docs
    /\ pc'[r] = "done" /\ call'[r] = call[r] /\ held'[r] = held[r]
    /\ \/ pc[r] = "enqueue" /\ answer'[r] = "ok"
       \/ pc[r] = "revoke" /\ (\A t \in scope[r] : ~Live(t))
            /\ answer'[r] = IF call[r].op = "refreshToken" THEN "reuse" ELSE "ok"

FindsLive(r) ==
    LET t == call'[r].token
    IN  /\ pc[r] = "idle" /\ pc'[r] = "user" /\ call'[r].op = "refreshToken"
        /\ t \in Tokens /\ Live(t) /\ held'[r] = tokens[t]
        /\ raced' = IF Meets(r, t) THEN raced \cup {tokens[t].family} ELSE raced
        /\ UNCHANGED <<lifeVars, tokens, scope, lineage, openingVars>>

FindsRevoked(r) ==
    LET t == call'[r].token
    IN  /\ pc[r] = "idle" /\ pc'[r] = "revoke" /\ call'[r].op = "refreshToken"
        /\ t \in Tokens /\ tokens[t] # None /\ ~Live(t) /\ held'[r] = tokens[t]
        /\ scope' = [scope EXCEPT ![r] =
                        {x \in Tokens : Live(x) /\ tokens[x].family = tokens[t].family}]
        /\ UNCHANGED <<lifeVars, tokens, lineage, raced, openingVars>>

FindsAll(r) ==
    /\ pc[r] = "enter" /\ pc'[r] = "revoke" /\ call[r].op = "logoutAllSessions"
    /\ call'[r] = call[r] /\ held'[r] = held[r]
    /\ scope' = [scope EXCEPT ![r] = {x \in Tokens : Live(x) /\ tokens[x].userId = call[r].user}]
    /\ UNCHANGED <<lifeVars, tokens, lineage, raced, openingVars>>

\* Request r stores a token for u.
Stores(r, u, family) ==
    LET doc == [userId |-> u, family |-> family, isRevoked |-> FALSE]
    IN  /\ pc[r] = "store" /\ pc'[r] = "done" /\ answer'[r] \in {"ok", "failed"}
        /\ call'[r] = call[r] /\ held'[r] = held[r]
        /\ tokens' = [tokens EXCEPT ![r] = doc] /\ lineage' = [lineage EXCEPT ![r] = doc]
        /\ UNCHANGED <<user, crossed, scope, raced, openingVars>>

Spends(r) ==
    /\ pc[r] = "spend" /\ pc'[r] = "store" /\ call[r].op = "refreshToken"
    /\ call'[r] = call[r] /\ held'[r] = held[r]
    /\ call[r].token \in Tokens /\ tokens[call[r].token] # None /\ Revoke(call[r].token)
    /\ UNCHANGED <<lifeVars, scope, lineage, raced, openingVars>>

\* A token is revoked by a logout, by itself or as one of many.
Ends(r) ==
    /\ call'[r] = call[r] /\ held'[r] = held[r]
    /\ \/ /\ pc[r] = "enter" /\ pc'[r] = "done" /\ call[r].op = "logout"
          /\ answer'[r] \in {"ok", "failed"}
       \/ pc[r] = "revoke" /\ pc'[r] = "revoke" /\ answer'[r] = answer[r]
    /\ \/ UNCHANGED tokens
       \/ \E t \in Tokens : tokens[t] # None /\ Revoke(t)
    /\ UNCHANGED <<lifeVars, scope, lineage, raced, openingVars>>

Registers(r) ==
    /\ pc[r] = "insert" /\ pc'[r] = "enqueue" /\ call[r].op = "register"
    /\ call'[r] = call[r] /\ held'[r] = held[r]
    /\ user[call[r].user] = None
    /\ user' = [user EXCEPT ![call[r].user] =
                   [isActive |-> TRUE, isVerified |-> FALSE, deactivatedAt |-> "absent"]]
    /\ UNCHANGED <<accessTokens, crossed, sessionVars, openingVars>>

Saves(r) ==
    /\ pc[r] = "save" /\ pc'[r] = "enqueue" /\ call'[r] = call[r] /\ held'[r] = held[r]
    /\ Save(r)
    /\ UNCHANGED <<sessionVars, openingVars>>

Allows(r) ==
    LET mine == AccountsOf(call[r].user, opened)
    IN  /\ pc[r] = "count" /\ pc'[r] = "commit" /\ call[r].op = "createAccount"
        /\ call'[r] = call[r] /\ held'[r] = held[r]
        /\ Cardinality(mine) < MaxAccounts
        /\ call[r].accountType = "savings" => Savings(mine) = {}
        /\ crowded' = IF Crowds(r) THEN crowded \cup {call[r].user} ELSE crowded
        /\ UNCHANGED <<lifeVars, sessionVars, opened>>

OpensAccount(r) ==
    /\ pc[r] = "commit" /\ pc'[r] = "enqueue" /\ call[r].op = "createAccount"
    /\ call'[r] = call[r] /\ held'[r] = held[r]
    /\ \A d \in opened : d.key # call[r].key
    /\ opened' = opened \cup {NewAccount(r)}
    /\ UNCHANGED <<lifeVars, sessionVars, crowded>>

Acts(r) ==
    \/ Failing(r) \/ Advancing(r) \/ Ending(r)
    \/ Registers(r) \/ Saves(r)
    \/ FindsLive(r) \/ FindsRevoked(r) \/ FindsAll(r) \/ Spends(r) \/ Ends(r)
    \/ call[r].op = "login" /\ Stores(r, call[r].user, r)
    \/ call[r].op = "refreshToken" /\ Stores(r, held[r].userId, held[r].family)
    \/ Allows(r) \/ OpensAccount(r)

\* Request r takes the step.
Turn(r) == Moves(r) /\ Acts(r)

\* Parts of a step, as values of r.
LEMMA Parts ==
    ASSUME RequestsTyped, NEW r \in Requests
    PROVE  /\ \A kind : Reply(r, kind) => pc'[r] = "done" /\ answer'[r] = kind
           /\ \A label : Goto(r, label) => pc'[r] = label /\ answer'[r] = answer[r]
           /\ \A c : Arrive(r, c) => pc[r] = "idle" /\ call'[r] = c
           /\ \A h : Holding(r, h) => held'[r] = h
BY DEF RequestsTyped, Reply, Goto, Arrive, Holding

LEMMA LifeActs ==
    ASSUME TypeInv, LifeNext, UNCHANGED sessionVars, UNCHANGED openingVars
    PROVE  \E r \in Requests : Turn(r)
<1>1. ASSUME NEW r \in Requests, NEW c \in LifeCalls, RegisterFind(r, c)
      PROVE  Moves(r) /\ Acts(r)
  <2>1. Moves(r) /\ pc[r] = "idle" /\ UNCHANGED docs
    BY <1>1, CallKinds, RegisterFindMoves DEF RegisterFind, docs, Arrive
  <2>2. CASE Goto(r, "insert")
    <3>1. pc'[r] = "insert" BY <2>2, Here DEF Goto, RequestsTyped
    <3> QED BY <2>1, <3>1 DEF Acts, Advancing
  <2>3. CASE Reply(r, "failed")
    <3>1. pc'[r] = "done" /\ answer'[r] = "failed" /\ held'[r] = held[r]
      BY <1>1, <2>3, Here DEF Reply, RequestsTyped, RegisterFind
    <3> QED BY <2>1, <3>1 DEF Acts, Failing
  <2> QED BY <1>1, <2>2, <2>3 DEF RegisterFind
<1>2. ASSUME NEW r \in Requests, NEW c \in LifeCalls, VerifyFind(r, c)
      PROVE  Moves(r) /\ Acts(r)
  <2>1. Moves(r) /\ pc[r] = "idle" /\ call'[r] = c /\ c.op = "activateUser"
        /\ UNCHANGED docs
    BY <1>2, CallKinds, VerifyFindMoves, Here, Parts DEF VerifyFind, docs, Arrive
  <2>2. \/ pc'[r] = "save" /\ held'[r] = user[c.user]
        \/ pc'[r] = "done" /\ answer'[r] = "failed" /\ held'[r] = held[r]
    BY <1>2, Here, Parts DEF VerifyFind, TakeCopy
  <2> QED BY <2>1, <2>2 DEF Acts, Failing, Advancing, Saving
<1>3. ASSUME NEW r \in Requests, NEW c \in LifeCalls, ReactivateFind(r, c)
      PROVE  Moves(r) /\ Acts(r)
  <2>1. Moves(r) /\ pc[r] = "idle" /\ call'[r] = c /\ c.op = "requestReactivationOtp"
        /\ UNCHANGED docs
    BY <1>3, CallKinds, ReactivateFindMoves, Here, Parts DEF ReactivateFind, docs, Arrive
  <2>2. \/ pc'[r] = "save" /\ held'[r] = user[c.user]
        \/ pc'[r] = "done" /\ answer'[r] = "failed" /\ held'[r] = held[r]
    BY <1>3, Here, Parts DEF ReactivateFind, TakeCopy
  <2> QED BY <2>1, <2>2 DEF Acts, Failing, Advancing, Saving
<1>4. ASSUME NEW r \in Requests, NEW c \in LifeCalls, VerifyReactivation(r, c)
      PROVE  Moves(r) /\ Acts(r)
  BY <1>4, CallKinds, VerifyReactivationMoves, Here, Parts
  DEF VerifyReactivation, Acts, Failing, docs, Arrive
<1>5. ASSUME NEW r \in Requests, NEW c \in LifeCalls, Middleware(r, c)
      PROVE  Moves(r) /\ Acts(r)
  BY <1>5, CallKinds, MiddlewareMoves, Here, Parts
  DEF Middleware, Acts, Failing, Advancing, docs, Arrive
<1>6. ASSUME NEW r \in Requests, DeactivateFind(r) \/ DeactivateOwnFind(r)
      PROVE  Moves(r) /\ Acts(r)
  BY <1>6, DeactivateMoves, Here, Parts
  DEF DeactivateFind, DeactivateOwnFind, TakeCopy, Acts, Failing, Advancing, docs, At,
      Saving, Deactivations
<1>7. ASSUME NEW r \in Requests, Enqueue(r)
      PROVE  Moves(r) /\ Acts(r)
  BY <1>7, EnqueueMoves, Here, Parts DEF Enqueue, Acts, Ending, docs
<1>8. ASSUME NEW r \in Requests, Fail(r)
      PROVE  Moves(r) /\ Acts(r)
  BY <1>8, FailMoves, Here, Parts DEF Fail, Acts, Failing, docs
<1>9. ASSUME NEW r \in Requests, RegisterCreate(r)
      PROVE  Moves(r) /\ Acts(r)
  BY <1>9, RegisterCreateMoves, Here, Parts
  DEF RegisterCreate, At, Acts, Failing, Registers, docs, lifeVars
<1>10. ASSUME NEW r \in Requests, Save(r)
       PROVE  Moves(r) /\ Acts(r)
  <2>1. Moves(r) /\ Goto(r, "enqueue") /\ pc[r] = "save" /\ call' = call /\ held' = held
    BY <1>10, SaveMoves DEF Save
  <2> QED BY <1>10, <2>1, Here, Parts DEF Acts, Saves
<1> QED
  BY <1>1, <1>2, <1>3, <1>4, <1>5, <1>6, <1>7, <1>8, <1>9, <1>10 DEF LifeNext, Turn

LEMMA SessionActs ==
    ASSUME TypeInv, SessionNext, UNCHANGED openingVars
    PROVE  (\E r \in Requests : Turn(r)) \/ (\E t \in Tokens : TokenReap(t))
<1>1. ASSUME NEW r \in Requests, NEW c \in SessionCalls, LoginFind(r, c)
      PROVE  Moves(r) /\ Acts(r)
  <2>1. Moves(r) /\ pc[r] = "idle" /\ call'[r] = c /\ c.op = "login" /\ UNCHANGED docs
    BY <1>1, LoginFindMoves, Here, Parts DEF LoginFind, docs, Arrive
  <2>2. \/ pc'[r] = "store" /\ user[c.user].isActive
        \/ pc'[r] = "done" /\ answer'[r] = "failed" /\ held'[r] = held[r]
    BY <1>1, Here, Parts DEF LoginFind
  <2> QED BY <2>1, <2>2 DEF Acts, Failing, Advancing
<1>2. ASSUME NEW r \in Requests, NEW c \in SessionCalls, Enter(r, c)
      PROVE  Moves(r) /\ Acts(r)
  BY <1>2, CallKinds, MiddlewareMoves, Here, Parts
  DEF Enter, Middleware, Acts, Failing, Advancing, docs, Arrive
<1>3. ASSUME NEW r \in Requests, NEW c \in SessionCalls, RefreshFind(r, c)
      PROVE  Moves(r) /\ Acts(r)
  <2> DEFINE t == c.token
  <2>1. Moves(r) /\ pc[r] = "idle" /\ call'[r] = c /\ t \in Tokens /\ c.op = "refreshToken"
    BY <1>3, RefreshFindMoves, CallKinds, CallFacts, Here, Parts DEF RefreshFind
  <2>2. CASE Reply(r, "failed") /\ UNCHANGED <<held, scope, raced>>
    BY <1>3, <2>1, <2>2, Here, Parts DEF RefreshFind, Acts, Failing, docs, sessionVars
  <2>3. CASE Live(t) /\ Holding(r, tokens[t]) /\ Goto(r, "user") /\ UNCHANGED scope
                 /\ raced' = IF Meets(r, t) THEN raced \cup {tokens[t].family} ELSE raced
    BY <1>3, <2>1, <2>3, Here, Parts DEF RefreshFind, Acts, FindsLive
  <2>4. CASE /\ tokens[t] # None /\ ~Live(t) /\ Holding(r, tokens[t]) /\ Goto(r, "revoke")
             /\ scope' = [scope EXCEPT ![r] =
                             {x \in Tokens : Live(x) /\ tokens[x].family = tokens[t].family}]
             /\ UNCHANGED raced
    BY <1>3, <2>1, <2>4, Here, Parts DEF RefreshFind, Acts, FindsRevoked
  <2> QED BY <1>3, <2>1, <2>2, <2>3, <2>4 DEF RefreshFind
<1>4. ASSUME NEW r \in Requests, NEW u, NEW family, pc[r] = "store", Store(r, u, family)
      PROVE  Moves(r) /\ Stores(r, u, family)
  BY <1>4, StoreMoves, Here, Parts DEF Store, Stores
<1>5. ASSUME NEW r \in Requests, LoginStore(r) \/ RefreshStore(r)
      PROVE  Moves(r) /\ Acts(r)
  BY <1>4, <1>5 DEF LoginStore, RefreshStore, At, Acts
<1>6. ASSUME NEW r \in Requests, RefreshUser(r)
      PROVE  Moves(r) /\ Acts(r)
  BY <1>6, RefreshUserMoves, Here, Parts DEF RefreshUser, At, Acts, Failing, Advancing, docs
<1>7. ASSUME NEW r \in Requests, RefreshSpend(r)
      PROVE  Moves(r) /\ Acts(r)
  <2>1. Moves(r) /\ call[r].token \in Tokens
    BY <1>7, RefreshSpendMoves, CallFacts, Here DEF RefreshSpend, At
  <2>2. CASE tokens[call[r].token] # None /\ Revoke(call[r].token) /\ Goto(r, "store")
    BY <1>7, <2>1, <2>2, Here, Parts DEF RefreshSpend, At, Acts, Spends
  <2>3. CASE Reply(r, "failed") /\ UNCHANGED tokens
    BY <1>7, <2>1, <2>3, Here, Parts DEF RefreshSpend, At, Acts, Failing, docs, sessionVars
  <2> QED BY <1>7, <2>1, <2>2, <2>3 DEF RefreshSpend
<1>8. ASSUME NEW r \in Requests, Logout(r)
      PROVE  Moves(r) /\ Acts(r)
  <2>1. /\ Moves(r) /\ call[r].token \in Tokens \cup {None}
        /\ Reply(r, "ok") \/ Reply(r, "failed")
    BY <1>8, LogoutMoves, CallFacts, Here DEF Logout, At
  <2>2. UNCHANGED tokens \/ \E t \in Tokens : tokens[t] # None /\ Revoke(t)
    BY <1>8, <2>1 DEF Logout
  <2> QED BY <1>8, <2>1, <2>2, Here, Parts DEF Logout, At, Acts, Ends
<1>9. ASSUME NEW r \in Requests, LogoutAllFind(r)
      PROVE  Moves(r) /\ Acts(r)
  BY <1>9, LogoutAllFindMoves, Here, Parts DEF LogoutAllFind, At, Acts, FindsAll
<1>10. ASSUME NEW r \in Requests, RevokeEnd(r)
       PROVE  Moves(r) /\ Acts(r)
  BY <1>10, RevokeEndMoves, Here, Parts DEF RevokeEnd, Acts, Ending, docs
<1>11. ASSUME NEW r \in Requests, NEW t \in Tokens, RevokeOne(r, t)
       PROVE  Moves(r) /\ Acts(r)
  <2>1. Moves(r) BY <1>11, StandMoves DEF RevokeOne, lifeVars
  <2> QED BY <1>11, <2>1 DEF RevokeOne, Matches, Live, requestVars, Acts, Ends
<1> QED
  BY <1>1, <1>2, <1>3, <1>5, <1>6, <1>7, <1>8, <1>9, <1>10, <1>11 DEF SessionNext, Turn

LEMMA OpeningActs ==
    ASSUME TypeInv, OpeningNext, UNCHANGED sessionVars
    PROVE  \E r \in Requests : Turn(r)
<1>1. ASSUME NEW r \in Requests, NEW c \in OpeningCalls, Middleware(r, c), UNCHANGED openingVars
      PROVE  Moves(r) /\ Acts(r)
  BY <1>1, CallKinds, MiddlewareMoves, Here, Parts
  DEF Middleware, Acts, Failing, Advancing, docs, Arrive
<1>2. ASSUME NEW r \in Requests, OpenUser(r) \/ OpenKey(r)
      PROVE  Moves(r) /\ Acts(r)
  BY <1>2, OpeningMoves, Here, Parts
  DEF OpenUser, OpenKey, At, Acts, Failing, Advancing, docs
<1>3. ASSUME NEW r \in Requests, OpenCount(r)
      PROVE  Moves(r) /\ Acts(r)
  <2>1. Moves(r) BY <1>3, OpeningMoves
  <2> QED BY <1>3, <2>1, Here, Parts
       DEF OpenCount, At, Acts, Failing, Allows, docs, openingVars
<1>4. ASSUME NEW r \in Requests, OpenCommit(r)
      PROVE  Moves(r) /\ Acts(r)
  <2>1. Moves(r) BY <1>4, OpenCommitMoves
  <2> QED BY <1>4, <2>1, Here, Parts
       DEF OpenCommit, At, Acts, Failing, OpensAccount, docs, openingVars
<1> QED BY <1>1, <1>2, <1>3, <1>4 DEF OpeningNext, Turn

\* Every step is one request's turn or the removal of a token.
LEMMA StepCases ==
    ASSUME TypeInv, Next
    PROVE  \/ \E r \in Requests : Turn(r)
           \/ \E t \in Tokens : TokenReap(t) /\ UNCHANGED openingVars
<1>1. CASE LifeNext /\ UNCHANGED <<sessionVars, openingVars>> BY <1>1, LifeActs
<1>2. CASE OpeningNext /\ UNCHANGED sessionVars BY <1>2, OpeningActs
<1>3. CASE SessionNext /\ UNCHANGED openingVars BY <1>3, SessionActs
<1> QED BY <1>1, <1>2, <1>3 DEF Next, Step

-----------------------------------------------------------------------------
(* Accounts and keys.                                                       *)

LEMMA AccountsGrow ==
    ASSUME TypeInv, [Next]_vars
    PROVE  UNCHANGED opened \/ \E r \in Requests : Turn(r) /\ OpensAccount(r)
<1>1. CASE UNCHANGED vars BY <1>1 DEF vars, openingVars
<1>2. CASE Next
  <2>1. CASE \E t \in Tokens : TokenReap(t) /\ UNCHANGED openingVars BY <2>1 DEF openingVars
  <2>2. ASSUME NEW r \in Requests, Turn(r) PROVE UNCHANGED opened \/ OpensAccount(r)
    BY <2>2 DEF Turn, Acts, Failing, Advancing, Ending, Registers, Saves, FindsLive,
                FindsRevoked, FindsAll, Spends, Ends, Stores, Allows, docs, openingVars
  <2> QED BY <1>2, <2>1, <2>2, StepCases
<1> QED BY <1>1, <1>2

\* An idempotency key opens one account: the only step that opens one finds the
\* key unused, and no step removes an account.
THEOREM KeysOpenOnce == Spec => []KeyOpensOnce
<1>1. Init => KeyOpensOnce BY ExistingAssumption DEF Init, OpeningInit, KeyOpensOnce
<1>2. TypeInv /\ KeyOpensOnce /\ [Next]_vars => KeyOpensOnce'
  <2> SUFFICES ASSUME TypeInv, KeyOpensOnce, [Next]_vars PROVE KeyOpensOnce' OBVIOUS
  <2>1. CASE UNCHANGED opened BY <2>1 DEF KeyOpensOnce
  <2>2. ASSUME NEW r \in Requests, OpensAccount(r) PROVE KeyOpensOnce'
    BY <2>2 DEF KeyOpensOnce, OpensAccount, NewAccount
  <2> QED BY <2>1, <2>2, AccountsGrow
<1> QED BY <1>1, <1>2, Typed, PTL DEF Spec

-----------------------------------------------------------------------------
(* Users.                                                                   *)

\* No user document goes away.
LEMMA UsersRemain == ASSUME TypeInv, [Next]_vars PROVE UsersStay
<1>1. CASE UNCHANGED user BY <1>1 DEF UsersStay
<1>2. ASSUME NEW r \in Requests, Registers(r) PROVE UsersStay
  BY <1>2, NewUserDoc, UserNone, Here DEF Registers, UsersStay, UsersTyped
<1>3. ASSUME NEW r \in Requests, Saves(r) PROVE UsersStay
  <2> DEFINE u == call[r].user
             doc == Written(call[r].op, held[r], user[u])
  <2>1. UsersTyped /\ call[r] \in Calls /\ call[r].op \in Saving /\ held[r] \in UserDocs
        /\ user[u] # None
    BY <1>3, Here DEF Saves, Fits
  <2>2. u \in Users BY <2>1, CallFacts DEF Saving, Deactivations
  <2>3. doc \in UserDocs BY <2>1, <2>2, WrittenTyped DEF UsersTyped
  <2>4. doc # None BY <2>3, UserNone
  <2>5. user' = [user EXCEPT ![u] = doc] BY <1>3 DEF Saves, Save
  <2> HIDE DEF doc, u
  <2> QED BY <2>1, <2>2, <2>4, <2>5 DEF UsersTyped, UsersStay
<1>4. CASE UNCHANGED vars BY <1>1, <1>4 DEF vars, lifeVars
<1>5. CASE Next
  <2>1. CASE \E t \in Tokens : TokenReap(t) /\ UNCHANGED openingVars
    BY <1>1, <2>1 DEF TokenReap, lifeVars
  <2>2. ASSUME NEW r \in Requests, Turn(r) PROVE UNCHANGED user \/ Registers(r) \/ Saves(r)
    BY <2>2 DEF Turn, Acts, Failing, Advancing, Ending, FindsLive, FindsRevoked, FindsAll,
                Spends, Ends, Stores, Allows, OpensAccount, docs, lifeVars
  <2> QED BY <1>1, <1>2, <1>3, <1>5, <2>1, <2>2, StepCases
<1> QED BY <1>4, <1>5

\* Request r has created its user.
Created(r) ==
    /\ pc[r] # "idle" /\ call[r].op = "register"
    /\ pc[r] = "enqueue" \/ answer[r] = "ok"

OneCreation ==
    /\ \A r \in Requests : Created(r) => user[call[r].user] # None
    /\ \A r, q \in Requests : Created(r) /\ Created(q) /\ call[r].user = call[q].user => r = q

LEMMA CreationSteps ==
    ASSUME TypeInv, NEW r \in Requests, Turn(r), Created(r)'
    PROVE  Registers(r) \/ (Created(r) /\ call'[r] = call[r])
<1>1. Moves(r) /\ Acts(r) BY DEF Turn
<1>2. pc'[r] # "enqueue" => pc'[r] = "done"
  BY <1>1 DEF Moves, Fits, Created
<1>3. Fits(pc[r], call[r], held[r], answer[r], user) BY Here
<1>4. CASE Failing(r) BY <1>4 DEF Failing, Created
<1>5. CASE Advancing(r) BY <1>2, <1>5 DEF Advancing, Created
<1>6. CASE Ending(r) BY <1>3, <1>6 DEF Ending, Created, Fits
<1>7. CASE Saves(r) BY <1>3, <1>7 DEF Saves, Created, Fits, Saving, Deactivations
<1>8. CASE FindsLive(r) \/ FindsRevoked(r) \/ FindsAll(r)
  BY <1>2, <1>8 DEF FindsLive, FindsRevoked, FindsAll
<1>9. CASE Spends(r) \/ Allows(r) \/ OpensAccount(r)
  BY <1>9 DEF Spends, Allows, OpensAccount, Created
<1>10. CASE Ends(r) BY <1>2, <1>10 DEF Ends, Created
<1>11. CASE \/ call[r].op = "login" /\ Stores(r, call[r].user, r)
            \/ call[r].op = "refreshToken" /\ Stores(r, held[r].userId, held[r].family)
  BY <1>11 DEF Stores, Created
<1> QED BY <1>1, <1>4, <1>5, <1>6, <1>7, <1>8, <1>9, <1>10, <1>11 DEF Acts

\* One address is registered by one request: whoever has created the document
\* found none, and it stays.
THEOREM RegistrationsUnique == Spec => []OneRegistration
<1>1. Init => OneCreation BY DEF Init, RequestInit, OneCreation, Created
<1>2. TypeInv /\ OneCreation /\ [Next]_vars => OneCreation'
  <2> SUFFICES ASSUME TypeInv, OneCreation, [Next]_vars PROVE OneCreation' OBVIOUS
  <2>1. UsersStay BY UsersRemain
  <2>2. \A q \in Requests : Created(q) => call[q].user \in Users
    BY Here, CallFacts DEF Created
  <2>3. CASE UNCHANGED requestVars
    BY <2>1, <2>2, <2>3 DEF OneCreation, Created, requestVars, UsersStay
  <2>4. ASSUME NEW r \in Requests, Turn(r) PROVE OneCreation'
    <3>1. \A q \in Requests \ {r} : /\ Created(q)' <=> Created(q)
                                    /\ call'[q] = call[q]
      BY <2>4 DEF Turn, Moves, Only, Created
    <3>2. CASE Registers(r)
      <4>1. user[call[r].user] = None /\ call'[r] = call[r] /\ user'[call[r].user] # None
        BY <3>2, Here, CallFacts, NewUserDoc, UserNone DEF Registers, UsersTyped
      <4> QED BY <2>1, <2>2, <3>1, <4>1 DEF OneCreation, UsersStay
    <3>3. CASE Created(r)' => Created(r) /\ call'[r] = call[r]
      BY <2>1, <2>2, <3>1, <3>3 DEF OneCreation, UsersStay
    <3> QED BY <2>4, <3>2, <3>3, CreationSteps
  <2>5. CASE UNCHANGED vars BY <2>3, <2>5 DEF vars
  <2>6. CASE Next
    <3>1. CASE \E t \in Tokens : TokenReap(t) /\ UNCHANGED openingVars
      BY <2>3, <3>1 DEF TokenReap
    <3> QED BY <2>4, <2>6, <3>1, StepCases
  <2> QED BY <2>5, <2>6
<1>3. TypeInv /\ OneCreation => OneRegistration
  <2> SUFFICES ASSUME TypeInv, OneCreation PROVE OneRegistration OBVIOUS
  <2>1. \A r \in Requests : answer[r] = "ok" => pc[r] # "idle"
    BY Here DEF Fits
  <2> QED BY <2>1 DEF OneCreation, Created, OneRegistration
<1> QED BY <1>1, <1>2, <1>3, Typed, PTL DEF Spec

\* What a save does to its user: r's copy read, the document before and after.
LEMMA SaveWrites ==
    ASSUME TypeInv, NEW r \in Requests, Saves(r)
    PROVE  /\ call[r].user \in Users /\ call[r].op \in Saving
           /\ held[r] \in UserDocs /\ user[call[r].user] \in UserDocs
           /\ user'[call[r].user] = Written(call[r].op, held[r], user[call[r].user])
           /\ \A u \in Users : u # call[r].user => user'[u] = user[u]
<1>1. UsersTyped /\ call[r] \in Calls /\ call[r].op \in Saving /\ held[r] \in UserDocs
      /\ user[call[r].user] # None
  BY Here DEF Saves, Fits
<1>2. call[r].user \in Users BY <1>1, CallFacts DEF Saving, Deactivations
<1>3. user' = [user EXCEPT ![call[r].user] =
                  Written(call[r].op, held[r], user[call[r].user])]
  BY DEF Saves, Save
<1> QED BY <1>1, <1>2, <1>3 DEF UsersTyped

LEMMA UsersChange ==
    ASSUME TypeInv, [Next]_vars
    PROVE  \/ UNCHANGED user
           \/ \E r \in Requests : Turn(r) /\ (Registers(r) \/ Saves(r))
<1>1. CASE UNCHANGED vars BY <1>1 DEF vars, lifeVars
<1>2. CASE Next
  <2>1. CASE \E t \in Tokens : TokenReap(t) /\ UNCHANGED openingVars
    BY <2>1 DEF TokenReap, lifeVars
  <2>2. ASSUME NEW r \in Requests, Turn(r) PROVE UNCHANGED user \/ Registers(r) \/ Saves(r)
    BY <2>2 DEF Turn, Acts, Failing, Advancing, Ending, FindsLive, FindsRevoked, FindsAll,
                Spends, Ends, Stores, Allows, OpensAccount, docs, lifeVars
  <2> QED BY <1>2, <2>1, <2>2, StepCases
<1> QED BY <1>1, <1>2

\* What the handlers write, field by field.
LEMMA WrittenFields ==
    ASSUME NEW op \in Saving, NEW read \in UserDocs, NEW doc \in UserDocs
    PROVE  /\ op = "activateUser" =>
                  /\ Written(op, read, doc).isActive = doc.isActive
                  /\ Written(op, read, doc).deactivatedAt = doc.deactivatedAt
           /\ op \in Deactivations =>
                  /\ Written(op, read, doc).isActive => doc.isActive
                  /\ Written(op, read, doc).deactivatedAt = "date"
           /\ op = "requestReactivationOtp" =>
                  /\ Written(op, read, doc).isActive => doc.isActive \/ ~read.isActive
                  /\ doc.isActive \/ ~read.isActive => Written(op, read, doc).isActive
           /\ Written(op, read, doc) \in UserDocs
<1>1. CASE op = "activateUser"
  <2>1. Written(op, read, doc) = [doc EXCEPT !.isVerified = TRUE]
    BY <1>1 DEF Written, Deactivations
  <2> QED BY <1>1, <2>1 DEF UserDocs, Deactivations
<1>2. CASE op \in Deactivations
  <2>1. Written(op, read, doc) =
            [doc EXCEPT !.isActive = IF read.isActive THEN FALSE ELSE @,
                        !.deactivatedAt = "date"]
    BY <1>2 DEF Written, Deactivations
  <2> QED BY <1>2, <2>1 DEF UserDocs, Deactivations
<1>3. CASE op = "requestReactivationOtp"
  <2>1. Written(op, read, doc) =
            [doc EXCEPT !.isActive = IF read.isActive THEN @ ELSE TRUE,
                        !.deactivatedAt = IF read.deactivatedAt = "null" THEN @ ELSE "null"]
    BY <1>3 DEF Written, Deactivations
  <2>2. Written(op, read, doc).isActive = IF read.isActive THEN doc.isActive ELSE TRUE
    BY <2>1 DEF UserDocs
  <2>3. read.isActive \in BOOLEAN /\ doc.isActive \in BOOLEAN BY DEF UserDocs
  <2>4. Written(op, read, doc) \in UserDocs BY WrittenTyped
  <2> QED BY <1>3, <2>2, <2>3, <2>4 DEF Deactivations
<1> QED BY <1>1, <1>2, <1>3 DEF Saving

\* An inactive user becomes active only by a reactivation that had read the user
\* as inactive: no other late save writes isActive, and that one only then.
THEOREM NobodyResurrected == Spec => NoResurrection
<1>1. TypeInv /\ [Next]_vars =>
        [\A u \in Users :
            user[u] # None /\ user'[u] # user[u] /\ ~user[u].isActive /\ user'[u].isActive =>
                \E r \in Requests : /\ pc[r] = "save" /\ pc'[r] = "enqueue"
                                    /\ call[r].op = "requestReactivationOtp"
                                    /\ ~held[r].isActive]_<<user, requestVars>>
  <2> SUFFICES ASSUME TypeInv, [Next]_vars, NEW u \in Users,
                      user[u] # None, user'[u] # user[u], ~user[u].isActive, user'[u].isActive
               PROVE  \E r \in Requests : /\ pc[r] = "save" /\ pc'[r] = "enqueue"
                                          /\ call[r].op = "requestReactivationOtp"
                                          /\ ~held[r].isActive
    OBVIOUS
  <2>1. PICK r \in Requests : Registers(r) \/ Saves(r) BY UsersChange
  <2>2. ~Registers(r)
    <3> SUFFICES ASSUME Registers(r) PROVE FALSE OBVIOUS
    <3>1. u # call[r].user BY DEF Registers
    <3>2. UsersTyped BY Here
    <3> QED BY <3>1, <3>2 DEF Registers, UsersTyped
  <2>3. Saves(r) /\ u = call[r].user BY <2>1, <2>2, SaveWrites
  <2>4. /\ call[r].op \in Saving /\ held[r] \in UserDocs /\ user[u] \in UserDocs
        /\ user'[u] = Written(call[r].op, held[r], user[u])
    BY <2>3, SaveWrites
  <2>5. call[r].op # "activateUser" /\ call[r].op \notin Deactivations
    BY <2>4, WrittenFields
  <2>6. call[r].op = "requestReactivationOtp" BY <2>4, <2>5 DEF Saving
  <2>7. user'[u].isActive => user[u].isActive \/ ~held[r].isActive
    BY <2>4, <2>6, WrittenFields
  <2> QED BY <2>3, <2>6, <2>7 DEF Saves
<1> QED BY <1>1, Typed, PTL DEF Spec, NoResurrection

\* A reactivation that read its user as active.
Reaffirms(r) ==
    pc[r] = "save" /\ call[r].op = "requestReactivationOtp" /\ held[r].isActive

\* A user nobody has crossed is active while a reactivation holds an active copy.
CopiesCurrent ==
    \A r \in Requests :
        Reaffirms(r) /\ call[r].user \notin crossed => user[call[r].user].isActive

Dated ==
    \A u \in Users \ crossed :
        user[u] # None /\ ~user[u].isActive => user[u].deactivatedAt = "date"

LEMMA CrossedGrows == ASSUME TypeInv, [Next]_vars PROVE crossed \subseteq crossed'
<1>1. CASE UNCHANGED vars BY <1>1 DEF vars, lifeVars
<1>2. CASE Next
  <2>1. CASE \E t \in Tokens : TokenReap(t) /\ UNCHANGED openingVars
    BY <2>1 DEF TokenReap, lifeVars
  <2>2. ASSUME NEW r \in Requests, Turn(r) PROVE UNCHANGED crossed \/ Saves(r)
    BY <2>2 DEF Turn, Acts, Failing, Advancing, Ending, Registers, FindsLive, FindsRevoked,
                FindsAll, Spends, Ends, Stores, Allows, OpensAccount, docs, lifeVars
  <2>3. ASSUME NEW r \in Requests, Saves(r) PROVE crossed \subseteq crossed'
    BY <2>3 DEF Saves, Save
  <2> QED BY <1>2, <2>1, <2>2, <2>3, StepCases
<1> QED BY <1>1, <1>2

\* A copy taken by a reactivation is the document.
LEMMA CopyTaken ==
    ASSUME TypeInv, NEW r \in Requests, Turn(r), Reaffirms(r)'
    PROVE  /\ UNCHANGED user
           /\ call'[r].user \in Users
           /\ user[call'[r].user].isActive
<1>1. Moves(r) /\ Acts(r) /\ pc'[r] = "save" BY DEF Turn, Reaffirms
<1>2. UNCHANGED docs /\ held'[r] = user[call'[r].user]
  BY <1>1 DEF Acts, Failing, Advancing, Ending, Registers, Saves, FindsLive, FindsRevoked,
              FindsAll, Spends, Ends, Stores, Allows, OpensAccount
<1>3. call'[r] \in Calls BY <1>1 DEF Moves, Fits
<1>4. call'[r].user \in Users BY <1>3, CallFacts DEF Reaffirms
<1>5. user[call'[r].user].isActive BY <1>2 DEF Reaffirms
<1> QED BY <1>2, <1>4, <1>5 DEF docs, lifeVars

LEMMA DatedStep ==
    ASSUME TypeInv, CopiesCurrent, Dated, [Next]_vars
    PROVE  CopiesCurrent' /\ Dated'
<1>1. crossed \subseteq crossed' BY CrossedGrows
<1>2. ASSUME NEW r \in Requests, Turn(r), NEW q \in Requests \ {r}
      PROVE  Reaffirms(q)' <=> Reaffirms(q)
  BY <1>2 DEF Turn, Moves, Only, Reaffirms
<1>3. ASSUME NEW r \in Requests, Turn(r), NEW q \in Requests \ {r}
      PROVE  call'[q] = call[q]
  BY <1>3 DEF Turn, Moves, Only
<1>4. CASE UNCHANGED user
  <2>1. Dated' BY <1>1, <1>4 DEF Dated
  <2>2. CASE UNCHANGED requestVars
    BY <1>1, <1>4, <2>1, <2>2 DEF CopiesCurrent, requestVars, Reaffirms
  <2>3. ASSUME NEW r \in Requests, Turn(r) PROVE CopiesCurrent'
    BY <1>1, <1>2, <1>3, <1>4, <2>3, CopyTaken DEF CopiesCurrent
  <2>4. CASE UNCHANGED vars BY <2>1, <2>2, <2>4 DEF vars
  <2>5. CASE Next
    <3>1. CASE \E t \in Tokens : TokenReap(t) /\ UNCHANGED openingVars
      BY <2>1, <2>2, <3>1 DEF TokenReap
    <3> QED BY <2>1, <2>3, <2>5, <3>1, StepCases
  <2> QED BY <2>4, <2>5
<1>5. ASSUME NEW r \in Requests, Turn(r), Registers(r) PROVE CopiesCurrent' /\ Dated'
  <2> DEFINE u == call[r].user
  <2>1. /\ u \in Users /\ user[u] = None /\ user'[u].isActive
        /\ \A x \in Users \ {u} : user'[x] = user[x]
    BY <1>5, Here, CallFacts DEF Registers, UsersTyped
  <2>2. \A q \in Requests : Reaffirms(q) => call[q].user \in Users /\ user[call[q].user] # None
    BY Here, CallFacts DEF Reaffirms, Fits
  <2>3. ~Reaffirms(r)' BY <1>5 DEF Registers, Reaffirms
  <2> HIDE DEF u
  <2>4. Dated' BY <1>1, <2>1 DEF Dated
  <2>5. CopiesCurrent' BY <1>1, <1>2, <1>3, <1>5, <2>1, <2>2, <2>3 DEF CopiesCurrent
  <2> QED BY <2>4, <2>5
<1>6. ASSUME NEW r \in Requests, Turn(r), Saves(r) PROVE CopiesCurrent' /\ Dated'
  <2> DEFINE u == call[r].user
             doc == Written(call[r].op, held[r], user[u])
  <2>1. /\ u \in Users /\ call[r].op \in Saving /\ held[r] \in UserDocs
        /\ user[u] \in UserDocs /\ user'[u] = doc
        /\ \A x \in Users : x # u => user'[x] = user[x]
    BY <1>6, SaveWrites
  <2>2. user[u] # None BY <2>1, UserNone
  <2>3. pc[r] = "save" /\ ~Reaffirms(r)' BY <1>6 DEF Saves, Reaffirms
  <2>4. \A q \in Requests : Reaffirms(q) => call[q].user \in Users
    BY Here, CallFacts DEF Reaffirms
  <2>5. \A q \in Requests \ {r} :
            Reaffirms(q) /\ call[q].user = u /\ call[r].op \in Deactivations => u \in crossed'
    BY <1>6, Here DEF Reaffirms, Saves, Save, Crossing, UsersTyped
  <2>6. u \notin crossed' => u \notin crossed BY <1>1
  <2>7. CASE call[r].op = "activateUser"
    <3>1. doc.isActive = user[u].isActive /\ doc.deactivatedAt = user[u].deactivatedAt
      BY <2>1, <2>7, WrittenFields
    <3> HIDE DEF u, doc
    <3>2. Dated' BY <1>1, <2>1, <2>2, <3>1 DEF Dated
    <3>3. CopiesCurrent' BY <1>1, <1>2, <1>3, <1>6, <2>1, <2>3, <2>4, <3>1 DEF CopiesCurrent
    <3> QED BY <3>2, <3>3
  <2>8. CASE call[r].op \in Deactivations
    <3>1. doc.deactivatedAt = "date" BY <2>1, <2>8, WrittenFields
    <3> HIDE DEF u, doc
    <3>2. Dated' BY <1>1, <2>1, <2>2, <3>1 DEF Dated
    <3>3. CopiesCurrent'
      BY <1>1, <1>2, <1>3, <1>6, <2>1, <2>3, <2>4, <2>5, <2>8 DEF CopiesCurrent
    <3> QED BY <3>2, <3>3
  <2>9. CASE call[r].op = "requestReactivationOtp"
    <3>1. user[u].isActive \/ ~held[r].isActive => doc.isActive
      BY <2>1, <2>9, WrittenFields
    <3>2. u \notin crossed /\ held[r].isActive => user[u].isActive
      BY <2>3, <2>9 DEF CopiesCurrent, Reaffirms
    <3>3. u \notin crossed => doc.isActive BY <2>1, <3>1, <3>2 DEF UserDocs
    <3> HIDE DEF u, doc
    <3>4. Dated' BY <1>1, <2>1, <3>3 DEF Dated
    <3>5. CopiesCurrent'
      BY <1>1, <1>2, <1>3, <1>6, <2>1, <2>3, <2>4, <3>3 DEF CopiesCurrent
    <3> QED BY <3>4, <3>5
  <2> QED BY <2>1, <2>7, <2>8, <2>9 DEF Saving
<1> QED BY <1>4, <1>5, <1>6, UsersChange

\* An inactive user has a date of deactivation, unless crossed: a reactivation
\* that read an active user leaves isActive alone and clears the date, which
\* only harms when the user was deactivated in between.
THEOREM DeactivationsDated == Spec => []DeactivationDated
<1>1. Init => CopiesCurrent /\ Dated
  <2> SUFFICES ASSUME Init PROVE CopiesCurrent /\ Dated OBVIOUS
  <2>1. CopiesCurrent BY DEF Init, RequestInit, CopiesCurrent, Reaffirms
  <2>2. Dated BY DEF Init, LifeInit, Dated
  <2> QED BY <2>1, <2>2
<1>2. TypeInv /\ CopiesCurrent /\ Dated /\ [Next]_vars => CopiesCurrent' /\ Dated'
  BY DatedStep
<1>3. Dated => DeactivationDated BY DEF Dated, DeactivationDated
<1> QED BY <1>1, <1>2, <1>3, Typed, PTL DEF Spec

-----------------------------------------------------------------------------
(* Tokens.                                                                  *)

StoresFor(r) ==
    \/ call[r].op = "login" /\ Stores(r, call[r].user, r)
    \/ call[r].op = "refreshToken" /\ Stores(r, held[r].userId, held[r].family)

\* No token is stored and none comes to life.
Fades ==
    /\ UNCHANGED lineage
    /\ \A t \in Tokens :
          /\ Live(t)' => Live(t)
          /\ tokens'[t] # None =>
                /\ tokens[t] # None
                /\ tokens'[t].userId = tokens[t].userId
                /\ tokens'[t].family = tokens[t].family

\* A revocation keeps everything else.
LEMMA RevokeFades ==
    ASSUME TypeInv, NEW t \in Tokens, tokens[t] # None, Revoke(t), UNCHANGED lineage
    PROVE  Fades /\ ~Live(t)'
<1> DEFINE doc == [tokens[t] EXCEPT !.isRevoked = TRUE]
<1>1. TokensTyped /\ tokens[t] \in TokenDocs BY Here DEF TypeInv, TokensTyped
<1>2. /\ doc.isRevoked = TRUE
      /\ doc.userId = tokens[t].userId /\ doc.family = tokens[t].family
  BY <1>1 DEF TokenDocs
<1>3. tokens' = [tokens EXCEPT ![t] = doc] BY DEF Revoke
<1> HIDE DEF doc
<1>4. \A x \in Tokens : tokens'[x] = IF x = t THEN doc ELSE tokens[x]
  BY <1>1, <1>3 DEF TokensTyped
<1> QED BY <1>2, <1>4 DEF Fades, Live

LEMMA TokensChange ==
    ASSUME TypeInv, [Next]_vars
    PROVE  Fades \/ \E r \in Requests : Turn(r) /\ StoresFor(r)
<1>1. UNCHANGED <<tokens, lineage>> => Fades BY DEF Fades, Live
<1>2. CASE UNCHANGED vars BY <1>1, <1>2 DEF vars, sessionVars
<1>3. CASE Next
  <2>1. CASE \E t \in Tokens : TokenReap(t) /\ UNCHANGED openingVars
    <3> PICK t \in Tokens : TokenReap(t) BY <2>1
    <3>1. \A x \in Tokens : tokens'[x] = IF x = t THEN None ELSE tokens[x]
      BY DEF TokenReap, TypeInv, TokensTyped
    <3> QED BY <3>1 DEF Fades, Live, TokenReap
  <2>2. ASSUME NEW r \in Requests, Turn(r) PROVE Fades \/ StoresFor(r)
    <3>1. CASE Failing(r) \/ Advancing(r) \/ Ending(r) \/ Registers(r) \/ Saves(r)
                 \/ Allows(r) \/ OpensAccount(r)
      <4>1. UNCHANGED sessionVars
        BY <3>1 DEF Failing, Advancing, Ending, Registers, Saves, Allows, OpensAccount, docs
      <4> QED BY <1>1, <4>1 DEF sessionVars
    <3>2. CASE FindsLive(r) \/ FindsRevoked(r) \/ FindsAll(r)
      BY <1>1, <3>2 DEF FindsLive, FindsRevoked, FindsAll
    <3>3. CASE Spends(r) BY <3>3, RevokeFades DEF Spends
    <3>4. CASE Ends(r) BY <1>1, <3>4, RevokeFades DEF Ends
    <3> QED BY <2>2, <3>1, <3>2, <3>3, <3>4 DEF Turn, Acts, StoresFor
  <2> QED BY <1>3, <2>1, <2>2, StepCases
<1> QED BY <1>2, <1>3

\* A request that has started never becomes idle again.
LEMMA NeverIdle ==
    ASSUME TypeInv, [Next]_vars, NEW r \in Requests, pc[r] # "idle"
    PROVE  pc'[r] # "idle"
<1>1. CASE UNCHANGED requestVars BY <1>1 DEF requestVars
<1>2. ASSUME NEW q \in Requests, Turn(q) PROVE pc'[q] # "idle"
  BY <1>2 DEF Turn, Acts, Failing, Advancing, Ending, Registers, Saves, FindsLive,
              FindsRevoked, FindsAll, Spends, Ends, Stores, Allows, OpensAccount
<1>3. CASE UNCHANGED vars BY <1>1, <1>3 DEF vars
<1>4. CASE Next
  <2>1. CASE \E t \in Tokens : TokenReap(t) /\ UNCHANGED openingVars
    BY <1>1, <2>1 DEF TokenReap
  <2>2. CASE \E q \in Requests : Turn(q) BY <1>2, <2>2 DEF Turn, Moves, Only
  <2> QED BY <1>4, <2>1, <2>2, StepCases
<1> QED BY <1>3, <1>4

\* The documents, the scopes and the copies are of tokens that were stored, each
\* by a request that is done, in a family whose first token was.
TokensRecorded ==
    \A t \in Tokens :
        tokens[t] # None =>
            /\ lineage[t] # None
            /\ tokens[t].userId = lineage[t].userId
            /\ tokens[t].family = lineage[t].family
FamiliesRooted == \A t \in Tokens : lineage[t] # None => lineage[lineage[t].family] # None
StoredByDone == \A r \in Requests : lineage[r] # None => pc[r] = "done"
ScopesStored == \A r \in Requests : \A t \in scope[r] : lineage[t] # None
IdleEmpty == \A r \in Requests : pc[r] = "idle" => held[r] = None

\* Request r is a refresh that has found its token.
HasToken(r) == pc[r] # "idle" /\ call[r].op = "refreshToken" /\ held[r] # None

CopiesRecorded ==
    \A r \in Requests :
        HasToken(r) =>
            /\ lineage[call[r].token] # None
            /\ held[r].userId = lineage[call[r].token].userId
            /\ held[r].family = lineage[call[r].token].family

Rooted ==
    /\ TokensRecorded
    /\ FamiliesRooted
    /\ StoredByDone
    /\ ScopesStored
    /\ IdleEmpty
    /\ CopiesRecorded

LEMMA InitRooted == Init => Rooted
<1> SUFFICES ASSUME Init PROVE Rooted OBVIOUS
<1>1. /\ tokens = [t \in Tokens |-> IF t \in Opened THEN FirstDoc(t) ELSE None]
      /\ lineage = tokens /\ scope = [r \in Requests |-> {}]
  BY DEF Init, SessionInit
<1>2. \A t \in Opened : FirstDoc(t).family = t /\ FirstDoc(t) \in TokenDocs
  BY OpenedAssumption, RegisteredAssumption DEF FirstDoc, TokenDocs, Tokens
<1>3. \A t \in Tokens : lineage[t] # None <=> t \in Opened BY <1>1, <1>2, TokenNone
<1>4. TokensRecorded /\ ScopesStored BY <1>1 DEF TokensRecorded, ScopesStored
<1>5. FamiliesRooted BY <1>1, <1>2, <1>3 DEF FamiliesRooted
<1>6. StoredByDone BY <1>3, OpenedAssumption DEF StoredByDone, Tokens
<1>7. IdleEmpty /\ CopiesRecorded
  BY DEF Init, RequestInit, IdleEmpty, CopiesRecorded, HasToken
<1> QED BY <1>4, <1>5, <1>6, <1>7 DEF Rooted

\* What is stored, and where.
LEMMA StoresDoc ==
    ASSUME TypeInv, NEW r \in Requests, StoresFor(r)
    PROVE  /\ pc[r] = "store" /\ pc'[r] = "done" /\ call'[r] = call[r] /\ held'[r] = held[r]
           /\ tokens'[r] = lineage'[r] /\ tokens'[r] # None /\ tokens'[r] \in TokenDocs
           /\ ~tokens'[r].isRevoked
           /\ call[r].op = "login" =>
                  tokens'[r].userId = call[r].user /\ tokens'[r].family = r
           /\ call[r].op = "refreshToken" =>
                  tokens'[r].userId = held[r].userId /\ tokens'[r].family = held[r].family
           /\ \A t \in Tokens \ {r} : tokens'[t] = tokens[t] /\ lineage'[t] = lineage[t]
           /\ UNCHANGED <<user, crossed, scope, raced, openingVars>>
<1>1. pc[r] = "store" BY DEF StoresFor, Stores
<1>2. ASSUME NEW u \in Users, NEW f \in Tokens, Stores(r, u, f)
      PROVE  /\ tokens'[r] = lineage'[r] /\ tokens'[r] # None /\ tokens'[r] \in TokenDocs
             /\ ~tokens'[r].isRevoked /\ tokens'[r].userId = u /\ tokens'[r].family = f
             /\ \A t \in Tokens \ {r} : tokens'[t] = tokens[t] /\ lineage'[t] = lineage[t]
  <2> DEFINE doc == [userId |-> u, family |-> f, isRevoked |-> FALSE]
  <2>1. doc \in TokenDocs /\ doc.userId = u /\ doc.family = f /\ doc.isRevoked = FALSE
    BY DEF TokenDocs
  <2>2. doc # None BY <2>1, TokenNone
  <2>3. tokens' = [tokens EXCEPT ![r] = doc] /\ lineage' = [lineage EXCEPT ![r] = doc]
    BY <1>2 DEF Stores
  <2>4. r \in Tokens /\ TokensTyped BY Here DEF Tokens
  <2> HIDE DEF doc
  <2> QED BY <2>1, <2>2, <2>3, <2>4 DEF TokensTyped
<1>3. CASE call[r].op = "login" /\ Stores(r, call[r].user, r)
  <2>1. call[r].user \in Users /\ r \in Tokens BY <1>1, <1>3, StoringFor DEF Tokens
  <2> QED BY <1>1, <1>2, <1>3, <2>1 DEF Stores
<1>4. CASE call[r].op = "refreshToken" /\ Stores(r, held[r].userId, held[r].family)
  <2>1. held[r].userId \in Users /\ held[r].family \in Tokens BY <1>1, <1>4, StoringFor
  <2> QED BY <1>1, <1>2, <1>4, <2>1 DEF Stores
<1> QED BY <1>3, <1>4 DEF StoresFor

LEMMA LineageGrows ==
    ASSUME TypeInv, StoredByDone, [Next]_vars
    PROVE  \A t \in Tokens : lineage[t] # None => lineage'[t] = lineage[t]
<1>1. CASE Fades BY <1>1 DEF Fades
<1>2. ASSUME NEW r \in Requests, StoresFor(r)
      PROVE  \A t \in Tokens : lineage[t] # None => lineage'[t] = lineage[t]
  <2>1. lineage[r] = None BY <1>2, StoresDoc DEF StoredByDone
  <2> QED BY <1>2, <2>1, StoresDoc
<1> QED BY <1>1, <1>2, TokensChange

\* What a refresh holds after its step: what it held or the document it found.
LEMMA CopyFound ==
    ASSUME TypeInv, NEW r \in Requests, Turn(r), HasToken(r)'
    PROVE  \/ HasToken(r) /\ call'[r] = call[r] /\ held'[r] = held[r]
           \/ pc[r] = "idle" /\ held[r] # None
           \/ /\ call'[r].token \in Tokens /\ tokens[call'[r].token] # None
              /\ held'[r] = tokens[call'[r].token]
              /\ FindsLive(r) \/ FindsRevoked(r)
<1>1. Moves(r) /\ Acts(r) /\ call'[r].op = "refreshToken" /\ held'[r] # None
  BY DEF Turn, HasToken
<1>2. pc'[r] # "insert" /\ pc'[r] # "enter" /\ (pc'[r] = "save" => FALSE)
  BY <1>1 DEF Moves, Fits, Protected, Saving, Deactivations
<1>3. CASE Failing(r) BY <1>1, <1>3 DEF Failing, HasToken
<1>4. CASE Advancing(r) BY <1>1, <1>2, <1>4 DEF Advancing, HasToken
<1>5. CASE Ending(r) BY <1>1, <1>5 DEF Ending, HasToken
<1>6. CASE FindsLive(r) \/ FindsRevoked(r)
  BY <1>6 DEF FindsLive, FindsRevoked, Live
<1>7. CASE Registers(r) \/ Saves(r) \/ FindsAll(r) \/ Spends(r) \/ Ends(r) \/ Allows(r)
             \/ OpensAccount(r)
  BY <1>1, <1>7 DEF Registers, Saves, FindsAll, Spends, Ends, Allows, OpensAccount, HasToken
<1>8. CASE StoresFor(r) BY <1>1, <1>8 DEF StoresFor, Stores, HasToken
<1> QED BY <1>1, <1>3, <1>4, <1>5, <1>6, <1>7, <1>8 DEF Acts, StoresFor

\* A request that is done stays as it is.
LEMMA DoneStays ==
    ASSUME TypeInv, [Next]_vars, NEW r \in Requests, pc[r] = "done"
    PROVE  /\ pc'[r] = "done" /\ call'[r] = call[r] /\ held'[r] = held[r]
           /\ answer'[r] = answer[r] /\ scope'[r] = scope[r]
<1>1. CASE UNCHANGED vars BY <1>1 DEF vars, requestVars, sessionVars
<1>2. CASE Next
  <2>1. CASE \E t \in Tokens : TokenReap(t) /\ UNCHANGED openingVars
    BY <2>1 DEF TokenReap, requestVars
  <2>2. ASSUME NEW q \in Requests, Turn(q)
        PROVE  /\ pc'[r] = "done" /\ call'[r] = call[r] /\ held'[r] = held[r]
               /\ answer'[r] = answer[r] /\ scope'[r] = scope[r]
    <3>1. q # r
      BY <2>2 DEF Turn, Acts, Failing, Advancing, Ending, Registers, Saves, FindsLive,
                  FindsRevoked, FindsAll, Spends, Ends, Stores, Allows, OpensAccount
    <3>2. UNCHANGED scope \/ FindsRevoked(q) \/ FindsAll(q)
      BY <2>2 DEF Turn, Acts, Failing, Advancing, Ending, Registers, Saves, FindsLive,
                  Spends, Ends, Stores, Allows, OpensAccount, docs, sessionVars
    <3>3. scope'[r] = scope[r]
      BY <3>1, <3>2, Here DEF FindsRevoked, FindsAll, TokensTyped
    <3> QED BY <2>2, <3>1, <3>3 DEF Turn, Moves, Only
  <2> QED BY <1>2, <2>1, <2>2, StepCases
<1> QED BY <1>1, <1>2

\* What updateMany finds is live when it is found.
LEMMA ScopesFound ==
    ASSUME TypeInv, [Next]_vars, NEW r \in Requests, NEW t \in scope'[r]
    PROVE  t \in scope[r] \/ (tokens[t] # None /\ t \in Tokens)
<1>1. CASE UNCHANGED scope BY <1>1
<1>2. ASSUME NEW q \in Requests, FindsRevoked(q) \/ FindsAll(q)
      PROVE  t \in scope[r] \/ (tokens[t] # None /\ t \in Tokens)
  <2>1. TokensTyped BY Here
  <2>2. \A x \in scope'[q] : tokens[x] # None /\ x \in Tokens
    BY <1>2, <2>1 DEF FindsRevoked, FindsAll, TokensTyped, Live
  <2>3. q # r => scope'[r] = scope[r]
    BY <1>2, <2>1 DEF FindsRevoked, FindsAll, TokensTyped
  <2> QED BY <2>2, <2>3
<1>3. CASE UNCHANGED vars BY <1>1, <1>3 DEF vars, sessionVars
<1>4. CASE Next
  <2>1. CASE \E x \in Tokens : TokenReap(x) /\ UNCHANGED openingVars
    BY <1>1, <2>1 DEF TokenReap
  <2>2. ASSUME NEW q \in Requests, Turn(q)
        PROVE  UNCHANGED scope \/ FindsRevoked(q) \/ FindsAll(q)
    BY <2>2 DEF Turn, Acts, Failing, Advancing, Ending, Registers, Saves, FindsLive,
                Spends, Ends, Stores, Allows, OpensAccount, docs, sessionVars
  <2> QED BY <1>1, <1>2, <1>4, <2>1, <2>2, StepCases
<1> QED BY <1>3, <1>4

LEMMA IdleWaits ==
    ASSUME TypeInv, [Next]_vars, NEW r \in Requests, pc'[r] = "idle"
    PROVE  pc[r] = "idle" /\ held'[r] = held[r]
<1>1. CASE UNCHANGED requestVars BY <1>1 DEF requestVars
<1>2. ASSUME NEW q \in Requests, Turn(q) PROVE pc'[q] # "idle"
  BY <1>2 DEF Turn, Acts, Failing, Advancing, Ending, Registers, Saves, FindsLive,
              FindsRevoked, FindsAll, Spends, Ends, Stores, Allows, OpensAccount
<1>3. CASE UNCHANGED vars BY <1>1, <1>3 DEF vars
<1>4. CASE Next
  <2>1. CASE \E t \in Tokens : TokenReap(t) /\ UNCHANGED openingVars
    BY <1>1, <2>1 DEF TokenReap
  <2>2. CASE \E q \in Requests : Turn(q) BY <1>2, <2>2 DEF Turn, Moves, Only
  <2> QED BY <1>4, <2>1, <2>2, StepCases
<1> QED BY <1>3, <1>4

\* A refresh about to store has found a token that was stored.
LEMMA StoringRefresh ==
    ASSUME TypeInv, Rooted, NEW r \in Requests, HasToken(r)
    PROVE  /\ call[r].token \in Tokens /\ lineage[call[r].token] # None
           /\ held[r].userId = lineage[call[r].token].userId
           /\ held[r].family = lineage[call[r].token].family
BY Here, CallFacts DEF Rooted, HasToken, CopiesRecorded

LEMMA UsingToken ==
    ASSUME TypeInv, NEW r \in Requests, pc[r] \in {"user", "spend", "store", "revoke"},
           call[r].op = "refreshToken"
    PROVE  HasToken(r) /\ held[r] \in TokenDocs
BY Here, TokenNone DEF Fits, HasToken

LEMMA RootedStep ==
    ASSUME TypeInv, Rooted, [Next]_vars
    PROVE  Rooted'
<1>0. TokensTyped /\ TokensRecorded /\ FamiliesRooted /\ StoredByDone /\ ScopesStored
      /\ IdleEmpty /\ CopiesRecorded
  BY DEF Rooted, TypeInv
<1>1. \A t \in Tokens : lineage[t] # None => lineage'[t] = lineage[t] BY <1>0, LineageGrows
<1>2. \A t \in Tokens : lineage[t] # None => lineage[t] \in TokenDocs BY <1>0 DEF TokensTyped
<1>3. \A d \in TokenDocs : d.family \in Tokens BY DEF TokenDocs
<1>4. ASSUME Fades PROVE TokensRecorded' /\ FamiliesRooted' /\ StoredByDone'
  <2>1. TokensRecorded' BY <1>0, <1>4 DEF Fades, TokensRecorded
  <2>2. FamiliesRooted' BY <1>0, <1>4 DEF Fades, FamiliesRooted
  <2>3. StoredByDone' BY <1>0, <1>4, DoneStays DEF Fades, StoredByDone
  <2> QED BY <2>1, <2>2, <2>3
<1>5. ASSUME NEW r \in Requests, Turn(r), StoresFor(r)
      PROVE  TokensRecorded' /\ FamiliesRooted' /\ StoredByDone'
  <2>1. lineage[r] = None /\ r \in Tokens BY <1>0, <1>5, StoresDoc DEF StoredByDone, Tokens
  <2>2. TokensRecorded' BY <1>0, <1>5, <2>1, StoresDoc DEF TokensRecorded
  <2>3. lineage'[lineage'[r].family] # None
    <3>1. CASE call[r].op = "login" BY <1>5, <2>1, <3>1, StoresDoc
    <3>2. CASE call[r].op = "refreshToken"
      <4> DEFINE t == call[r].token
      <4>1. t \in Tokens /\ lineage[t] # None /\ held[r].family = lineage[t].family
        BY <1>5, <3>2, StoresDoc, UsingToken, StoringRefresh
      <4>2. lineage[t].family \in Tokens /\ lineage[lineage[t].family] # None
        BY <1>0, <1>2, <1>3, <4>1 DEF FamiliesRooted
      <4>3. lineage'[r].family = lineage[t].family BY <1>5, <3>2, <4>1, StoresDoc
      <4> QED BY <1>1, <4>2, <4>3
    <3> QED BY <1>5, <3>1, <3>2 DEF StoresFor
  <2>4. \A t \in Tokens \ {r} : lineage'[t] = lineage[t] BY <1>5, StoresDoc
  <2>5. FamiliesRooted'
    BY <1>0, <1>1, <1>2, <1>3, <2>3, <2>4 DEF FamiliesRooted
  <2>6. StoredByDone' BY <1>0, <1>5, <2>4, DoneStays, StoresDoc DEF StoredByDone, Tokens
  <2> QED BY <2>2, <2>5, <2>6
<1>6. TokensRecorded' /\ FamiliesRooted' /\ StoredByDone' BY <1>4, <1>5, TokensChange
<1>7. ScopesStored'
  <2> SUFFICES ASSUME NEW r \in Requests, NEW t \in scope'[r] PROVE lineage'[t] # None
    BY DEF ScopesStored
  <2>1. t \in Tokens /\ lineage[t] # None
    BY <1>0, ScopesFound DEF ScopesStored, TokensRecorded, TokensTyped
  <2> QED BY <1>1, <2>1
<1>8. IdleEmpty' BY <1>0, IdleWaits DEF IdleEmpty
<1>9. CopiesRecorded'
  <2> SUFFICES ASSUME NEW r \in Requests, HasToken(r)'
               PROVE  /\ lineage'[call'[r].token] # None
                      /\ held'[r].userId = lineage'[call'[r].token].userId
                      /\ held'[r].family = lineage'[call'[r].token].family
    BY DEF CopiesRecorded
  <2>1. CASE HasToken(r) /\ call'[r] = call[r] /\ held'[r] = held[r]
    BY <1>1, <2>1, StoringRefresh
  <2>2. CASE Turn(r)
    <3>1. CASE /\ call'[r].token \in Tokens /\ tokens[call'[r].token] # None
               /\ held'[r] = tokens[call'[r].token]
      BY <1>0, <1>1, <3>1 DEF TokensRecorded
    <3> QED BY <1>0, <2>1, <2>2, <3>1, CopyFound DEF IdleEmpty
  <2>3. CASE UNCHANGED requestVars BY <2>1, <2>3 DEF requestVars, HasToken
  <2>4. CASE UNCHANGED vars BY <2>3, <2>4 DEF vars
  <2>5. CASE Next
    <3>1. CASE \E t \in Tokens : TokenReap(t) /\ UNCHANGED openingVars
      BY <2>3, <3>1 DEF TokenReap
    <3>2. ASSUME NEW q \in Requests, Turn(q), q # r
          PROVE  HasToken(r) /\ call'[r] = call[r] /\ held'[r] = held[r]
      BY <3>2 DEF Turn, Moves, Only, HasToken
    <3> QED BY <2>1, <2>2, <2>5, <3>1, <3>2, StepCases
  <2> QED BY <2>4, <2>5
<1> QED BY <1>6, <1>7, <1>8, <1>9 DEF Rooted

LEMMA AlwaysRooted == Spec => []Rooted
BY InitRooted, RootedStep, Typed, PTL DEF Spec

\* A token that was stored and is not live stays so.
LEMMA DeadStay ==
    ASSUME TypeInv, Rooted, [Next]_vars, NEW t \in Tokens, lineage[t] # None, ~Live(t)
    PROVE  ~Live(t)'
<1>1. CASE Fades BY <1>1 DEF Fades
<1>2. ASSUME NEW r \in Requests, StoresFor(r) PROVE ~Live(t)'
  <2>1. t # r BY <1>2, StoresDoc DEF Rooted, StoredByDone
  <2> QED BY <1>2, <2>1, StoresDoc DEF Live
<1> QED BY <1>1, <1>2, TokensChange

\* What a request answers, and after what.
LEMMA Answered ==
    ASSUME TypeInv, NEW r \in Requests, Turn(r),
           \/ answer'[r] = "reuse"
           \/ answer'[r] = "ok" /\ call'[r].op = "logoutAllSessions"
    PROVE  /\ Ending(r) /\ pc[r] = "revoke"
           /\ UNCHANGED <<tokens, scope, lineage>>
           /\ \A t \in scope[r] : ~Live(t)
<1>1. Moves(r) /\ Acts(r) BY DEF Turn
<1>2. pc'[r] = "done" BY <1>1 DEF Moves, Fits
<1>3. Fits(pc[r], call[r], held[r], answer[r], user) BY Here
<1>4. CASE Ending(r)
  <2>1. pc[r] = "revoke"
    <3> SUFFICES ASSUME pc[r] = "enqueue" PROVE FALSE BY <1>4 DEF Ending
    <3> QED BY <1>3, <1>4 DEF Ending, Fits, Saving, Deactivations
  <2> QED BY <1>4, <2>1 DEF Ending, docs, sessionVars
<1>5. ~Failing(r) BY DEF Failing
<1>6. CASE Ends(r) BY <1>2, <1>6 DEF Ends
<1>7. CASE StoresFor(r)
  BY <1>7 DEF StoresFor, Stores
<1>8. ~Advancing(r) BY <1>2 DEF Advancing
<1>9. ~(Registers(r) \/ Saves(r) \/ FindsLive(r) \/ FindsRevoked(r) \/ FindsAll(r)
           \/ Spends(r) \/ Allows(r) \/ OpensAccount(r))
  BY <1>2 DEF Registers, Saves, FindsLive, FindsRevoked, FindsAll, Spends, Allows,
              OpensAccount
<1> QED BY <1>1, <1>4, <1>5, <1>6, <1>7, <1>8, <1>9 DEF Acts, StoresFor

\* What a logout of all sessions or a detected reuse has found live is dead from
\* its answer on: a token that is stored later is not among what was found, and
\* no other step brings a token to life.
THEOREM InvalidatedAreDead == Spec => []InvalidatedStayDead
<1>1. Init => InvalidatedStayDead BY DEF Init, RequestInit, InvalidatedStayDead
<1>2. TypeInv /\ Rooted /\ InvalidatedStayDead /\ [Next]_vars => InvalidatedStayDead'
  <2> SUFFICES ASSUME TypeInv, Rooted, InvalidatedStayDead, [Next]_vars, NEW r \in Requests,
                      \/ answer'[r] = "reuse"
                      \/ answer'[r] = "ok" /\ call'[r].op = "logoutAllSessions",
                      NEW t \in scope'[r]
               PROVE  ~Live(t)'
    BY DEF InvalidatedStayDead
  <2>1. CASE pc[r] = "done"
    <3>1. t \in scope[r] /\ ~Live(t) BY <2>1, DoneStays DEF InvalidatedStayDead
    <3>2. t \in Tokens /\ lineage[t] # None
      BY <3>1, Here DEF Rooted, ScopesStored, TokensTyped
    <3> QED BY <3>1, <3>2, DeadStay
  <2>2. CASE pc[r] # "done"
    <3>1. answer[r] = "none" BY <2>2, Here DEF Fits
    <3>2. Turn(r)
      <4>1. answer'[r] # answer[r] BY <3>1
      <4>2. ~UNCHANGED requestVars BY <4>1 DEF requestVars
      <4>3. Next /\ ~\E x \in Tokens : TokenReap(x) BY <4>2 DEF vars, TokenReap
      <4> QED BY <4>1, <4>3, StepCases DEF Turn, Moves, Only
    <3>3. UNCHANGED <<tokens, scope>> /\ \A x \in scope[r] : ~Live(x) BY <3>2, Answered
    <3> QED BY <3>3 DEF Live
  <2> QED BY <2>1, <2>2
<1> QED BY <1>1, <1>2, Typed, AlwaysRooted, PTL DEF Spec

-----------------------------------------------------------------------------
(* Sessions.                                                                *)

\* Refresh r has found token t live and has not spent it.
Holds(r, t) ==
    pc[r] \in {"user", "spend"} /\ call[r].op = "refreshToken" /\ call[r].token = t

\* Refresh r is about to store a successor.
Pending(r) == pc[r] = "store" /\ call[r].op = "refreshToken"

\* What keeps family f going: a token that is live or in the hands of a refresh,
\* or a successor that is about to be stored.
Slot(x, f) ==
    \/ /\ lineage[x] # None /\ lineage[x].family = f
       /\ Live(x) \/ \E r \in Requests : Holds(r, x)
    \/ x \in Requests /\ Pending(x) /\ held[x].family = f

\* A family has one slot, and one refresh holds its token.
Single ==
    \A f \in Tokens \ raced :
        /\ \A x, y \in Tokens : Slot(x, f) /\ Slot(y, f) => x = y
        /\ \A q, r \in Requests : \A t \in Tokens :
              Holds(q, t) /\ Holds(r, t) /\ lineage[t].family = f => q = r

\* A step is of one request that changes its label.
LEMMA OneTurn ==
    ASSUME NEW q \in Requests, NEW r \in Requests, Turn(q), Turn(r), pc'[q] # pc[q]
    PROVE  q = r
BY DEF Turn, Moves, Only

\* A request's label, call and copy change in its own steps only.
LEMMA OwnTurn ==
    ASSUME TypeInv, [Next]_vars, NEW r \in Requests
    PROVE  Turn(r) \/ (pc'[r] = pc[r] /\ call'[r] = call[r] /\ held'[r] = held[r])
<1>1. CASE UNCHANGED requestVars BY <1>1 DEF requestVars
<1>2. CASE UNCHANGED vars BY <1>1, <1>2 DEF vars
<1>3. CASE Next
  <2>1. CASE \E t \in Tokens : TokenReap(t) /\ UNCHANGED openingVars
    BY <1>1, <2>1 DEF TokenReap
  <2>2. ASSUME NEW q \in Requests, Turn(q), q # r
        PROVE  pc'[r] = pc[r] /\ call'[r] = call[r] /\ held'[r] = held[r]
    BY <2>2 DEF Turn, Moves, Only
  <2> QED BY <1>3, <2>1, <2>2, StepCases
<1> QED BY <1>2, <1>3

LEMMA HoldSources ==
    ASSUME TypeInv, [Next]_vars, NEW r \in Requests, NEW t, Holds(r, t)'
    PROVE  Holds(r, t) \/ (Turn(r) /\ FindsLive(r) /\ call'[r].token = t)
<1>1. CASE Turn(r)
  <2>1. CASE Advancing(r) BY <2>1 DEF Advancing, Holds
  <2>2. CASE FindsLive(r) BY <1>1, <2>2 DEF Holds
  <2>3. CASE StoresFor(r) BY <2>3 DEF StoresFor, Stores, Holds
  <2> QED BY <1>1, <2>1, <2>2, <2>3
       DEF Turn, Acts, Holds, Failing, Ending, Registers, Saves, FindsRevoked, FindsAll, Spends,
           Ends, StoresFor, Allows, OpensAccount
<1>2. CASE pc'[r] = pc[r] /\ call'[r] = call[r] BY <1>2 DEF Holds
<1> QED BY <1>1, <1>2, OwnTurn

LEMMA PendingSources ==
    ASSUME TypeInv, [Next]_vars, NEW r \in Requests, Pending(r)'
    PROVE  /\ call'[r] = call[r] /\ held'[r] = held[r]
           /\ Pending(r) \/ (Turn(r) /\ Spends(r))
<1>1. CASE Turn(r)
  <2>1. CASE Advancing(r) BY <2>1 DEF Advancing, Pending
  <2>2. CASE Spends(r) BY <1>1, <2>2 DEF Spends
  <2>3. CASE StoresFor(r) BY <2>3 DEF StoresFor, Stores, Pending
  <2> QED BY <1>1, <2>1, <2>2, <2>3
       DEF Turn, Acts, Pending, Failing, Ending, Registers, Saves, FindsLive, FindsRevoked,
           FindsAll, Ends, StoresFor, Allows, OpensAccount
<1>2. CASE pc'[r] = pc[r] /\ call'[r] = call[r] /\ held'[r] = held[r] BY <1>2 DEF Pending
<1> QED BY <1>1, <1>2, OwnTurn

\* A token that is held was stored.
LEMMA HeldStored ==
    ASSUME TypeInv, Rooted, NEW r \in Requests, NEW t, Holds(r, t)
    PROVE  t \in Tokens /\ lineage[t] # None /\ lineage[t].family = held[r].family
BY UsingToken, StoringRefresh DEF Holds

LEMMA SlotSources ==
    ASSUME TypeInv, Rooted, [Next]_vars, NEW x \in Tokens, NEW f, Slot(x, f)'
    PROVE  \/ Slot(x, f)
           \/ x \in Requests /\ Turn(x) /\ Spends(x) /\ held[x].family = f
           \/ x \in Requests /\ Turn(x) /\ StoresFor(x) /\ call[x].op = "login" /\ f = x
<1>1. CASE x \in Requests /\ Pending(x)' /\ held'[x].family = f
  BY <1>1, PendingSources DEF Slot
<1>2. CASE /\ lineage'[x] # None /\ lineage'[x].family = f
           /\ Live(x)' \/ \E r \in Requests : Holds(r, x)'
  <2>1. CASE lineage[x] = None
    <3>1. PICK r \in Requests : Turn(r) /\ StoresFor(r)
      BY <1>2, <2>1, TokensChange DEF Fades
    <3>2. x = r BY <1>2, <2>1, <3>1, StoresDoc
    <3>3. CASE call[r].op = "login" BY <1>2, <3>1, <3>2, <3>3, StoresDoc
    <3>4. CASE call[r].op = "refreshToken"
      BY <1>2, <3>1, <3>2, <3>4, StoresDoc DEF Slot, Pending
    <3> QED BY <3>1, <3>3, <3>4 DEF StoresFor
  <2>2. CASE lineage[x] # None
    <3>1. lineage'[x] = lineage[x] BY <2>2, LineageGrows DEF Rooted
    <3>2. Live(x)' => Live(x) BY <2>2, DeadStay
    <3>3. \A r \in Requests : Holds(r, x)' => Holds(r, x) \/ Live(x)
      BY HoldSources DEF FindsLive
    <3> QED BY <1>2, <2>2, <3>1, <3>2, <3>3 DEF Slot
  <2> QED BY <2>1, <2>2
<1> QED BY <1>1, <1>2 DEF Slot

LEMMA RacedGrows == ASSUME TypeInv, [Next]_vars PROVE raced \subseteq raced'
<1>1. CASE UNCHANGED vars BY <1>1 DEF vars, sessionVars
<1>2. CASE Next
  <2>1. CASE \E t \in Tokens : TokenReap(t) /\ UNCHANGED openingVars
    BY <2>1 DEF TokenReap
  <2>2. ASSUME NEW r \in Requests, Turn(r) PROVE UNCHANGED raced \/ FindsLive(r)
    BY <2>2 DEF Turn, Acts, Failing, Advancing, Ending, Registers, Saves, FindsRevoked,
                FindsAll, Spends, Ends, Stores, Allows, OpensAccount, docs, sessionVars
  <2>3. ASSUME NEW r \in Requests, FindsLive(r) PROVE raced \subseteq raced'
    BY <2>3 DEF FindsLive
  <2> QED BY <1>2, <2>1, <2>2, <2>3, StepCases
<1> QED BY <1>1, <1>2

\* The token a refresh spends gives its slot to the successor.
LEMMA SpentSlot ==
    ASSUME TypeInv, Rooted, Single, [Next]_vars,
           NEW r \in Requests, Turn(r), Spends(r),
           NEW f \in Tokens, held[r].family = f, f \notin raced,
           NEW y \in Tokens, Slot(y, f)
    PROVE  ~Slot(y, f)'
<1> PICK t \in Tokens : t = call[r].token BY DEF Spends
<1>1. Holds(r, t) /\ pc[r] = "spend" BY DEF Spends, Holds
<1>2. lineage[t] # None /\ lineage[t].family = f BY <1>1, HeldStored
<1>5. Slot(t, f) BY <1>1, <1>2 DEF Slot
<1>6. y = t BY <1>5 DEF Single
<1>7. ~Live(t)' BY <1>2, RevokeFades DEF Spends
<1>8. \A q \in Requests : ~Holds(q, t)'
  <2> SUFFICES ASSUME NEW q \in Requests, Holds(q, t)' PROVE FALSE OBVIOUS
  <2>1. q # r BY DEF Spends, Holds
  <2>2. pc'[r] # pc[r] BY DEF Spends
  <2>3. Holds(q, t) BY <2>1, <2>2, HoldSources, OneTurn
  <2> QED BY <1>1, <1>2, <2>1, <2>3 DEF Single
<1>9. t \in Requests => ~Pending(t)'
  BY <1>2, DoneStays DEF Rooted, StoredByDone, Pending
<1> QED BY <1>6, <1>7, <1>8, <1>9 DEF Slot

\* Nothing keeps a family going before its first token is stored.
LEMMA NewFamily ==
    ASSUME TypeInv, Rooted, NEW r \in Requests, lineage[r] = None, NEW y \in Tokens
    PROVE  ~Slot(y, r)
<1>1. lineage[y] # None => lineage[y].family # r BY DEF Rooted, FamiliesRooted
<1>2. y \in Requests /\ Pending(y) => held[y].family # r
  BY UsingToken, StoringRefresh DEF Pending, Rooted, FamiliesRooted
<1> QED BY <1>1, <1>2 DEF Slot

LEMMA SingleStep ==
    ASSUME TypeInv, Rooted, Single, [Next]_vars
    PROVE  Single'
<1> SUFFICES ASSUME NEW f \in Tokens, f \notin raced'
             PROVE  /\ \A x, y \in Tokens : Slot(x, f)' /\ Slot(y, f)' => x = y
                    /\ \A q, r \in Requests : \A t \in Tokens :
                          Holds(q, t)' /\ Holds(r, t)' /\ lineage'[t].family = f => q = r
  BY DEF Single
<1>1. f \notin raced BY RacedGrows
<1>2. \A r \in Requests : Spends(r) \/ StoresFor(r) => pc'[r] # pc[r]
  BY DEF Spends, StoresFor, Stores
<1>3. ASSUME NEW x \in Tokens, NEW y \in Tokens, Slot(x, f)', Slot(y, f)', ~Slot(x, f)
      PROVE  x = y
  <2>1. x \in Requests /\ Turn(x) BY <1>3, SlotSources
  <2>2. CASE ~Slot(y, f)
    <3>1. y \in Requests /\ Turn(y) BY <1>3, <2>2, SlotSources
    <3> QED BY <1>2, <1>3, <2>1, <3>1, SlotSources, OneTurn
  <2>3. CASE Slot(y, f) /\ Spends(x) /\ held[x].family = f
    BY <1>1, <1>3, <2>1, <2>3, SpentSlot
  <2>4. CASE Slot(y, f) /\ StoresFor(x) /\ f = x
    <3>1. lineage[x] = None BY <2>1, <2>4, StoresDoc DEF Rooted, StoredByDone
    <3> QED BY <2>1, <2>4, <3>1, NewFamily
  <2> QED BY <1>3, <2>2, <2>3, <2>4, SlotSources
<1>4. \A x, y \in Tokens : Slot(x, f)' /\ Slot(y, f)' => x = y
  BY <1>1, <1>3 DEF Single
<1>5. ASSUME NEW q \in Requests, NEW r \in Requests, NEW t \in Tokens,
             Holds(q, t)', Holds(r, t)', lineage'[t].family = f, q # r, ~Holds(q, t)
      PROVE  FALSE
  <2>1. Turn(q) /\ FindsLive(q) /\ call'[q].token = t BY <1>5, HoldSources
  <2>2. pc'[q] # pc[q] BY <2>1 DEF FindsLive
  <2>3. Holds(r, t) BY <1>5, <2>1, <2>2, HoldSources, OneTurn
  <2>4. Meets(q, t) BY <1>5, <2>3 DEF Meets, Holds
  <2>5. tokens[t] # None /\ tokens[t].family \in raced'
    BY <2>1, <2>4 DEF FindsLive, Live
  <2>6. lineage'[t].family = tokens[t].family
    BY <2>5, LineageGrows DEF Rooted, TokensRecorded
  <2> QED BY <1>5, <2>5, <2>6
<1>6. \A q, r \in Requests : \A t \in Tokens :
          Holds(q, t)' /\ Holds(r, t)' /\ lineage'[t].family = f => q = r
  <2> SUFFICES ASSUME NEW q \in Requests, NEW r \in Requests, NEW t \in Tokens,
                      Holds(q, t)', Holds(r, t)', lineage'[t].family = f, q # r
               PROVE  FALSE
    OBVIOUS
  <2>1. Holds(q, t) /\ Holds(r, t) BY <1>5
  <2>2. lineage'[t] = lineage[t] BY <2>1, HeldStored, LineageGrows DEF Rooted
  <2> QED BY <1>1, <2>1, <2>2 DEF Single
<1> QED BY <1>4, <1>6

\* A session has one live token at most, unless two refreshes have held the same
\* token at the same time: what keeps a family going is one token or one refresh
\* about to store its successor, and each refresh hands that on.
THEOREM SessionsHaveOneToken == Spec => []OneLivePerFamily
<1>1. Init => Single
  <2> SUFFICES ASSUME Init PROVE Single OBVIOUS
  <2>1. \A r \in Requests : pc[r] = "idle" BY DEF Init, RequestInit
  <2>2. \A t \in Tokens : lineage[t] # None => lineage[t].family = t
    BY DEF Init, SessionInit, FirstDoc
  <2> QED BY <2>1, <2>2 DEF Single, Slot, Holds, Pending
<1>2. TypeInv /\ Rooted /\ Single /\ [Next]_vars => Single' BY SingleStep
<1>3. TypeInv /\ Rooted /\ Single => OneLivePerFamily
  <2> SUFFICES ASSUME TypeInv, Rooted, Single, NEW t \in Tokens, NEW x \in Tokens,
                      Live(t), Live(x), FamilyOf(t) = FamilyOf(x), FamilyOf(t) \notin raced
               PROVE  t = x
    BY DEF OneLivePerFamily
  <2>1. lineage[t] # None /\ lineage[x] # None BY DEF Live, Rooted, TokensRecorded
  <2>2. FamilyOf(t) \in Tokens BY <2>1, Here DEF TokensTyped, TypeInv, TokenDocs, FamilyOf
  <2> QED BY <2>1, <2>2 DEF Single, Slot, FamilyOf
<1> QED BY <1>1, <1>2, <1>3, Typed, AlwaysRooted, PTL DEF Spec

-----------------------------------------------------------------------------
(* Who was active while a request ran.                                      *)

LEMMA WatchKeeps ==
    ASSUME TypeInv, [Next]_vars, NEW r \in Requests, pc[r] # "idle"
    PROVE  activeDuring[r] \subseteq activeDuring'[r]
<1>1. CASE UNCHANGED vars BY <1>1 DEF vars
<1>2. CASE Watch
  <2>1. pc'[r] # "idle" BY NeverIdle
  <2> QED BY <1>2, <2>1 DEF Watch
<1> QED BY <1>1, <1>2 DEF Next

LEMMA WatchNotes ==
    ASSUME TypeInv, [Next]_vars, NEW r \in Requests, pc[r] # "done", pc'[r] # "idle",
           pc'[r] # pc[r], NEW u \in Users, user[u] # None, user[u].isActive
    PROVE  u \in activeDuring'[r]
<1>1. Watch BY DEF Next, vars, requestVars
<1>2. u \in ActiveUsers BY DEF ActiveUsers
<1> QED BY <1>1, <1>2 DEF Watch

\* Whom request r was called for, once it is past a check that the user is active.
Vouched(r) ==
    /\ pc[r] = "store" /\ call[r].op = "login" => call[r].user \in activeDuring[r]
    /\ pc[r] \in {"spend", "store"} /\ call[r].op = "refreshToken" =>
           held[r].userId \in activeDuring[r]
    /\ pc[r] \in {"enter", "key", "count", "commit"} => call[r].user \in activeDuring[r]

KeptOut ==
    /\ \A r \in Requests : Vouched(r)
    /\ \A r \in Requests : lineage[r] # None => lineage[r].userId \in activeDuring[r]
    /\ \A d \in opened \ Existing :
          d.id \in Requests /\ pc[d.id] # "idle" /\ d.userId \in activeDuring[d.id]

LEMMA VouchedStep ==
    ASSUME TypeInv, [Next]_vars, NEW r \in Requests, Vouched(r)
    PROVE  Vouched(r)'
<1>1. pc[r] # "idle" => activeDuring[r] \subseteq activeDuring'[r] BY WatchKeeps
<1>2. CASE pc'[r] = pc[r] /\ call'[r] = call[r] /\ held'[r] = held[r]
  BY <1>1, <1>2 DEF Vouched
<1>3. CASE Turn(r)
  <2>1. Moves(r) /\ Acts(r) BY <1>3 DEF Turn
  <2>2. CASE Advancing(r)
    <3>0. pc[r] # "done" /\ pc'[r] # "idle" /\ UNCHANGED user
      BY <2>2 DEF Advancing, docs, lifeVars
    <3>1. Fits(pc[r], call[r], held[r], answer[r], user)
          /\ Fits(pc'[r], call'[r], held'[r], answer'[r], user')
      BY <2>1, Here DEF Moves
    <3>2. CASE pc'[r] \in {"insert", "save"} BY <3>2 DEF Vouched
    <3>3. CASE pc[r] = "idle" /\ pc'[r] = "enter" /\ Admitted(call'[r].user)
      <4>1. call'[r].user \in Users
        BY <3>1, <3>3, CallFacts DEF Fits, Protected
      <4>2. call'[r].user \in activeDuring'[r]
        BY <3>0, <3>3, <4>1, WatchNotes DEF Admitted
      <4> QED BY <3>3, <4>2 DEF Vouched
    <3>4. CASE /\ pc[r] = "idle" /\ pc'[r] = "store" /\ call'[r].op = "login"
               /\ user[call'[r].user].isActive
      <4>1. call'[r].user \in Users /\ user[call'[r].user] # None
        BY <3>0, <3>1, <3>4, CallFacts DEF Fits
      <4>2. call'[r].user \in activeDuring'[r] BY <3>0, <3>4, <4>1, WatchNotes
      <4> QED BY <3>4, <4>2 DEF Vouched
    <3>5. CASE /\ pc[r] = "user" /\ pc'[r] = "spend" /\ user[held[r].userId].isActive
               /\ call'[r] = call[r] /\ held'[r] = held[r]
      <4>1. held[r].userId \in Users /\ user[held[r].userId] # None
        BY <3>1, <3>5 DEF Fits, TokenDocs
      <4>2. held[r].userId \in activeDuring'[r] BY <3>0, <3>5, <4>1, WatchNotes
      <4> QED BY <3>5, <4>2 DEF Vouched
    <3>6. CASE /\ pc[r] \in {"enter", "key"} /\ pc'[r] \in {"key", "count"}
               /\ call'[r] = call[r]
      BY <1>1, <3>6 DEF Vouched
    <3> QED BY <2>2, <3>2, <3>3, <3>4, <3>5, <3>6 DEF Advancing
  <2>3. CASE Spends(r) BY <1>1, <2>3 DEF Spends, Vouched
  <2>4. CASE Allows(r) BY <1>1, <2>4 DEF Allows, Vouched
  <2>5. CASE StoresFor(r) BY <2>5 DEF StoresFor, Stores, Vouched
  <2> QED BY <2>1, <2>2, <2>3, <2>4, <2>5
       DEF Acts, StoresFor, Vouched, Failing, Ending, Registers, Saves, FindsLive, FindsRevoked,
           FindsAll, Ends, OpensAccount
<1> QED BY <1>2, <1>3, OwnTurn

LEMMA KeptOutStep ==
    ASSUME TypeInv, Rooted, KeptOut, [Next]_vars
    PROVE  KeptOut'
<1>1. \A r \in Requests : Vouched(r)' BY VouchedStep DEF KeptOut
<1>2. ASSUME NEW r \in Requests, lineage'[r] # None
      PROVE  lineage'[r].userId \in activeDuring'[r]
  <2>1. CASE lineage[r] # None
    <3>1. lineage'[r] = lineage[r] /\ pc[r] = "done"
      BY <2>1, LineageGrows DEF Rooted, StoredByDone, Tokens
    <3> QED BY <2>1, <3>1, WatchKeeps DEF KeptOut
  <2>2. CASE lineage[r] = None
    <3>1. StoresFor(r)
      <4>1. PICK q \in Requests : StoresFor(q) BY <1>2, <2>2, TokensChange DEF Fades
      <4>2. q = r BY <1>2, <2>2, <4>1, StoresDoc DEF Tokens
      <4> QED BY <4>1, <4>2
    <3>2. Vouched(r) /\ activeDuring[r] \subseteq activeDuring'[r]
      BY <3>1, StoresDoc, WatchKeeps DEF KeptOut
    <3> QED BY <3>1, <3>2, StoresDoc DEF Vouched, StoresFor
  <2> QED BY <2>1, <2>2
<1>3. ASSUME NEW d \in opened' \ Existing
      PROVE  d.id \in Requests /\ pc'[d.id] # "idle" /\ d.userId \in activeDuring'[d.id]
  <2>1. CASE d \in opened BY <2>1, NeverIdle, WatchKeeps DEF KeptOut
  <2>2. CASE d \notin opened
    <3> PICK r \in Requests : OpensAccount(r) BY <2>2, AccountsGrow
    <3>1. d.id = r /\ d.userId = call[r].user /\ pc[r] = "commit" /\ pc'[r] = "enqueue"
      BY <2>2 DEF OpensAccount, NewAccount
    <3> QED BY <3>1, WatchKeeps DEF KeptOut, Vouched
  <2> QED BY <2>1, <2>2
<1> QED BY <1>1, <1>2, <1>3 DEF KeptOut

\* A token is stored and an account opened only for a user who was active at
\* some time while the request ran: each handler has seen the user active after
\* its call, and what was active since is remembered.
THEOREM DeactivatedAreKeptOut == Spec => []DeactivatedKeptOut
<1>1. Init => KeptOut
  <2> SUFFICES ASSUME Init PROVE KeptOut OBVIOUS
  <2>1. \A r \in Requests : Vouched(r) BY DEF Init, RequestInit, Vouched
  <2>2. \A r \in Requests : lineage[r] = None
    BY OpenedAssumption DEF Init, SessionInit, Tokens
  <2> QED BY <2>1, <2>2 DEF Init, OpeningInit, KeptOut
<1>2. TypeInv /\ Rooted /\ KeptOut /\ [Next]_vars => KeptOut' BY KeptOutStep
<1>3. KeptOut => DeactivatedKeptOut BY DEF KeptOut, DeactivatedKeptOut
<1> QED BY <1>1, <1>2, <1>3, Typed, AlwaysRooted, PTL DEF Spec

-----------------------------------------------------------------------------
(* The limits on accounts.                                                  *)

\* User u keeps the limits.
Keeps(u) ==
    /\ Cardinality(AccountsOf(u, opened)) =< MaxAccounts
    /\ Cardinality(Savings(AccountsOf(u, opened))) =< 1

\* Request r may still open its account.
Room(r) ==
    /\ Cardinality(AccountsOf(call[r].user, opened)) < MaxAccounts
    /\ call[r].accountType = "savings" => Savings(AccountsOf(call[r].user, opened)) = {}

Limited ==
    /\ IsFiniteSet(opened)
    /\ \A u \in Users \ crowded : Keeps(u)
    /\ \A q, r \in Requests :
          pc[q] = "commit" /\ pc[r] = "commit" /\ call[q].user = call[r].user =>
              q = r \/ call[q].user \in crowded
    /\ \A r \in Requests : pc[r] = "commit" => Room(r) \/ call[r].user \in crowded

LEMMA Counted ==
    ASSUME NEW u, NEW all, IsFiniteSet(all)
    PROVE  /\ IsFiniteSet(AccountsOf(u, all)) /\ IsFiniteSet(Savings(AccountsOf(u, all)))
           /\ Cardinality(AccountsOf(u, all)) \in Nat
           /\ Cardinality(Savings(AccountsOf(u, all))) \in Nat
<1>1. AccountsOf(u, all) \subseteq all /\ Savings(AccountsOf(u, all)) \subseteq all
  BY DEF AccountsOf, Savings
<1> QED BY <1>1, FS_Subset, FS_CardinalityType

LEMMA CommitSources ==
    ASSUME TypeInv, [Next]_vars, NEW r \in Requests, pc'[r] = "commit"
    PROVE  /\ call'[r] = call[r]
           /\ pc[r] = "commit" \/ (Turn(r) /\ Allows(r))
<1>1. CASE Turn(r)
  <2>1. CASE Allows(r) BY <1>1, <2>1 DEF Allows
  <2>2. CASE Advancing(r) BY <2>2 DEF Advancing
  <2>3. CASE StoresFor(r) BY <2>3 DEF StoresFor, Stores
  <2> QED BY <1>1, <2>1, <2>2, <2>3
       DEF Turn, Acts, Failing, Ending, Registers, Saves, FindsLive, FindsRevoked, FindsAll,
           Spends, Ends, StoresFor, OpensAccount
<1> QED BY <1>1, OwnTurn

LEMMA CrowdsGrow ==
    ASSUME TypeInv, [Next]_vars
    PROVE  crowded \subseteq crowded'
<1>1. CASE UNCHANGED vars BY <1>1 DEF vars, openingVars
<1>2. CASE Next
  <2>1. CASE \E t \in Tokens : TokenReap(t) /\ UNCHANGED openingVars BY <2>1 DEF openingVars
  <2>2. ASSUME NEW r \in Requests, Turn(r) PROVE UNCHANGED crowded \/ Allows(r)
    BY <2>2 DEF Turn, Acts, Failing, Advancing, Ending, Registers, Saves, FindsLive,
                FindsRevoked, FindsAll, Spends, Ends, Stores, OpensAccount, docs, openingVars
  <2>3. ASSUME NEW r \in Requests, Allows(r) PROVE crowded \subseteq crowded'
    BY <2>3 DEF Allows
  <2> QED BY <1>2, <2>1, <2>2, <2>3, StepCases
<1> QED BY <1>1, <1>2

\* An account more for user u.
LEMMA OneMore ==
    ASSUME NEW all, IsFiniteSet(all), NEW d, NEW u
    PROVE  /\ d.userId # u => AccountsOf(u, all \cup {d}) = AccountsOf(u, all)
           /\ d.userId = u =>
                 /\ Cardinality(AccountsOf(u, all \cup {d})) =< Cardinality(AccountsOf(u, all)) + 1
                 /\ d.accountType # "savings" =>
                       Savings(AccountsOf(u, all \cup {d})) = Savings(AccountsOf(u, all))
                 /\ Savings(AccountsOf(u, all)) = {} =>
                       Cardinality(Savings(AccountsOf(u, all \cup {d}))) =< 1
<1> DEFINE mine == AccountsOf(u, all)
<1>1. d.userId # u => AccountsOf(u, all \cup {d}) = mine BY DEF AccountsOf
<1>2. ASSUME d.userId = u
      PROVE  /\ Cardinality(AccountsOf(u, all \cup {d})) =< Cardinality(mine) + 1
             /\ d.accountType # "savings" =>
                   Savings(AccountsOf(u, all \cup {d})) = Savings(mine)
             /\ Savings(mine) = {} => Cardinality(Savings(AccountsOf(u, all \cup {d}))) =< 1
  <2>1. AccountsOf(u, all \cup {d}) = mine \cup {d} BY <1>2 DEF AccountsOf
  <2>2. IsFiniteSet(mine) /\ Cardinality(mine) \in Nat BY Counted
  <2>3. Savings(mine \cup {d}) = IF d.accountType = "savings" THEN Savings(mine) \cup {d}
                                 ELSE Savings(mine)
    BY DEF Savings
  <2>4. Cardinality({}) = 0 /\ Cardinality({d}) = 1 BY FS_EmptySet, FS_Singleton
  <2>5. Cardinality(mine \cup {d}) =< Cardinality(mine) + 1
    <3>1. Cardinality(mine \cup {d}) =
              IF d \in mine THEN Cardinality(mine) ELSE Cardinality(mine) + 1
      BY <2>2, FS_AddElement
    <3> QED BY <2>2, <3>1
  <2>6. Savings(mine) = {} => Cardinality(Savings(mine \cup {d})) =< 1
    <3>1. Savings(mine) = {} => Savings(mine \cup {d}) \in {{}, {d}} BY <2>3
    <3> QED BY <2>4, <3>1
  <2> QED BY <2>1, <2>3, <2>5, <2>6
<1> QED BY <1>1, <1>2

LEMMA LimitedStep ==
    ASSUME TypeInv, Limited, [Next]_vars
    PROVE  Limited'
<1>1. crowded \subseteq crowded' BY CrowdsGrow
<1>2. ASSUME NEW r \in Requests, pc[r] = "commit" PROVE call[r].user \in Users
  BY <1>2, Here, CallFacts DEF Fits
<1>3. ASSUME NEW q \in Requests, NEW r \in Requests, pc'[q] = "commit", pc'[r] = "commit",
             call'[q].user = call'[r].user, q # r, pc[q] # "commit"
      PROVE  call'[q].user \in crowded'
  <2>1. Turn(q) /\ Allows(q) /\ call'[q] = call[q] /\ call'[r] = call[r]
    BY <1>3, CommitSources
  <2>2. pc[r] = "commit"
    <3>1. pc'[q] # pc[q] BY <2>1 DEF Allows
    <3> QED BY <1>3, <2>1, <3>1, CommitSources, OneTurn
  <2>3. call[r].op = "createAccount" BY <2>2, Here DEF Fits
  <2>4. Crowds(q) BY <1>3, <2>1, <2>2, <2>3 DEF Crowds, At
  <2> QED BY <2>1, <2>4 DEF Allows
<1>4. \A q, r \in Requests :
          pc'[q] = "commit" /\ pc'[r] = "commit" /\ call'[q].user = call'[r].user =>
              q = r \/ call'[q].user \in crowded'
  <2> SUFFICES ASSUME NEW q \in Requests, NEW r \in Requests, pc'[q] = "commit",
                      pc'[r] = "commit", call'[q].user = call'[r].user, q # r
               PROVE  call'[q].user \in crowded'
    OBVIOUS
  <2>1. CASE pc[q] = "commit" /\ pc[r] = "commit"
    BY <1>1, <2>1, CommitSources DEF Limited
  <2> QED BY <1>3, <2>1
<1>5. CASE UNCHANGED opened
  <2>1. IsFiniteSet(opened') /\ \A u \in Users \ crowded' : Keeps(u)'
    BY <1>1, <1>5 DEF Limited, Keeps
  <2>2. ASSUME NEW r \in Requests, pc'[r] = "commit"
        PROVE  Room(r)' \/ call'[r].user \in crowded'
    <3>1. CASE pc[r] = "commit" BY <1>1, <1>5, <2>2, <3>1, CommitSources DEF Limited, Room
    <3>2. CASE Allows(r) BY <1>5, <3>2 DEF Allows, Room
    <3> QED BY <2>2, <3>1, <3>2, CommitSources
  <2> QED BY <1>4, <2>1, <2>2 DEF Limited
<1>6. ASSUME NEW q \in Requests, Turn(q), OpensAccount(q) PROVE Limited'
  <2> DEFINE d == NewAccount(q)
  <2>1. /\ opened' = opened \cup {d} /\ UNCHANGED crowded
        /\ pc[q] = "commit" /\ pc'[q] = "enqueue" /\ d.userId = call[q].user
        /\ d.accountType = call[q].accountType
    BY <1>6 DEF OpensAccount, NewAccount
  <2> HIDE DEF d
  <2>2. IsFiniteSet(opened) BY DEF Limited
  <2>3. IsFiniteSet(opened') BY <2>1, <2>2, FS_AddElement
  <2>4. ASSUME NEW u \in Users \ crowded' PROVE Keeps(u)'
    <3>1. Keeps(u) BY <2>1, <2>4 DEF Limited
    <3>2. CASE d.userId # u BY <2>1, <2>2, <3>1, <3>2, OneMore DEF Keeps
    <3>3. CASE d.userId = u
      <4>1. Room(q) BY <2>1, <2>4, <3>3 DEF Limited
      <4>2. Cardinality(AccountsOf(u, opened)) \in Nat
            /\ Cardinality(AccountsOf(u, opened')) \in Nat /\ MaxAccounts \in Nat
        BY <2>2, <2>3, Counted, ExistingAssumption
      <4>3. Cardinality(AccountsOf(u, opened)) < MaxAccounts BY <2>1, <3>3, <4>1 DEF Room
      <4>4. Cardinality(AccountsOf(u, opened')) =< Cardinality(AccountsOf(u, opened)) + 1
        BY <2>1, <2>2, <3>3, OneMore
      <4>5. Cardinality(Savings(AccountsOf(u, opened'))) =< 1
        BY <2>1, <2>2, <3>1, <3>3, <4>1, OneMore DEF Keeps, Room
      <4> QED BY <4>2, <4>3, <4>4, <4>5 DEF Keeps
    <3> QED BY <3>2, <3>3
  <2>5. ASSUME NEW r \in Requests, pc'[r] = "commit"
        PROVE  Room(r)' \/ call'[r].user \in crowded'
    <3>1. r # q BY <2>1, <2>5
    <3>2. pc[r] = "commit" /\ call'[r] = call[r] BY <1>6, <2>5, <3>1 DEF Turn, Moves, Only
    <3>3. CASE call[r].user = call[q].user
      BY <2>1, <3>1, <3>2, <3>3 DEF Limited
    <3>4. CASE call[r].user # call[q].user
      <4>1. AccountsOf(call[r].user, opened') = AccountsOf(call[r].user, opened)
        BY <2>1, <2>2, <3>4, OneMore
      <4> QED BY <2>1, <3>2, <4>1 DEF Limited, Room
    <3> QED BY <3>3, <3>4
  <2> QED BY <1>4, <2>3, <2>4, <2>5 DEF Limited
<1> QED BY <1>5, <1>6, AccountsGrow

\* Nobody exceeds the limits unless two of the user's requests were between their
\* checks and their commits at once: a request alone there still finds room.
THEOREM LimitsAreKept == Spec => []LimitsKept
<1>1. Init => Limited
  <2> SUFFICES ASSUME Init PROVE Limited OBVIOUS
  <2>1. opened = Existing BY DEF Init, OpeningInit
  <2>2. \A r \in Requests : pc[r] # "commit" BY DEF Init, RequestInit
  <2> QED BY <2>1, <2>2, ExistingAssumption DEF Limited, Keeps
<1>2. TypeInv /\ Limited /\ [Next]_vars => Limited' BY LimitedStep
<1>3. Limited => LimitsKept BY DEF Limited, Keeps, LimitsKept
<1> QED BY <1>1, <1>2, <1>3, Typed, PTL DEF Spec

-----------------------------------------------------------------------------
(* The sessions implement the abstract chains.                              *)

\* A refresh under way has found its token live, and the token is dead when its
\* successor is due.
Taken ==
    \A r \in Requests :
        /\ pc[r] \in {"user", "spend", "store"} /\ call[r].op = "refreshToken" =>
               ~held[r].isRevoked
        /\ Pending(r) => ~Live(call[r].token)

LEMMA TakenStep ==
    ASSUME TypeInv, Rooted, Taken, [Next]_vars
    PROVE  Taken'
<1>1. ASSUME NEW r \in Requests, pc'[r] \in {"user", "spend", "store"},
             call'[r].op = "refreshToken"
      PROVE  ~held'[r].isRevoked
  <2>1. HasToken(r)'
    <3>1. Fits(pc'[r], call'[r], held'[r], answer'[r], user')
      BY NextTyped DEF TypeInv
    <3> QED BY <1>1, <3>1, TokenNone DEF HasToken, Fits
  <2> PICK t : t = call'[r].token OBVIOUS
  <2>2. CASE Holds(r, t)' \/ Pending(r)'
    <3>1. CASE Turn(r) /\ FindsLive(r) BY <3>1 DEF FindsLive, Live
    <3>2. CASE Holds(r, t) \/ Pending(r) \/ Spends(r)
      <4>1. pc[r] \in {"user", "spend", "store"} /\ call[r].op = "refreshToken"
        BY <3>2 DEF Holds, Pending, Spends
      <4>2. CASE HasToken(r) /\ call'[r] = call[r] /\ held'[r] = held[r]
        BY <4>1, <4>2 DEF Taken
      <4>3. ~FindsLive(r) /\ ~FindsRevoked(r) /\ pc[r] # "idle"
        BY <4>1 DEF FindsLive, FindsRevoked
      <4>4. CASE Turn(r) BY <2>1, <4>2, <4>3, <4>4, CopyFound
      <4>5. CASE pc'[r] = pc[r] /\ call'[r] = call[r] /\ held'[r] = held[r]
        BY <4>1, <4>5 DEF Taken
      <4> QED BY <4>4, <4>5, OwnTurn
    <3> QED BY <2>2, <3>1, <3>2, HoldSources, PendingSources
  <2> QED BY <1>1, <2>2 DEF Holds, Pending
<1>2. ASSUME NEW r \in Requests, Pending(r)' PROVE (~Live(call[r].token))'
  <2>1. call'[r] = call[r] BY <1>2, PendingSources
  <2>2. CASE Pending(r)
    <3> PICK t \in Tokens : t = call[r].token /\ lineage[t] # None
      BY <2>2, UsingToken, StoringRefresh DEF Pending
    <3>1. ~Live(t) BY <2>2 DEF Taken
    <3>2. ~Live(t)' BY <3>1, DeadStay
    <3> QED BY <2>1, <3>2
  <2>3. CASE Spends(r)
    <3> PICK t \in Tokens : t = call[r].token BY <2>3 DEF Spends
    <3>1. ~Live(t)' BY <2>3, RevokeFades DEF Spends
    <3> QED BY <2>1, <3>1
  <2> QED BY <1>2, <2>2, <2>3, PendingSources
<1> QED BY <1>1, <1>2 DEF Taken

LEMMA AlwaysTaken == Spec => []Taken
<1>1. Init => Taken BY DEF Init, RequestInit, Taken, Pending
<1>2. TypeInv /\ Rooted /\ Taken /\ [Next]_vars => Taken' BY TakenStep
<1> QED BY <1>1, <1>2, Typed, AlwaysRooted, PTL DEF Spec

\* Request r has claimed a successor of its token.
Claiming(r) == HasToken(r) /\ ~held[r].isRevoked

LEMMA ClaimsAre == Claims = {<<r, call[r].token>> : r \in {q \in Requests : Claiming(q)}}
BY DEF Claims, Claiming, HasToken

\* A request that has found its token keeps it.
LEMMA TokenKept ==
    ASSUME TypeInv, NEW r \in Requests, Turn(r), HasToken(r)
    PROVE  call'[r] = call[r] /\ held'[r] = held[r] /\ HasToken(r)'
<1>1. pc[r] # "idle" /\ call[r].op = "refreshToken" BY DEF HasToken
<1>2. pc[r] # "enter" BY <1>1, Here DEF Fits, Protected
<1>3. call'[r] = call[r] /\ held'[r] = held[r]
  BY <1>1, <1>2 DEF Turn, Acts, Failing, Advancing, Ending, Registers, Saves, FindsLive,
                    FindsRevoked, FindsAll, Spends, Ends, Stores, Allows, OpensAccount
<1>4. pc'[r] # "idle"
  BY DEF Turn, Acts, Failing, Advancing, Ending, Registers, Saves, FindsLive,
         FindsRevoked, FindsAll, Spends, Ends, Stores, Allows, OpensAccount
<1> QED BY <1>1, <1>3, <1>4 DEF HasToken

\* Only a refresh that finds its token live claims.
LEMMA ClaimSteps ==
    ASSUME TypeInv, Rooted, [Next]_vars, NEW r \in Requests
    PROVE  \/ (Claiming(r)' <=> Claiming(r)) /\ (Claiming(r) => call'[r] = call[r])
           \/ Turn(r) /\ FindsLive(r)
<1>1. CASE Turn(r)
  <2>1. CASE HasToken(r) BY <1>1, <2>1, TokenKept DEF Claiming
  <2>2. CASE ~HasToken(r) /\ ~FindsLive(r)
    <3>1. FindsRevoked(r) => held'[r].isRevoked
      BY Here DEF FindsRevoked, Live, TypeInv, TokensTyped, TokenDocs
    <3> QED BY <1>1, <2>2, <3>1, CopyFound DEF Claiming, Rooted, IdleEmpty
  <2> QED BY <1>1, <2>1, <2>2
<1>2. CASE pc'[r] = pc[r] /\ call'[r] = call[r] /\ held'[r] = held[r]
  BY <1>2 DEF Claiming, HasToken
<1> QED BY <1>1, <1>2, OwnTurn

LEMMA ClaimsKept ==
    ASSUME TypeInv, Rooted, [Next]_vars, \A r \in Requests : ~(Turn(r) /\ FindsLive(r))
    PROVE  Claims' = Claims
<1>1. \A r \in Requests : /\ Claiming(r)' <=> Claiming(r)
                          /\ Claiming(r) => call'[r] = call[r]
  BY ClaimSteps
<1>2. Claims' = {<<r, call'[r].token>> : r \in {q \in Requests : Claiming(q)'}}
  BY DEF Claims, Claiming, HasToken
<1> QED BY <1>1, <1>2, ClaimsAre

\* What the abstract sessions see of one token.
Status(t) ==
    IF lineage[t] = None THEN "none"
    ELSE IF tokens[t] = None THEN "gone"
    ELSE IF tokens[t].isRevoked THEN "ended" ELSE "live"

LEMMA StandingIs == Standing = [t \in Tokens |-> Status(t)]
BY DEF Standing, Status

\* One token's document changes.
LEMMA StandingChanges ==
    ASSUME TypeInv, Rooted, NEW t \in Tokens, NEW d, tokens[t] # None,
           tokens' = [tokens EXCEPT ![t] = d], UNCHANGED lineage
    PROVE  /\ Chain' = Chain
           /\ Standing' = [Standing EXCEPT ![t] = IF d = None THEN "gone"
                                                  ELSE IF d.isRevoked THEN "ended" ELSE "live"]
<1>1. \A x \in Tokens : tokens'[x] = IF x = t THEN d ELSE tokens[x]
  BY DEF TypeInv, TokensTyped
<1>2. lineage[t] # None BY DEF Rooted, TokensRecorded
<1>3. \A x \in Tokens : Status(x)' = IF x # t THEN Status(x)
                                     ELSE IF d = None THEN "gone"
                                     ELSE IF d.isRevoked THEN "ended" ELSE "live"
  BY <1>1, <1>2 DEF Status
<1>4. Standing' = [x \in Tokens |-> Status(x)'] BY DEF Standing, Status
<1> QED BY <1>3, <1>4, StandingIs DEF Chain

LEMMA RevokeEnds ==
    ASSUME TypeInv, Rooted, NEW t \in Tokens, tokens[t] # None, Revoke(t), UNCHANGED lineage,
           Claims' = Claims
    PROVE  [Promise!Next]_(Promise!chainVars)
<1> DEFINE d == [tokens[t] EXCEPT !.isRevoked = TRUE]
<1>1. tokens[t] \in TokenDocs BY DEF TypeInv, TokensTyped
<1>2. d \in TokenDocs /\ d.isRevoked = TRUE BY <1>1 DEF TokenDocs
<1>3. d # None BY <1>2, TokenNone
<1>4. tokens' = [tokens EXCEPT ![t] = d] BY DEF Revoke
<1> HIDE DEF d
<1>5. Chain' = Chain /\ Standing' = [Standing EXCEPT ![t] = "ended"]
  BY <1>2, <1>3, <1>4, StandingChanges
<1>6. Standing[t] \in {"live", "ended"}
  BY StandingIs DEF Status, Rooted, TokensRecorded
<1>7. CASE Standing[t] = "live"
  <2>1. Promise!End(t) BY <1>5, <1>7 DEF Promise!End
  <2> QED BY <2>1 DEF Promise!Next
<1>8. CASE Standing[t] = "ended"
  <2>1. Standing' = Standing BY <1>5, <1>8 DEF Standing
  <2> QED BY <1>5, <2>1 DEF Promise!chainVars
<1> QED BY <1>6, <1>7, <1>8

LEMMA ReapForgets ==
    ASSUME TypeInv, Rooted, NEW t \in Tokens, TokenReap(t), Claims' = Claims
    PROVE  [Promise!Next]_(Promise!chainVars)
<1>1. Chain' = Chain /\ Standing' = [Standing EXCEPT ![t] = "gone"]
  BY StandingChanges DEF TokenReap
<1>2. Standing[t] \in {"live", "ended"}
  BY StandingIs DEF Status, Rooted, TokensRecorded, TokenReap
<1>3. Promise!Forget(t) BY <1>1, <1>2 DEF Promise!Forget
<1> QED BY <1>3 DEF Promise!Next

LEMMA StoreIssues ==
    ASSUME TypeInv, Rooted, NEW r \in Requests, StoresFor(r)
    PROVE  /\ r \in Tokens /\ Standing[r] = "none"
           /\ Standing' = [Standing EXCEPT ![r] = "live"]
           /\ Chain' = [Chain EXCEPT ![r] = [userId |-> lineage'[r].userId,
                                             family |-> lineage'[r].family]]
<1>1. r \in Tokens /\ lineage[r] = None
  BY StoresDoc DEF Tokens, Rooted, StoredByDone
<1>2. \A x \in Tokens : Status(x)' = IF x = r THEN "live" ELSE Status(x)
  BY StoresDoc DEF Status
<1>3. Standing' = [x \in Tokens |-> Status(x)'] BY DEF Standing, Status
<1>4. Standing' = [Standing EXCEPT ![r] = "live"] BY <1>1, <1>2, <1>3, StandingIs
<1>5. Standing[r] = "none" BY <1>1, StandingIs DEF Status
<1>6. lineage'[r] # None /\ \A x \in Tokens \ {r} : lineage'[x] = lineage[x] BY StoresDoc
<1> DEFINE link == [userId |-> lineage'[r].userId, family |-> lineage'[r].family]
<1>7. Chain' = [x \in Tokens |-> IF lineage'[x] = None THEN None
                                 ELSE [userId |-> lineage'[x].userId,
                                       family |-> lineage'[x].family]]
  BY DEF Chain
<1>8. Chain' = [x \in Tokens |-> IF x = r THEN link ELSE Chain[x]]
  BY <1>6, <1>7 DEF Chain
<1>9. Chain = [x \in Tokens |-> Chain[x]] BY DEF Chain
<1> HIDE DEF link
<1>10. Chain' = [Chain EXCEPT ![r] = link] BY <1>8, <1>9
<1> QED BY <1>1, <1>4, <1>5, <1>10 DEF link

LEMMA TurnPromised ==
    ASSUME TypeInv, Rooted, Taken, [Next]_vars, NEW r \in Requests, Turn(r)
    PROVE  [Promise!Next]_(Promise!chainVars)
<1>1. UNCHANGED <<tokens, lineage>> => UNCHANGED <<Standing, Chain>> BY DEF Standing, Chain
<1>2. CASE FindsLive(r)
  <2> PICK t \in Tokens : t = call'[r].token /\ Live(t) /\ held'[r] = tokens[t]
    BY <1>2 DEF FindsLive
  <2>1. UNCHANGED <<Standing, Chain>> BY <1>1, <1>2 DEF FindsLive
  <2>2. Standing[t] = "live"
    BY StandingIs DEF Status, Live, Rooted, TokensRecorded
  <2>3. Claiming(r)' /\ ~Claiming(r)
    BY <1>2 DEF FindsLive, Claiming, HasToken, Live
  <2>4. \A q \in Requests \ {r} : /\ Claiming(q)' <=> Claiming(q)
                                  /\ call'[q] = call[q]
    BY DEF Turn, Moves, Only, Claiming, HasToken
  <2>5. Claims' = {<<q, call'[q].token>> : q \in {p \in Requests : Claiming(p)'}}
    BY DEF Claims, Claiming, HasToken
  <2>6. Claims' = Claims \cup {<<r, t>>} BY <2>3, <2>4, <2>5, ClaimsAre
  <2>7. Promise!Claim(r, t) BY <2>1, <2>2, <2>6 DEF Promise!Claim
  <2> QED BY <2>7 DEF Promise!Next, Tokens
<1>3. CASE ~FindsLive(r)
  <2>1. Claims' = Claims
    <3>1. \A q \in Requests : ~(Turn(q) /\ FindsLive(q))
      BY <1>3, OneTurn DEF FindsLive
    <3> QED BY <3>1, ClaimsKept
  <2>2. CASE UNCHANGED <<tokens, lineage>> BY <1>1, <2>1, <2>2 DEF Promise!chainVars
  <2>3. CASE \E t \in Tokens : tokens[t] # None /\ Revoke(t) /\ UNCHANGED lineage
    BY <2>1, <2>3, RevokeEnds
  <2>4. CASE StoresFor(r)
    <3>1. /\ r \in Tokens /\ Standing[r] = "none"
          /\ Standing' = [Standing EXCEPT ![r] = "live"]
          /\ Chain' = [Chain EXCEPT ![r] = [userId |-> lineage'[r].userId,
                                            family |-> lineage'[r].family]]
      BY <2>4, StoreIssues
    <3>2. CASE call[r].op = "login"
      <4>1. lineage'[r].userId = call[r].user /\ lineage'[r].family = r
            /\ call[r].user \in Users
        BY <2>4, <3>2, StoresDoc, StoringFor
      <4>2. Promise!Open(r, call[r].user)
        BY <2>1, <3>1, <4>1 DEF Promise!Open, Promise!Issue, Promise!Link
      <4> QED BY <3>1, <4>1, <4>2 DEF Promise!Next
    <3>3. CASE call[r].op = "refreshToken"
      <4>1. Pending(r) /\ HasToken(r) BY <2>4, <3>3, StoresDoc, UsingToken DEF Pending
      <4> PICK t \in Tokens : t = call[r].token BY <4>1, StoringRefresh
      <4>2. lineage[t] # None /\ held[r].userId = lineage[t].userId
            /\ held[r].family = lineage[t].family
        BY <4>1, StoringRefresh
      <4>3. lineage'[r].userId = held[r].userId /\ lineage'[r].family = held[r].family
        BY <2>4, <3>3, StoresDoc
      <4>4. Chain[t] = [userId |-> lineage'[r].userId, family |-> lineage'[r].family]
        BY <4>2, <4>3 DEF Chain
      <4>5. Claiming(r) BY <4>1 DEF Taken, Claiming, Pending
      <4>6. <<r, t>> \in Claims BY <4>5, ClaimsAre
      <4>7. Standing[t] # "live"
        <5>1. ~Live(t) BY <4>1 DEF Taken
        <5> QED BY <4>2, <5>1, StandingIs DEF Status, Live
      <4>8. Promise!Renew(r, t)
        BY <2>1, <3>1, <4>4, <4>6, <4>7 DEF Promise!Renew, Promise!Issue
      <4>9. <<r, t>>[1] = r /\ <<r, t>>[2] = t OBVIOUS
      <4>10. \E c \in Claims : Promise!Renew(c[1], c[2]) BY <4>6, <4>8, <4>9
      <4> QED BY <4>10 DEF Promise!Next
    <3> QED BY <2>4, <3>2, <3>3 DEF StoresFor
  <2>5. \/ UNCHANGED <<tokens, lineage>>
        \/ \E t \in Tokens : tokens[t] # None /\ Revoke(t) /\ UNCHANGED lineage
        \/ StoresFor(r)
    BY <1>3 DEF Turn, Acts, Failing, Advancing, Ending, Registers, Saves, FindsRevoked,
                FindsAll, Spends, Ends, StoresFor, Allows, OpensAccount, docs, sessionVars
  <2> QED BY <2>2, <2>3, <2>4, <2>5
<1> QED BY <1>2, <1>3

LEMMA PromiseNext ==
    TypeInv /\ Rooted /\ Taken /\ [Next]_vars => [Promise!Next]_(Promise!chainVars)
<1> SUFFICES ASSUME TypeInv, Rooted, Taken, [Next]_vars
             PROVE  [Promise!Next]_(Promise!chainVars)
  OBVIOUS
<1>1. CASE UNCHANGED vars
  BY <1>1 DEF vars, requestVars, sessionVars, Standing, Chain, Claims, Promise!chainVars
<1>2. CASE Next
  <2>1. ASSUME NEW t \in Tokens, TokenReap(t) PROVE [Promise!Next]_(Promise!chainVars)
    <3>1. Claims' = Claims BY <2>1 DEF TokenReap, requestVars, Claims
    <3> QED BY <2>1, <3>1, ReapForgets
  <2> QED BY <1>2, <2>1, TurnPromised, StepCases
<1> QED BY <1>1, <1>2

LEMMA PromiseInit == Init => Promise!Init
<1> SUFFICES ASSUME Init PROVE Promise!Init OBVIOUS
<1>1. tokens = [t \in Tokens |-> IF t \in Opened THEN FirstDoc(t) ELSE None]
      /\ lineage = tokens
  BY DEF Init, SessionInit
<1>2. \A t \in Opened : /\ FirstDoc(t) # None /\ FirstDoc(t).isRevoked = FALSE
                        /\ FirstDoc(t).userId = OpenedBy[t] /\ FirstDoc(t).family = t
  <2>1. \A t \in Opened : FirstDoc(t) \in TokenDocs
    BY OpenedAssumption, RegisteredAssumption DEF FirstDoc, TokenDocs, Tokens
  <2> QED BY <2>1, TokenNone DEF FirstDoc
<1>3. Standing = [t \in Tokens |-> IF t \in Opened THEN "live" ELSE "none"]
  BY <1>1, <1>2, StandingIs DEF Status
<1>4. Chain = [t \in Tokens |-> IF t \in Opened
                                THEN [userId |-> OpenedBy[t], family |-> t] ELSE None]
  BY <1>1, <1>2 DEF Chain
<1>5. Claims = {} BY DEF Init, RequestInit, Claims
<1> QED BY <1>3, <1>4, <1>5 DEF Promise!Init, Promise!Link

\* The handlers refine the abstract sessions: a token is issued only by a login or
\* in exchange for one that was found live and is dead when its successor appears,
\* and nothing that was ended lives again, whatever fails, expires or races.
THEOREM SessionsImplementChains == Spec => ImplementsChains
BY PromiseInit, PromiseNext, Typed, AlwaysRooted, AlwaysTaken, PTL
DEF Spec, ImplementsChains, Promise!Spec

=============================================================================
