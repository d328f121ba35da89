---------------------------- MODULE Beneficiaries ----------------------------
(***************************************************************************)
(* addBeneficiary, confirmBeneficiaryOtp and removeBeneficiary of          *)
(* controller/beneficiary.controller.js with sendOtp of                    *)
(* utils/opt.utils.js and the OTP documents of models/otp.model.js.        *)
(*                                                                         *)
(* No handler takes a lock or a transaction: every await is a step         *)
(* boundary at which handlers of the same user interleave.                 *)
(***************************************************************************)
EXTENDS Integers, FiniteSets

CONSTANTS
    Requests,         \* executions of the three handlers
    Users,
    Accounts,
    Owner,            \* account -> its userId
    Codes,            \* one-time codes
    MaxBeneficiaries, \* MAX_BENEFICIARIES
    MaxAttempts,      \* 3
    None

ASSUME AttemptsAssumption == MaxAttempts \in Nat \ {0}

Pairs == Users \X Accounts

AddInputs == [op : {"add"}, userId : Users, account : Accounts]
ConfirmInputs == [op : {"confirm"}, userId : Users, code : Codes]
RemoveInputs == [op : {"remove"}, userId : Users, account : Accounts]

Inputs == AddInputs \cup ConfirmInputs \cup RemoveInputs

BeneficiaryDocs == [isVerified : BOOLEAN]

OtpDocs == [userId : Users, account : Accounts, code : Codes, attempts : Nat,
            expired : BOOLEAN]

\* An OTP as a confirmation read it.
Copies == [id : Requests, doc : OtpDocs]

ASSUME BeneficiariesNone == None \notin BeneficiaryDocs \cup OtpDocs \cup Copies

VARIABLES
    beneficiary, \* the Beneficiary documents; unique per user and account
    otp,         \* the Otp documents, by the request that created them
    pc,          \* where each handler is
    input,       \* what it was called with
    fetched,     \* the OTP a confirmation works on, as it was read
    reply,       \* the handler's response
    issued,      \* history: pairs and the codes created for them
    wrong        \* history: wrong codes compared with each OTP

vars == <<beneficiary, otp, pc, input, fetched, reply, issued, wrong>>

-----------------------------------------------------------------------------
Pair(r) == <<input[r].userId, input[r].account>>

Pending == [isVerified |-> FALSE]
Verified == [isVerified |-> TRUE]

OtpsOf(u) == {o \in Requests : otp[o] # None /\ otp[o].userId = u}

\* countDocuments matches isActive, which is no field of these documents.
ActiveCount(u) ==
    Cardinality({a \in Accounts : /\ beneficiary[u, a] # None
                                  /\ "isActive" \in DOMAIN beneficiary[u, a]})

Init ==
    /\ beneficiary = [p \in Pairs |-> None]
    /\ otp = [r \in Requests |-> None]
    /\ pc = [r \in Requests |-> "idle"]
    /\ input = [r \in Requests |-> None]
    /\ fetched = [r \in Requests |-> None]
    /\ reply = [r \in Requests |-> "none"]
    /\ issued = {}
    /\ wrong = [r \in Requests |-> 0]

Goto(r, label) == pc' = [pc EXCEPT ![r] = label]

\* A response, or an error passed to the error handler, ends the handler.
Reply(r, kind) ==
    /\ reply' = [reply EXCEPT ![r] = kind]
    /\ Goto(r, "done")

-----------------------------------------------------------------------------
(* addBeneficiary.                                                         *)

\* The checks before the first write: the limit, the account and its owner.
\* The account may be missing or not active, which is another component's.
AddCheck(r, i) ==
    /\ pc[r] = "idle"
    /\ i.op = "add"
    /\ input' = [input EXCEPT ![r] = i]
    /\ \/ /\ ActiveCount(i.userId) < MaxBeneficiaries
          /\ Owner[i.account] # i.userId
          /\ Goto(r, "lookup")
          /\ UNCHANGED reply
       \/ Reply(r, "failed")
    /\ UNCHANGED <<beneficiary, otp, fetched, issued, wrong>>

\* Beneficiary.findOne: 409 if verified, else a save or a create follows.
AddLookup(r) ==
    LET doc == beneficiary[Pair(r)]
    IN  /\ pc[r] = "lookup"
        /\ \/ doc = Verified /\ Reply(r, "failed")
           \/ doc = Pending /\ Goto(r, "rename") /\ UNCHANGED reply
           \/ doc = None /\ Goto(r, "create") /\ UNCHANGED reply
        /\ UNCHANGED <<beneficiary, otp, input, fetched, issued, wrong>>

\* Mutant: the save writes isVerified as it was read.
AddRenameUnverifies(r) ==
    /\ pc[r] = "rename"
    /\ beneficiary' = [beneficiary EXCEPT ![Pair(r)] = Pending]
    /\ Goto(r, "clear")
    /\ UNCHANGED <<otp, input, fetched, reply, issued, wrong>>

\* exists.save(): isVerified was false when read and is set to false, so it is
\* not modified and the update leaves it alone; the nickname is abstracted.
AddRename(r) ==
    /\ pc[r] = "rename"
    /\ Goto(r, "clear")
    /\ UNCHANGED <<beneficiary, otp, input, fetched, reply, issued, wrong>>

\* Beneficiary.create: the unique index refuses a second document.
AddCreate(r) ==
    /\ pc[r] = "create"
    /\ \/ /\ beneficiary[Pair(r)] = None
          /\ beneficiary' = [beneficiary EXCEPT ![Pair(r)] = Pending]
          /\ Goto(r, "clear")
          /\ UNCHANGED reply
       \/ /\ beneficiary[Pair(r)] # None
          /\ Reply(r, "failed")
          /\ UNCHANGED beneficiary
    /\ UNCHANGED <<otp, input, fetched, issued, wrong>>

\* Otp.deleteMany of the user's codes, for whichever account they are.
AddClear(r) ==
    /\ pc[r] = "clear"
    /\ otp' = [o \in Requests |-> IF o \in OtpsOf(input[r].userId) THEN None ELSE otp[o]]
    /\ Goto(r, "send")
    /\ UNCHANGED <<beneficiary, input, fetched, reply, issued, wrong>>

\* sendOtp: a code is stored and mailed; a failure to enqueue the mail is the
\* response, and the code stays.
AddSend(r) ==
    /\ pc[r] = "send"
    /\ \E c \in Codes :
          /\ otp' = [otp EXCEPT ![r] = [userId |-> input[r].userId,
                                        account |-> input[r].account,
                                        code |-> c, attempts |-> 0, expired |-> FALSE]]
          /\ issued' = issued \cup {<<Pair(r), c>>}
    /\ Reply(r, "ok") \/ Reply(r, "failed")
    /\ UNCHANGED <<beneficiary, input, fetched, wrong>>

-----------------------------------------------------------------------------
(* confirmBeneficiaryOtp.                                                  *)

\* Mutant: nobody looks whether there is an OTP.
ConfirmFindUnchecked(r, i) ==
    /\ pc[r] = "idle"
    /\ i.op = "confirm"
    /\ input' = [input EXCEPT ![r] = i]
    /\ \E o \in Requests :
          /\ fetched' = [fetched EXCEPT ![r] = [id |-> o, doc |-> otp[o]]]
          /\ Goto(r, "compare")
    /\ UNCHANGED <<beneficiary, otp, reply, issued, wrong>>

\* Otp.findOne takes any OTP of the user; an expired one is discarded.
ConfirmFind(r, i) ==
    /\ pc[r] = "idle"
    /\ i.op = "confirm"
    /\ input' = [input EXCEPT ![r] = i]
    /\ \/ /\ OtpsOf(i.userId) = {}
          /\ Reply(r, "failed")
          /\ UNCHANGED fetched
       \/ \E o \in OtpsOf(i.userId) :
             /\ fetched' = [fetched EXCEPT ![r] = [id |-> o, doc |-> otp[o]]]
             /\ Goto(r, IF otp[o].expired THEN "discard" ELSE "compare")
             /\ UNCHANGED reply
    /\ UNCHANGED <<beneficiary, otp, issued, wrong>>

\* verify: the submitted code against the hash that was read; a wrong one is
\* counted on the copy.
ConfirmCompare(r) ==
    LET f == fetched[r]
    IN  /\ pc[r] = "compare"
        /\ \/ /\ input[r].code = f.doc.code
              /\ Goto(r, "activate")
              /\ UNCHANGED wrong
           \/ /\ input[r].code # f.doc.code
              /\ Goto(r, IF f.doc.attempts + 1 >= MaxAttempts THEN "discard" ELSE "count")
              /\ wrong' = [wrong EXCEPT ![f.id] = @ + 1]
        /\ UNCHANGED <<beneficiary, otp, input, fetched, reply, issued>>

\* Mutant: the save inserts the document if it is gone.
ConfirmCountUpserts(r) ==
    LET f == fetched[r]
    IN  /\ pc[r] = "count"
        /\ otp' = [otp EXCEPT ![f.id] = [f.doc EXCEPT !.attempts = @ + 1]]
        /\ Reply(r, "failed")
        /\ UNCHANGED <<beneficiary, input, fetched, issued, wrong>>

\* otpRecord.save() sets the attempts read plus one; a document gone by now is
\* not recreated.  Either way the client gets an error.
ConfirmCount(r) ==
    LET f == fetched[r]
    IN  /\ pc[r] = "count"
        /\ otp' = IF otp[f.id] = None THEN otp
                  ELSE [otp EXCEPT ![f.id].attempts = f.doc.attempts + 1]
        /\ Reply(r, "failed")
        /\ UNCHANGED <<beneficiary, input, fetched, issued, wrong>>

\* otpRecord.deleteOne() of an expired or exhausted code.
ConfirmDiscard(r) ==
    /\ pc[r] = "discard"
    /\ otp' = [otp EXCEPT ![fetched[r].id] = None]
    /\ Reply(r, "failed")
    /\ UNCHANGED <<beneficiary, input, fetched, issued, wrong>>

\* findOneAndUpdate of the unverified document the code was made for; without
\* one the answer is 404 and the code stays.
ConfirmActivate(r) ==
    LET p == <<input[r].userId, fetched[r].doc.account>>
    IN  /\ pc[r] = "activate"
        /\ \/ /\ beneficiary[p] = Pending
              /\ beneficiary' = [beneficiary EXCEPT ![p] = Verified]
              /\ Goto(r, "consume")
              /\ UNCHANGED reply
           \/ /\ beneficiary[p] # Pending
              /\ Reply(r, "failed")
              /\ UNCHANGED beneficiary
        /\ UNCHANGED <<otp, input, fetched, issued, wrong>>

\* The code is deleted and the beneficiary returned.
ConfirmConsume(r) ==
    /\ pc[r] = "consume"
    /\ otp' = [otp EXCEPT ![fetched[r].id] = None]
    /\ Reply(r, "ok")
    /\ UNCHANGED <<beneficiary, input, fetched, issued, wrong>>

-----------------------------------------------------------------------------
(* removeBeneficiary.                                                      *)

\* findOne of the verified document.
RemoveFind(r, i) ==
    LET p == <<i.userId, i.account>>
    IN  /\ pc[r] = "idle"
        /\ i.op = "remove"
        /\ input' = [input EXCEPT ![r] = i]
        /\ \/ beneficiary[p] = Verified /\ Goto(r, "unverify") /\ UNCHANGED reply
           \/ beneficiary[p] # Verified /\ Reply(r, "failed")
        /\ UNCHANGED <<beneficiary, otp, fetched, issued, wrong>>

\* The soft delete: beneficiary.save() with isVerified false.
RemoveSave(r) ==
    /\ pc[r] = "unverify"
    /\ beneficiary' = [beneficiary EXCEPT ![Pair(r)] = Pending]
    /\ Reply(r, "ok")
    /\ UNCHANGED <<otp, input, fetched, issued, wrong>>

-----------------------------------------------------------------------------
Active(r) == pc[r] \notin {"idle", "done"}

\* A database call rejects or the worker dies, at any await; a call that was
\* executed and not answered is the step followed by this one.
Fail(r) ==
    /\ Active(r)
    /\ Reply(r, "failed")
    /\ UNCHANGED <<beneficiary, otp, input, fetched, issued, wrong>>

\* The validity of a code runs out.
OtpExpire(o) ==
    /\ otp[o] # None
    /\ ~otp[o].expired
    /\ otp' = [otp EXCEPT ![o].expired = TRUE]
    /\ UNCHANGED <<beneficiary, pc, input, fetched, reply, issued, wrong>>

\* The TTL index removes an expired code, some time later.
OtpReap(o) ==
    /\ otp[o] # None
    /\ otp[o].expired
    /\ otp' = [otp EXCEPT ![o] = None]
    /\ UNCHANGED <<beneficiary, pc, input, fetched, reply, issued, wrong>>

Handle(r) ==
    \/ AddLookup(r)
    \/ AddRename(r)
    \/ AddCreate(r)
    \/ AddClear(r)
    \/ AddSend(r)
    \/ ConfirmCompare(r)
    \/ ConfirmCount(r)
    \/ ConfirmDiscard(r)
    \/ ConfirmActivate(r)
    \/ ConfirmConsume(r)
    \/ RemoveSave(r)
    \/ Fail(r)

Next ==
    \/ \E r \in Requests, i \in Inputs : AddCheck(r, i) \/ ConfirmFind(r, i) \/ RemoveFind(r, i)
    \/ \E r \in Requests : Handle(r)
    \/ \E o \in Requests : OtpExpire(o) \/ OtpReap(o)

Spec == Init /\ [][Next]_vars

-----------------------------------------------------------------------------
AddLabels == {"lookup", "rename", "create", "clear", "send"}
ConfirmLabels == {"compare", "count", "discard", "activate", "consume"}

Labels == {"idle", "unverify", "done"} \cup AddLabels \cup ConfirmLabels

\* A handler stands only where its own code takes it.
Placed(r) ==
    /\ pc[r] \in AddLabels => input[r] \in AddInputs
    /\ pc[r] \in ConfirmLabels => input[r] \in ConfirmInputs /\ fetched[r] \in Copies
    /\ pc[r] = "unverify" => input[r] \in RemoveInputs

\* Documents, handler states and the copies of OTPs have their types, and
\* every handler is where its own code takes it.
TypeOK ==
    /\ beneficiary \in [Pairs -> BeneficiaryDocs \cup {None}]
    /\ otp \in [Requests -> OtpDocs \cup {None}]
    /\ pc \in [Requests -> Labels]
    /\ input \in [Requests -> Inputs \cup {None}]
    /\ fetched \in [Requests -> Copies \cup {None}]
    /\ reply \in [Requests -> {"none", "ok", "failed"}]
    /\ issued \subseteq Pairs \X Codes
    /\ wrong \in [Requests -> Nat]
    /\ \A r \in Requests : Placed(r)

\* A deleted code never comes back, though handlers that read it go on and save
\* it: a code consumed, cleared or exhausted cannot be found again.
DeadCodesStayDead ==
    [][\A o \in Requests : otp[o] = None /\ reply[o] # "none" => otp'[o] = None]_vars

\* The refinement of the abstract enrolment.
Standing == [p \in Pairs |-> IF beneficiary[p] = None THEN "absent"
                             ELSE IF beneficiary[p].isVerified THEN "verified"
                             ELSE "pending"]

Removing == {<<r, Pair(r)>> : r \in {q \in Requests : pc[q] = "unverify"}}

Promise == INSTANCE Enrolment
           WITH Removals <- Requests, standing <- Standing, removing <- Removing

\* A beneficiary is verified only by a code issued for the same user and
\* account, whatever adds, confirmations and removals interleave, and only
\* a removal that found it verified takes it back, once: a second add never
\* undoes a confirmation.
ImplementsEnrolment == Promise!Spec

-----------------------------------------------------------------------------
(* What the messages of the handlers say and the code does not do.         *)

\* "Too many incorrect attempts. OTP invalidated." after the third wrong code.
AttemptsLimited == \A o \in Requests : wrong[o] =< MaxAttempts
=============================================================================
