------------------------ MODULE BeneficiariesProofs ------------------------
(* Theorems about Beneficiaries, for all values of the constants.          *)
EXTENDS Beneficiaries, TLAPS

\* The code of an OTP was issued for the pair it names.
IssuedFor(doc) == <<<<doc.userId, doc.account>>, doc.code>> \in issued

\* What a handler may rely on where it stands, whatever the others do: it has
\* not answered yet, the document it saw or made is there (nothing deletes
\* one), and the copy it works on is an issued OTP of its own user.
HandlerSound(r) ==
    /\ pc[r] # "done" => reply[r] = "none"
    /\ pc[r] \in {"rename", "clear", "send"} => beneficiary[Pair(r)] # None
    /\ pc[r] \in ConfirmLabels => /\ fetched[r].doc.userId = input[r].userId
                                  /\ IssuedFor(fetched[r].doc)

HandlersSound == \A r \in Requests : HandlerSound(r)

OtpsIssued == \A o \in Requests : otp[o] # None => IssuedFor(otp[o])

-----------------------------------------------------------------------------
(* Types.                                                                  *)

DocTypes ==
    /\ beneficiary \in [Pairs -> BeneficiaryDocs \cup {None}]
    /\ otp \in [Requests -> OtpDocs \cup {None}]
    /\ issued \subseteq Pairs \X Codes
    /\ wrong \in [Requests -> Nat]

HandlerTypes ==
    /\ pc \in [Requests -> Labels]
    /\ input \in [Requests -> Inputs \cup {None}]
    /\ fetched \in [Requests -> Copies \cup {None}]
    /\ reply \in [Requests -> {"none", "ok", "failed"}]
    /\ \A r \in Requests : Placed(r)

Typed == DocTypes /\ HandlerTypes

LEMMA TypeInit == Init => Typed
BY DEF Init, Typed, DocTypes, HandlerTypes, Placed, AddLabels, ConfirmLabels, Labels, Pairs

\* A handler that goes on to an await of its own operation keeps its place.
LEMMA GotoTyped ==
    ASSUME HandlerTypes, NEW r \in Requests, NEW label \in Labels, Goto(r, label),
           UNCHANGED <<input, fetched, reply>>,
           label \in AddLabels => input[r] \in AddInputs,
           label \in ConfirmLabels => input[r] \in ConfirmInputs /\ fetched[r] \in Copies,
           label # "unverify"
    PROVE  HandlerTypes'
BY DEF HandlerTypes, Placed, Goto

LEMMA ReplyTyped ==
    ASSUME HandlerTypes, NEW r \in Requests, NEW kind \in {"ok", "failed"}, Reply(r, kind),
           UNCHANGED <<input, fetched>>
    PROVE  HandlerTypes'
BY DEF HandlerTypes, Placed, Goto, Reply, Labels, AddLabels, ConfirmLabels

LEMMA AddTyped ==
    ASSUME Typed, NEW r \in Requests,
           AddLookup(r) \/ AddRename(r) \/ AddCreate(r) \/ AddClear(r) \/ AddSend(r)
    PROVE  Typed'
<1>1. DocTypes /\ HandlerTypes BY DEF Typed
<1>2. input[r] \in AddInputs /\ Pair(r) \in Pairs
  BY <1>1 DEF AddLookup, AddRename, AddCreate, AddClear, AddSend, HandlerTypes, Placed,
              AddLabels, AddInputs, Pair, Pairs
<1>3. \A label \in AddLabels : label \in Labels /\ label # "unverify" /\ label \notin ConfirmLabels
  BY DEF AddLabels, Labels, ConfirmLabels
<1>4. HandlerTypes'
  <2>1. UNCHANGED <<input, fetched>>
    BY DEF AddLookup, AddRename, AddCreate, AddClear, AddSend
  <2>2. \/ Reply(r, "failed") \/ Reply(r, "ok")
        \/ (\E label \in AddLabels : Goto(r, label)) /\ UNCHANGED reply
    BY DEF AddLookup, AddRename, AddCreate, AddClear, AddSend, AddLabels
  <2> QED BY <1>1, <1>2, <1>3, <2>1, <2>2, GotoTyped, ReplyTyped
<1>5. DocTypes'
  <2>1. CASE AddLookup(r) \/ AddRename(r)
    BY <1>1, <2>1 DEF AddLookup, AddRename, DocTypes
  <2>2. CASE AddCreate(r)
    <3>1. Pending \in BeneficiaryDocs BY DEF Pending, BeneficiaryDocs
    <3>2. beneficiary' \in [Pairs -> BeneficiaryDocs \cup {None}]
      BY <1>1, <1>2, <2>2, <3>1 DEF AddCreate, DocTypes
    <3> QED BY <1>1, <2>2, <3>2 DEF AddCreate, DocTypes
  <2>3. CASE AddClear(r) BY <1>1, <2>3 DEF AddClear, DocTypes
  <2>4. CASE AddSend(r) BY <1>1, <1>2, <2>4 DEF AddSend, DocTypes, OtpDocs, AddInputs
  <2> QED BY <2>1, <2>2, <2>3, <2>4
<1> QED BY <1>4, <1>5 DEF Typed

LEMMA ConfirmTyped ==
    ASSUME Typed, NEW r \in Requests,
           \/ ConfirmCompare(r) \/ ConfirmCount(r) \/ ConfirmDiscard(r)
           \/ ConfirmActivate(r) \/ ConfirmConsume(r)
    PROVE  Typed'
<1>1. DocTypes /\ HandlerTypes BY DEF Typed
<1>2. /\ input[r] \in ConfirmInputs
      /\ fetched[r] \in Copies /\ fetched[r].id \in Requests /\ fetched[r].doc \in OtpDocs
  BY <1>1 DEF ConfirmCompare, ConfirmCount, ConfirmDiscard, ConfirmActivate, ConfirmConsume,
              HandlerTypes, Placed, ConfirmLabels, Copies
<1>3. \A label \in ConfirmLabels : label \in Labels /\ label # "unverify" /\ label \notin AddLabels
  BY DEF AddLabels, Labels, ConfirmLabels
<1>4. HandlerTypes'
  <2>1. UNCHANGED <<input, fetched>>
    BY DEF ConfirmCompare, ConfirmCount, ConfirmDiscard, ConfirmActivate, ConfirmConsume
  <2>2. \/ Reply(r, "failed") \/ Reply(r, "ok")
        \/ (\E label \in ConfirmLabels : Goto(r, label)) /\ UNCHANGED reply
    BY DEF ConfirmCompare, ConfirmCount, ConfirmDiscard, ConfirmActivate, ConfirmConsume,
           ConfirmLabels
  <2> QED BY <1>1, <1>2, <1>3, <2>1, <2>2, GotoTyped, ReplyTyped
<1>5. DocTypes'
  <2>1. CASE ConfirmCompare(r)
    <3>1. wrong' \in [Requests -> Nat] BY <1>1, <1>2, <2>1 DEF ConfirmCompare, DocTypes
    <3> QED BY <1>1, <2>1, <3>1 DEF ConfirmCompare, DocTypes
  <2>2. CASE ConfirmCount(r)
    <3>1. otp' \in [Requests -> OtpDocs \cup {None}]
      BY <1>1, <1>2, <2>2 DEF ConfirmCount, DocTypes, OtpDocs
    <3> QED BY <1>1, <2>2, <3>1 DEF ConfirmCount, DocTypes
  <2>3. CASE ConfirmDiscard(r) \/ ConfirmConsume(r)
    <3>1. otp' \in [Requests -> OtpDocs \cup {None}]
      BY <1>1, <2>3 DEF ConfirmDiscard, ConfirmConsume, DocTypes
    <3> QED BY <1>1, <2>3, <3>1 DEF ConfirmDiscard, ConfirmConsume, DocTypes
  <2>4. CASE ConfirmActivate(r)
    <3>1. Verified \in BeneficiaryDocs BY DEF Verified, BeneficiaryDocs
    <3>2. beneficiary' \in [Pairs -> BeneficiaryDocs \cup {None}]
      BY <1>1, <2>4, <3>1 DEF ConfirmActivate, DocTypes
    <3> QED BY <1>1, <2>4, <3>2 DEF ConfirmActivate, DocTypes
  <2> QED BY <2>1, <2>2, <2>3, <2>4
<1> QED BY <1>4, <1>5 DEF Typed

\* The first step of each handler.
LEMMA StartTyped ==
    ASSUME Typed, NEW r \in Requests, NEW i \in Inputs,
           AddCheck(r, i) \/ ConfirmFind(r, i) \/ RemoveFind(r, i)
    PROVE  Typed'
<1>1. DocTypes /\ HandlerTypes BY DEF Typed
<1>2. DocTypes' BY <1>1 DEF AddCheck, ConfirmFind, RemoveFind, DocTypes
<1>3. input' = [input EXCEPT ![r] = i] BY DEF AddCheck, ConfirmFind, RemoveFind
<1>4. \A q \in Requests : q # r => Placed(q) BY <1>1 DEF HandlerTypes
<1>5. CASE AddCheck(r, i)
  <2>1. i \in AddInputs
    BY <1>5 DEF AddCheck, Inputs, AddInputs, ConfirmInputs, RemoveInputs
  <2>2. pc' \in [Requests -> Labels] /\ \A q \in Requests : Placed(q)'
    BY <1>1, <1>3, <1>4, <1>5, <2>1
    DEF AddCheck, HandlerTypes, Placed, Goto, Reply, AddLabels, ConfirmLabels, Labels
  <2> QED BY <1>1, <1>2, <1>3, <1>5, <2>2 DEF AddCheck, HandlerTypes, Reply, Typed
<1>6. CASE ConfirmFind(r, i)
  <2>1. i \in ConfirmInputs
    BY <1>6 DEF ConfirmFind, Inputs, AddInputs, ConfirmInputs, RemoveInputs
  <2>2. \/ Reply(r, "failed") /\ UNCHANGED fetched
        \/ /\ \E c \in Copies : fetched' = [fetched EXCEPT ![r] = c]
           /\ Goto(r, "discard") \/ Goto(r, "compare")
           /\ UNCHANGED reply
    <3>1. \A o \in OtpsOf(i.userId) : [id |-> o, doc |-> otp[o]] \in Copies
      BY <1>1 DEF OtpsOf, Copies, DocTypes
    <3> QED BY <1>6, <3>1 DEF ConfirmFind
  <2>3. /\ pc' \in [Requests -> Labels] /\ fetched' \in [Requests -> Copies \cup {None}]
        /\ \A q \in Requests : Placed(q)'
    BY <1>1, <1>3, <1>4, <2>1, <2>2
    DEF HandlerTypes, Placed, Goto, Reply, AddLabels, ConfirmLabels, Labels
  <2> QED BY <1>1, <1>2, <1>3, <2>2, <2>3 DEF HandlerTypes, Reply, Typed
<1>7. CASE RemoveFind(r, i)
  <2>1. i \in RemoveInputs
    BY <1>7 DEF RemoveFind, Inputs, AddInputs, ConfirmInputs, RemoveInputs
  <2>2. pc' \in [Requests -> Labels] /\ \A q \in Requests : Placed(q)'
    BY <1>1, <1>3, <1>4, <1>7, <2>1
    DEF RemoveFind, HandlerTypes, Placed, Goto, Reply, AddLabels, ConfirmLabels, Labels
  <2> QED BY <1>1, <1>2, <1>3, <1>7, <2>2 DEF RemoveFind, HandlerTypes, Reply, Typed
<1> QED BY <1>5, <1>6, <1>7

\* Removals, failures and the lifetime of codes.
LEMMA OtherTyped ==
    ASSUME Typed, NEW r \in Requests,
           RemoveSave(r) \/ Fail(r) \/ OtpExpire(r) \/ OtpReap(r)
    PROVE  Typed'
<1>1. DocTypes /\ HandlerTypes BY DEF Typed
<1>2. CASE RemoveSave(r)
  <2>1. Pending \in BeneficiaryDocs BY DEF Pending, BeneficiaryDocs
  <2>2. DocTypes' BY <1>1, <1>2, <2>1 DEF RemoveSave, DocTypes
  <2>3. HandlerTypes' BY <1>1, <1>2, ReplyTyped DEF RemoveSave
  <2> QED BY <2>2, <2>3 DEF Typed
<1>3. CASE Fail(r)
  <2>1. HandlerTypes' BY <1>1, <1>3, ReplyTyped DEF Fail
  <2> QED BY <1>1, <1>3, <2>1 DEF Fail, DocTypes, Typed
<1>4. CASE OtpExpire(r) \/ OtpReap(r)
  <2>1. HandlerTypes' BY <1>1, <1>4 DEF OtpExpire, OtpReap, HandlerTypes, Placed
  <2>2. otp' \in [Requests -> OtpDocs \cup {None}]
    BY <1>1, <1>4 DEF OtpExpire, OtpReap, DocTypes, OtpDocs
  <2> QED BY <1>1, <1>4, <2>1, <2>2 DEF OtpExpire, OtpReap, DocTypes, Typed
<1> QED BY <1>2, <1>3, <1>4

LEMMA TypeNext == Typed /\ [Next]_vars => Typed'
<1> SUFFICES ASSUME Typed, [Next]_vars PROVE Typed' OBVIOUS
<1>1. CASE UNCHANGED vars
  BY <1>1 DEF vars, Typed, DocTypes, HandlerTypes, Placed
<1>2. CASE Next BY <1>2, StartTyped, AddTyped, ConfirmTyped, OtherTyped DEF Next, Handle
<1> QED BY <1>1, <1>2

\* Documents, handler states and the copies of OTPs have their types in every
\* reachable state (controller/beneficiary.controller.js).
THEOREM BeneficiariesTyped == Spec => []TypeOK
<1>1. Typed => TypeOK BY DEF Typed, DocTypes, HandlerTypes, TypeOK
<1> QED BY <1>1, TypeInit, TypeNext, PTL DEF Spec

-----------------------------------------------------------------------------
(* What the handlers may rely on.                                          *)

EnrolmentInv == Typed /\ HandlersSound /\ OtpsIssued

LEMMA EnrolmentInit == Init => EnrolmentInv
<1> SUFFICES ASSUME Init PROVE EnrolmentInv OBVIOUS
<1>1. Typed BY TypeInit
<1>2. HandlersSound BY DEF Init, HandlersSound, HandlerSound, ConfirmLabels
<1>3. OtpsIssued BY DEF Init, OtpsIssued
<1> QED BY <1>1, <1>2, <1>3 DEF EnrolmentInv

LEMMA DocsAreSome == Pending # None /\ Verified # None /\ Pending # Verified
<1>1. Pending \in BeneficiaryDocs /\ Verified \in BeneficiaryDocs /\ Pending # Verified
  BY DEF Pending, Verified, BeneficiaryDocs
<1>2. None \notin BeneficiaryDocs BY BeneficiariesNone
<1> QED BY <1>1, <1>2

\* No step of any handler deletes a Beneficiary document or forgets a code.
LEMMA DocumentsStay ==
    ASSUME Typed, [Next]_vars
    PROVE  /\ \A p \in Pairs : beneficiary[p] # None => beneficiary'[p] # None
           /\ issued \subseteq issued'
<1>1. beneficiary \in [Pairs -> BeneficiaryDocs \cup {None}] BY DEF Typed, DocTypes
<1>2. Pending # None /\ Verified # None BY DocsAreSome
<1>3. CASE UNCHANGED vars BY <1>3 DEF vars
<1>4. ASSUME NEW r \in Requests, NEW i \in Inputs,
             AddCheck(r, i) \/ ConfirmFind(r, i) \/ RemoveFind(r, i)
      PROVE  UNCHANGED <<beneficiary, issued>>
  BY <1>4 DEF AddCheck, ConfirmFind, RemoveFind
<1>5. ASSUME NEW r \in Requests, Handle(r)
      PROVE  /\ \/ beneficiary' = beneficiary
                \/ \E p \in Pairs, d \in {Pending, Verified} :
                      beneficiary' = [beneficiary EXCEPT ![p] = d]
             /\ issued \subseteq issued'
  <2>1. CASE AddCreate(r) \/ RemoveSave(r)
    <3>1. Pair(r) \in Pairs
      BY <2>1 DEF AddCreate, RemoveSave, Typed, HandlerTypes, Placed, AddLabels,
                  AddInputs, RemoveInputs, Pair, Pairs
    <3> QED BY <2>1, <3>1 DEF AddCreate, RemoveSave
  <2>2. CASE ConfirmActivate(r)
    <3>1. <<input[r].userId, fetched[r].doc.account>> \in Pairs
      BY <2>2 DEF ConfirmActivate, Typed, HandlerTypes, Placed, ConfirmLabels,
                  ConfirmInputs, Copies, OtpDocs, Pairs
    <3> QED BY <2>2, <3>1 DEF ConfirmActivate
  <2>3. CASE AddSend(r) BY <2>3 DEF AddSend
  <2>4. CASE \/ AddLookup(r) \/ AddRename(r) \/ AddClear(r) \/ ConfirmCompare(r)
             \/ ConfirmCount(r) \/ ConfirmDiscard(r) \/ ConfirmConsume(r) \/ Fail(r)
    BY <2>4 DEF AddLookup, AddRename, AddClear, ConfirmCompare, ConfirmCount,
                ConfirmDiscard, ConfirmConsume, Fail
  <2> QED BY <1>5, <2>1, <2>2, <2>3, <2>4 DEF Handle
<1>6. ASSUME NEW o \in Requests, OtpExpire(o) \/ OtpReap(o)
      PROVE  UNCHANGED <<beneficiary, issued>>
  BY <1>6 DEF OtpExpire, OtpReap
<1>7. ASSUME NEW r \in Requests, Handle(r)
      PROVE  /\ \A p \in Pairs : beneficiary[p] # None => beneficiary'[p] # None
             /\ issued \subseteq issued'
  <2>1. CASE beneficiary' = beneficiary BY <1>5, <1>7, <2>1
  <2>2. ASSUME NEW p \in Pairs, NEW d \in {Pending, Verified},
               beneficiary' = [beneficiary EXCEPT ![p] = d],
               NEW x \in Pairs, beneficiary[x] # None
        PROVE  beneficiary'[x] # None
    <3>1. beneficiary'[x] = IF x = p THEN d ELSE beneficiary[x] BY <1>1, <2>2
    <3> QED BY <1>2, <2>2, <3>1
  <2> QED BY <1>5, <1>7, <2>1, <2>2
<1> QED BY <1>3, <1>4, <1>6, <1>7 DEF Next

\* A handler that does not move relies on documents only others could touch.
LEMMA OthersSound ==
    ASSUME HandlersSound, Typed, [Next]_vars, NEW q \in Requests,
           pc'[q] = pc[q], reply'[q] = reply[q], input'[q] = input[q],
           fetched'[q] = fetched[q]
    PROVE  HandlerSound(q)'
<1>1. HandlerSound(q) BY DEF HandlersSound
<1>2. Pair(q)' = Pair(q) BY DEF Pair
<1>3. pc[q] \in {"rename", "clear", "send"} => Pair(q) \in Pairs
  BY DEF Typed, HandlerTypes, Placed, AddLabels, AddInputs, Pair, Pairs
<1> QED BY <1>1, <1>2, <1>3, DocumentsStay DEF HandlerSound, IssuedFor

LEMMA StartSound ==
    ASSUME EnrolmentInv, [Next]_vars, NEW r \in Requests, NEW i \in Inputs,
           AddCheck(r, i) \/ ConfirmFind(r, i) \/ RemoveFind(r, i)
    PROVE  HandlerSound(r)'
<1>1. /\ pc \in [Requests -> Labels] /\ input \in [Requests -> Inputs \cup {None}]
      /\ fetched \in [Requests -> Copies \cup {None}]
      /\ reply \in [Requests -> {"none", "ok", "failed"}]
      /\ reply[r] = "none"
  BY DEF EnrolmentInv, Typed, HandlerTypes, HandlersSound, HandlerSound,
         AddCheck, ConfirmFind, RemoveFind
<1>2. CASE AddCheck(r, i)
  BY <1>1, <1>2 DEF AddCheck, Goto, Reply, HandlerSound, ConfirmLabels
<1>3. CASE ConfirmFind(r, i)
  <2>1. CASE Reply(r, "failed")
    BY <1>1, <1>3, <2>1 DEF Goto, Reply, HandlerSound, ConfirmLabels
  <2>2. ASSUME NEW o \in OtpsOf(i.userId),
               fetched' = [fetched EXCEPT ![r] = [id |-> o, doc |-> otp[o]]],
               Goto(r, IF otp[o].expired THEN "discard" ELSE "compare"), UNCHANGED reply
        PROVE  HandlerSound(r)'
    <3>1. otp[o].userId = i.userId /\ IssuedFor(otp[o])
      BY DEF EnrolmentInv, OtpsIssued, OtpsOf
    <3>2. fetched'[r].doc = otp[o] /\ input'[r] = i /\ issued' = issued
      BY <1>1, <1>3, <2>2 DEF ConfirmFind
    <3>3. reply'[r] = "none" /\ pc'[r] \in {"discard", "compare"}
      BY <1>1, <2>2 DEF Goto
    <3> QED BY <3>1, <3>2, <3>3 DEF HandlerSound, IssuedFor
  <2> QED BY <1>3, <2>1, <2>2 DEF ConfirmFind
<1>4. CASE RemoveFind(r, i)
  BY <1>1, <1>4 DEF RemoveFind, Goto, Reply, HandlerSound, ConfirmLabels
<1> QED BY <1>2, <1>3, <1>4

LEMMA HandleSound ==
    ASSUME EnrolmentInv, [Next]_vars, NEW r \in Requests, Handle(r)
    PROVE  HandlerSound(r)'
<1>1. Typed /\ HandlersSound /\ HandlerSound(r) BY DEF EnrolmentInv, HandlersSound
<1>2. /\ pc \in [Requests -> Labels] /\ reply \in [Requests -> {"none", "ok", "failed"}]
      /\ beneficiary \in [Pairs -> BeneficiaryDocs \cup {None}]
  BY <1>1 DEF Typed, HandlerTypes, DocTypes
<1>3. UNCHANGED <<input, fetched>>
  BY DEF Handle, AddLookup, AddRename, AddCreate, AddClear, AddSend, ConfirmCompare,
         ConfirmCount, ConfirmDiscard, ConfirmActivate, ConfirmConsume, RemoveSave, Fail
<1>4. CASE \E kind \in {"ok", "failed"} : Reply(r, kind)
  BY <1>2, <1>4 DEF Reply, Goto, HandlerSound, ConfirmLabels
<1>5. ASSUME NEW label, Goto(r, label), UNCHANGED reply, pc[r] # "done",
             label \in {"rename", "clear", "send"} => beneficiary'[Pair(r)] # None,
             label \in ConfirmLabels => pc[r] \in ConfirmLabels
      PROVE  HandlerSound(r)'
  <2>1. pc'[r] = label BY <1>2, <1>5 DEF Goto
  <2>2. Pair(r)' = Pair(r) BY <1>3 DEF Pair
  <2> QED BY <1>1, <1>3, <1>5, <2>1, <2>2, DocumentsStay DEF HandlerSound, IssuedFor
<1>6. CASE AddLookup(r)
  <2>1. UNCHANGED beneficiary BY <1>6 DEF AddLookup
  <2> QED BY <1>4, <1>5, <1>6, <2>1, DocsAreSome DEF AddLookup, ConfirmLabels
<1>7. CASE AddRename(r) \/ AddClear(r)
  BY <1>1, <1>5, <1>7 DEF AddRename, AddClear, HandlerSound, ConfirmLabels
<1>8. CASE AddCreate(r)
  <2>1. Pair(r) \in Pairs
    BY <1>1, <1>8 DEF AddCreate, Typed, HandlerTypes, Placed, AddLabels, AddInputs, Pair, Pairs
  <2>2. beneficiary' = [beneficiary EXCEPT ![Pair(r)] = Pending] => beneficiary'[Pair(r)] # None
    BY <1>2, <2>1, DocsAreSome
  <2> QED BY <1>4, <1>5, <1>8, <2>2 DEF AddCreate, ConfirmLabels
<1>9. CASE ConfirmCompare(r) \/ ConfirmActivate(r)
  BY <1>4, <1>5, <1>9 DEF ConfirmCompare, ConfirmActivate, ConfirmLabels
<1>10. CASE \/ AddSend(r) \/ ConfirmCount(r) \/ ConfirmDiscard(r) \/ ConfirmConsume(r)
            \/ RemoveSave(r) \/ Fail(r)
  BY <1>4, <1>10 DEF AddSend, ConfirmCount, ConfirmDiscard, ConfirmConsume, RemoveSave, Fail
<1> QED BY <1>6, <1>7, <1>8, <1>9, <1>10 DEF Handle

\* Only its own steps move a handler.
LEMMA OthersStand ==
    ASSUME Typed, NEW r \in Requests, NEW q \in Requests, q # r,
           \/ Handle(r)
           \/ \E i \in Inputs : AddCheck(r, i) \/ ConfirmFind(r, i) \/ RemoveFind(r, i)
    PROVE  pc'[q] = pc[q] /\ reply'[q] = reply[q] /\ input'[q] = input[q] /\ fetched'[q] = fetched[q]
<1>1. /\ pc \in [Requests -> Labels] /\ input \in [Requests -> Inputs \cup {None}]
      /\ fetched \in [Requests -> Copies \cup {None}]
      /\ reply \in [Requests -> {"none", "ok", "failed"}]
  BY DEF Typed, HandlerTypes
<1>2. CASE Handle(r)
  BY <1>1, <1>2
  DEF Handle, AddLookup, AddRename, AddCreate, AddClear, AddSend, ConfirmCompare,
      ConfirmCount, ConfirmDiscard, ConfirmActivate, ConfirmConsume, RemoveSave, Fail, Goto, Reply
<1>3. ASSUME NEW i \in Inputs, AddCheck(r, i) \/ ConfirmFind(r, i) \/ RemoveFind(r, i)
      PROVE  pc'[q] = pc[q] /\ reply'[q] = reply[q] /\ input'[q] = input[q] /\ fetched'[q] = fetched[q]
  BY <1>1, <1>3 DEF AddCheck, ConfirmFind, RemoveFind, Goto, Reply
<1> QED BY <1>2, <1>3

LEMMA HandlersSoundNext ==
    ASSUME EnrolmentInv, [Next]_vars PROVE HandlersSound'
<1>1. Typed /\ HandlersSound BY DEF EnrolmentInv
<1> SUFFICES ASSUME NEW q \in Requests PROVE HandlerSound(q)' BY DEF HandlersSound
<1>2. CASE UNCHANGED <<pc, reply, input, fetched>> BY <1>1, <1>2, OthersSound
<1>3. ASSUME NEW r \in Requests,
             \/ Handle(r)
             \/ \E i \in Inputs : AddCheck(r, i) \/ ConfirmFind(r, i) \/ RemoveFind(r, i)
      PROVE  HandlerSound(q)'
  <2>1. CASE q = r BY <1>3, <2>1, StartSound, HandleSound
  <2>2. CASE q # r BY <1>1, <1>3, <2>2, OthersStand, OthersSound
  <2> QED BY <2>1, <2>2
<1> QED BY <1>2, <1>3 DEF Next, OtpExpire, OtpReap, vars

\* What a step can do to an OTP: make it, where it was none and by the handler
\* that sends it; change its attempts or its expiry; or delete it.
LEMMA OtpEffects ==
    ASSUME EnrolmentInv, [Next]_vars, NEW o \in Requests, otp'[o] # None
    PROVE  \/ AddSend(o)
           \/ /\ otp[o] # None
              /\ otp'[o].userId = otp[o].userId /\ otp'[o].account = otp[o].account
              /\ otp'[o].code = otp[o].code
<1>1. otp \in [Requests -> OtpDocs \cup {None}] BY DEF EnrolmentInv, Typed, DocTypes
<1>2. CASE otp' = otp BY <1>2
<1>3. ASSUME NEW r \in Requests, NEW i \in Inputs,
             AddCheck(r, i) \/ ConfirmFind(r, i) \/ RemoveFind(r, i)
      PROVE  otp' = otp
  BY <1>3 DEF AddCheck, ConfirmFind, RemoveFind
<1>4. ASSUME NEW r \in Requests, Handle(r)
      PROVE  \/ otp' = otp
             \/ AddSend(o)
             \/ /\ otp[o] # None
                /\ otp'[o].userId = otp[o].userId /\ otp'[o].account = otp[o].account
                /\ otp'[o].code = otp[o].code
  <2>1. CASE AddSend(r) BY <1>1, <2>1 DEF AddSend
  <2>2. CASE AddClear(r) BY <1>1, <2>2 DEF AddClear
  <2>3. CASE ConfirmCount(r)
    <3>1. CASE otp[fetched[r].id] = None BY <2>3, <3>1 DEF ConfirmCount
    <3>2. CASE otp[fetched[r].id] # None
      <4>1. fetched[r].id \in Requests
        BY <2>3 DEF ConfirmCount, EnrolmentInv, Typed, HandlerTypes, Placed, ConfirmLabels, Copies
      <4>2. otp[fetched[r].id] \in OtpDocs BY <1>1, <3>2, <4>1
      <4>3. otp' = [otp EXCEPT ![fetched[r].id].attempts = fetched[r].doc.attempts + 1]
        BY <2>3, <3>2 DEF ConfirmCount
      <4> QED BY <1>1, <3>2, <4>1, <4>2, <4>3 DEF OtpDocs
    <3> QED BY <3>1, <3>2
  <2>4. CASE ConfirmDiscard(r) \/ ConfirmConsume(r)
    BY <1>1, <2>4 DEF ConfirmDiscard, ConfirmConsume
  <2>5. CASE \/ AddLookup(r) \/ AddRename(r) \/ AddCreate(r) \/ ConfirmCompare(r)
             \/ ConfirmActivate(r) \/ RemoveSave(r) \/ Fail(r)
    BY <2>5 DEF AddLookup, AddRename, AddCreate, ConfirmCompare, ConfirmActivate, RemoveSave, Fail
  <2> QED BY <1>4, <2>1, <2>2, <2>3, <2>4, <2>5 DEF Handle
<1>5. ASSUME NEW x \in Requests, OtpExpire(x) \/ OtpReap(x)
      PROVE  /\ otp[o] # None
             /\ otp'[o].userId = otp[o].userId /\ otp'[o].account = otp[o].account
             /\ otp'[o].code = otp[o].code
  <2>1. otp[x] \in OtpDocs BY <1>1, <1>5 DEF OtpExpire, OtpReap
  <2> QED BY <1>1, <1>5, <2>1 DEF OtpExpire, OtpReap, OtpDocs
<1> QED BY <1>2, <1>3, <1>4, <1>5 DEF Next, vars

LEMMA OtpsIssuedNext ==
    ASSUME EnrolmentInv, [Next]_vars PROVE OtpsIssued'
<1> SUFFICES ASSUME NEW o \in Requests, otp'[o] # None PROVE IssuedFor(otp[o])'
  BY DEF OtpsIssued
<1>1. CASE AddSend(o)
  <2>1. otp \in [Requests -> OtpDocs \cup {None}] BY DEF EnrolmentInv, Typed, DocTypes
  <2> QED BY <1>1, <2>1 DEF AddSend, IssuedFor, Pair
<1>2. CASE /\ otp[o] # None
           /\ otp'[o].userId = otp[o].userId /\ otp'[o].account = otp[o].account
           /\ otp'[o].code = otp[o].code
  <2>1. IssuedFor(otp[o]) BY <1>2 DEF EnrolmentInv, OtpsIssued
  <2>2. issued \subseteq issued' BY DocumentsStay DEF EnrolmentInv
  <2> QED BY <1>2, <2>1, <2>2 DEF IssuedFor
<1> QED BY <1>1, <1>2, OtpEffects

LEMMA EnrolmentNext == EnrolmentInv /\ [Next]_vars => EnrolmentInv'
<1> SUFFICES ASSUME EnrolmentInv, [Next]_vars PROVE EnrolmentInv' OBVIOUS
<1>1. Typed' BY TypeNext DEF EnrolmentInv
<1> QED BY <1>1, HandlersSoundNext, OtpsIssuedNext DEF EnrolmentInv

\* A code that was consumed, cleared, exhausted or reaped is never found again,
\* though a confirmation that read it before may still save it: otpRecord.save
\* of confirmBeneficiaryOtp updates and does not insert.
THEOREM CodesStayDead == Spec => DeadCodesStayDead
<1>1. EnrolmentInv /\ [Next]_vars =>
        [\A o \in Requests : otp[o] = None /\ reply[o] # "none" => otp'[o] = None]_vars
  <2> SUFFICES ASSUME EnrolmentInv, [Next]_vars, NEW o \in Requests,
                      otp[o] = None, reply[o] # "none", otp'[o] # None
               PROVE  FALSE
    OBVIOUS
  <2>1. AddSend(o) BY OtpEffects
  <2>2. reply[o] = "none" BY <2>1 DEF AddSend, EnrolmentInv, HandlersSound, HandlerSound
  <2> QED BY <2>2
<1> QED BY <1>1, EnrolmentInit, EnrolmentNext, PTL DEF Spec, DeadCodesStayDead

-----------------------------------------------------------------------------
(* The refinement of Enrolment.                                            *)

LEMMA PromiseInit == Init => Promise!Init
<1> SUFFICES ASSUME Init PROVE Promise!Init OBVIOUS
<1>1. Standing = [p \in Pairs |-> "absent"] BY DEF Init, Standing
<1>2. Removing = {} BY DEF Init, Removing
<1> QED BY <1>1, <1>2 DEF Init, Promise!Init

\* Putting a document in place of another sets the standing of its pair.
LEMMA StandingSet ==
    ASSUME Typed, NEW p \in Pairs, NEW d \in {Pending, Verified},
           beneficiary' = [beneficiary EXCEPT ![p] = d]
    PROVE  Standing' = [Standing EXCEPT ![p] = IF d = Verified THEN "verified" ELSE "pending"]
<1>1. beneficiary \in [Pairs -> BeneficiaryDocs \cup {None}] BY DEF Typed, DocTypes
<1>2. d # None BY DocsAreSome
<1>3. d.isVerified <=> d = Verified BY DEF Pending, Verified
<1> QED BY <1>1, <1>2, <1>3 DEF Standing

\* What each standing says of the document.
LEMMA StandingMeans ==
    ASSUME Typed, NEW p \in Pairs
    PROVE  /\ Standing[p] = "absent" <=> beneficiary[p] = None
           /\ Standing[p] = "pending" <=> beneficiary[p] = Pending
           /\ Standing[p] = "verified" <=> beneficiary[p] = Verified
<1>1. beneficiary[p] \in BeneficiaryDocs \cup {None} BY DEF Typed, DocTypes
<1>2. Standing[p] = IF beneficiary[p] = None THEN "absent"
                    ELSE IF beneficiary[p].isVerified THEN "verified" ELSE "pending"
  BY DEF Standing
<1>3. CASE beneficiary[p] = None BY <1>2, <1>3, DocsAreSome
<1>4. CASE beneficiary[p] = Pending BY <1>2, <1>4, DocsAreSome DEF Pending
<1>5. CASE beneficiary[p] = Verified BY <1>2, <1>5, DocsAreSome DEF Verified
<1>6. beneficiary[p] # None => beneficiary[p] = Pending \/ beneficiary[p] = Verified
  BY <1>1 DEF BeneficiaryDocs, Pending, Verified
<1> QED BY <1>3, <1>4, <1>5, <1>6

\* A handler that is not a removal about to save leaves the removals alone.
LEMMA RemovingKept ==
    ASSUME Typed, NEW r \in Requests, NEW label, Goto(r, label), label # "unverify",
           pc[r] # "unverify", \A q \in Requests : q # r => input'[q] = input[q]
    PROVE  Removing' = Removing
<1>1. pc \in [Requests -> Labels] BY DEF Typed, HandlerTypes
<1>2. \A q \in Requests : pc'[q] = "unverify" <=> pc[q] = "unverify"
  BY <1>1 DEF Goto
<1>3. \A q \in Requests : pc[q] = "unverify" => Pair(q)' = Pair(q) BY DEF Pair
<1> QED BY <1>2, <1>3 DEF Removing

\* A removal that ends is no longer under way.
LEMMA RemovingEnds ==
    ASSUME Typed, NEW r \in Requests, pc[r] = "unverify", Goto(r, "done"), UNCHANGED input
    PROVE  /\ <<r, Pair(r)>> \in Removing
           /\ Removing' = Removing \ {<<r, Pair(r)>>}
           /\ Pair(r) \in Pairs
<1>1. pc \in [Requests -> Labels] BY DEF Typed, HandlerTypes
<1>2. \A q \in Requests : pc'[q] = "unverify" <=> pc[q] = "unverify" /\ q # r
  BY <1>1 DEF Goto
<1>3. \A q \in Requests : Pair(q)' = Pair(q) BY DEF Pair
<1>4. Pair(r) \in Pairs
  BY DEF Typed, HandlerTypes, Placed, RemoveInputs, Pair, Pairs
<1> QED BY <1>2, <1>3, <1>4 DEF Removing

LEMMA PromiseStart ==
    ASSUME EnrolmentInv, NEW r \in Requests, NEW i \in Inputs,
           AddCheck(r, i) \/ ConfirmFind(r, i) \/ RemoveFind(r, i)
    PROVE  [Promise!Next]_(Promise!enrolmentVars)
<1>1. Typed /\ pc \in [Requests -> Labels] /\ input \in [Requests -> Inputs \cup {None}]
  BY DEF EnrolmentInv, Typed, HandlerTypes
<1>2. UNCHANGED <<Standing, issued>>
  BY DEF AddCheck, ConfirmFind, RemoveFind, Standing
<1>3. pc[r] = "idle" /\ input' = [input EXCEPT ![r] = i]
  BY DEF AddCheck, ConfirmFind, RemoveFind
<1>4. \A q \in Requests : q # r => input'[q] = input[q] BY <1>1, <1>3
<1>5. ASSUME NEW label, Goto(r, label), label # "unverify"
      PROVE  [Promise!Next]_(Promise!enrolmentVars)
  BY <1>1, <1>2, <1>3, <1>4, <1>5, RemovingKept DEF Promise!enrolmentVars
<1>6. CASE AddCheck(r, i) BY <1>5, <1>6 DEF AddCheck, Reply
<1>7. CASE ConfirmFind(r, i)
  <2>1. Goto(r, "done") \/ Goto(r, "discard") \/ Goto(r, "compare")
    BY <1>7 DEF ConfirmFind, Reply
  <2> QED BY <1>5, <2>1
<1>8. CASE RemoveFind(r, i)
  <2> DEFINE p == <<i.userId, i.account>>
  <2>1. p \in Pairs
    BY <1>8 DEF RemoveFind, Inputs, AddInputs, ConfirmInputs, RemoveInputs, Pairs
  <2>2. CASE Reply(r, "failed") BY <1>5, <2>2 DEF Reply
  <2>3. CASE beneficiary[p] = Verified /\ Goto(r, "unverify")
    <3>1. Standing[p] = "verified" BY <1>1, <2>1, <2>3, StandingMeans
    <3>2. \A q \in Requests : pc'[q] = "unverify" <=> pc[q] = "unverify" \/ q = r
      BY <1>1, <2>3 DEF Goto
    <3>3. Pair(r)' = p BY <1>1, <1>3 DEF Pair
    <3>4. \A q \in Requests : q # r => Pair(q)' = Pair(q) BY <1>4 DEF Pair
    <3>5. Removing' = Removing \cup {<<r, p>>}
      BY <1>3, <3>2, <3>3, <3>4 DEF Removing
    <3>6. Promise!AskRemoval(r, p) BY <1>2, <3>1, <3>5 DEF Promise!AskRemoval
    <3> QED BY <2>1, <3>6 DEF Promise!Next
  <2> QED BY <1>8, <2>2, <2>3 DEF RemoveFind
<1> QED BY <1>6, <1>7, <1>8

LEMMA PromiseHandle ==
    ASSUME EnrolmentInv, NEW r \in Requests, Handle(r)
    PROVE  [Promise!Next]_(Promise!enrolmentVars)
<1>1. Typed /\ HandlerSound(r) BY DEF EnrolmentInv, HandlersSound
<1>2. UNCHANGED <<input, fetched>>
  BY DEF Handle, AddLookup, AddRename, AddCreate, AddClear, AddSend, ConfirmCompare,
         ConfirmCount, ConfirmDiscard, ConfirmActivate, ConfirmConsume, RemoveSave, Fail
<1>3. ASSUME NEW label, Goto(r, label), label # "unverify", pc[r] # "unverify"
      PROVE  Removing' = Removing
  BY <1>1, <1>2, <1>3, RemovingKept
<1>4. CASE \/ AddLookup(r) \/ AddRename(r) \/ AddClear(r) \/ ConfirmCompare(r)
           \/ ConfirmCount(r) \/ ConfirmDiscard(r) \/ ConfirmConsume(r)
  <2>1. UNCHANGED <<Standing, issued>> /\ pc[r] # "unverify"
    BY <1>4 DEF AddLookup, AddRename, AddClear, ConfirmCompare, ConfirmCount,
                ConfirmDiscard, ConfirmConsume, Standing
  <2>2. \E label : Goto(r, label) /\ label # "unverify"
    BY <1>4 DEF AddLookup, AddRename, AddClear, ConfirmCompare, ConfirmCount,
                ConfirmDiscard, ConfirmConsume, Reply
  <2> QED BY <1>3, <2>1, <2>2 DEF Promise!enrolmentVars
<1>5. CASE AddCreate(r)
  <2>1. Pair(r) \in Pairs
    BY <1>1, <1>5 DEF AddCreate, Typed, HandlerTypes, Placed, AddLabels, AddInputs, Pair, Pairs
  <2>2. Removing' = Removing /\ UNCHANGED issued BY <1>3, <1>5 DEF AddCreate, Reply
  <2>3. CASE UNCHANGED beneficiary
    BY <2>2, <2>3 DEF Standing, Promise!enrolmentVars
  <2>4. CASE /\ beneficiary[Pair(r)] = None
             /\ beneficiary' = [beneficiary EXCEPT ![Pair(r)] = Pending]
    <3>1. Standing[Pair(r)] = "absent" BY <1>1, <2>1, <2>4, StandingMeans
    <3>2. Standing' = [Standing EXCEPT ![Pair(r)] = "pending"]
      BY <1>1, <2>1, <2>4, StandingSet, DocsAreSome
    <3>3. Promise!Propose(Pair(r)) BY <2>2, <3>1, <3>2 DEF Promise!Propose
    <3> QED BY <2>1, <3>3 DEF Promise!Next
  <2> QED BY <1>5, <2>3, <2>4 DEF AddCreate
<1>6. CASE AddSend(r)
  <2>1. Pair(r) \in Pairs
    BY <1>1, <1>6 DEF AddSend, Typed, HandlerTypes, Placed, AddLabels, AddInputs, Pair, Pairs
  <2>2. Standing[Pair(r)] # "absent"
    BY <1>1, <1>6, <2>1, StandingMeans DEF AddSend, HandlerSound
  <2>3. Removing' = Removing /\ UNCHANGED Standing
    BY <1>3, <1>6 DEF AddSend, Reply, Standing
  <2>4. PICK c \in Codes : issued' = issued \cup {<<Pair(r), c>>} BY <1>6 DEF AddSend
  <2>5. Promise!Issue(Pair(r), c) BY <2>2, <2>3, <2>4 DEF Promise!Issue
  <2> QED BY <2>1, <2>5 DEF Promise!Next
<1>7. CASE ConfirmActivate(r)
  <2> DEFINE p == <<input[r].userId, fetched[r].doc.account>>
             c == fetched[r].doc.code
  <2>1. p \in Pairs /\ c \in Codes
    BY <1>1, <1>7 DEF ConfirmActivate, Typed, HandlerTypes, Placed, ConfirmLabels,
                      ConfirmInputs, Copies, OtpDocs, Pairs
  <2>2. <<p, c>> \in issued
    BY <1>1, <1>7 DEF ConfirmActivate, HandlerSound, ConfirmLabels, IssuedFor
  <2>3. Removing' = Removing /\ UNCHANGED issued BY <1>3, <1>7 DEF ConfirmActivate, Reply
  <2>4. CASE UNCHANGED beneficiary
    BY <2>3, <2>4 DEF Standing, Promise!enrolmentVars
  <2>5. CASE /\ beneficiary[p] = Pending
             /\ beneficiary' = [beneficiary EXCEPT ![p] = Verified]
    <3>1. Standing[p] = "pending" BY <1>1, <2>1, <2>5, StandingMeans
    <3>2. Standing' = [Standing EXCEPT ![p] = "verified"]
      BY <1>1, <2>1, <2>5, StandingSet
    <3>3. Promise!Approve(p, c) BY <2>2, <2>3, <3>1, <3>2 DEF Promise!Approve
    <3> QED BY <2>1, <3>3 DEF Promise!Next
  <2> QED BY <1>7, <2>4, <2>5 DEF ConfirmActivate
<1>8. CASE RemoveSave(r)
  <2>1. /\ <<r, Pair(r)>> \in Removing /\ Removing' = Removing \ {<<r, Pair(r)>>}
        /\ Pair(r) \in Pairs
    BY <1>1, <1>2, <1>8, RemovingEnds DEF RemoveSave, Reply
  <2>2. Standing' = [Standing EXCEPT ![Pair(r)] = "pending"]
    BY <1>1, <1>8, <2>1, StandingSet, DocsAreSome DEF RemoveSave
  <2>3. Promise!Withdraw(r, Pair(r))
    BY <1>8, <2>1, <2>2 DEF RemoveSave, Promise!Withdraw
  <2> QED BY <2>1, <2>3 DEF Promise!Next
<1>9. CASE Fail(r)
  <2>1. UNCHANGED <<Standing, issued>> BY <1>9 DEF Fail, Standing
  <2>2. Goto(r, "done") BY <1>9 DEF Fail, Reply
  <2>3. CASE pc[r] # "unverify" BY <1>3, <2>1, <2>2, <2>3 DEF Promise!enrolmentVars
  <2>4. CASE pc[r] = "unverify"
    <3>1. /\ <<r, Pair(r)>> \in Removing /\ Removing' = Removing \ {<<r, Pair(r)>>}
          /\ Pair(r) \in Pairs
      BY <1>1, <1>2, <2>2, <2>4, RemovingEnds
    <3>2. Promise!Abandon(r, Pair(r)) BY <2>1, <3>1 DEF Promise!Abandon
    <3> QED BY <3>1, <3>2 DEF Promise!Next
  <2> QED BY <2>3, <2>4
<1> QED BY <1>4, <1>5, <1>6, <1>7, <1>8, <1>9 DEF Handle

LEMMA PromiseNext ==
    EnrolmentInv /\ [Next]_vars => [Promise!Next]_(Promise!enrolmentVars)
<1> SUFFICES ASSUME EnrolmentInv, [Next]_vars
             PROVE  [Promise!Next]_(Promise!enrolmentVars)
  OBVIOUS
<1>1. CASE UNCHANGED <<beneficiary, pc, input, issued>>
  <2>1. \A q \in Requests : Pair(q)' = Pair(q) BY <1>1 DEF Pair
  <2> QED BY <1>1, <2>1 DEF Standing, Removing, Promise!enrolmentVars
<1>2. CASE UNCHANGED vars BY <1>1, <1>2 DEF vars
<1>3. CASE \E o \in Requests : OtpExpire(o) \/ OtpReap(o)
  BY <1>1, <1>3 DEF OtpExpire, OtpReap
<1> QED BY <1>2, <1>3, PromiseStart, PromiseHandle DEF Next

\* The handlers implement the abstract enrolment: a beneficiary is verified
\* only by a code issued for that user and account, and only a removal that
\* found it verified undoes that (confirmBeneficiaryOtp, removeBeneficiary).
THEOREM BeneficiariesImplementEnrolment == Spec => ImplementsEnrolment
BY EnrolmentInit, EnrolmentNext, PromiseInit, PromiseNext, PTL
DEF Spec, ImplementsEnrolment, Promise!Spec
=============================================================================
