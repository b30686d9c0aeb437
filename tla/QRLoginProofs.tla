--------------------------- MODULE QRLoginProofs ---------------------------
(***************************************************************************)
(* Proofs about QRLogin for any tokens, hosts, verify codes and limit of   *)
(* QR codes.                                                               *)
(***************************************************************************)
EXTENDS QRLogin, TLAPS

(***************************************************************************)
(* The inductive invariant.                                                *)
(***************************************************************************)
Types ==
    /\ opts \in [force : BOOLEAN, invalidToken : Tokens \cup {NoToken},
                 onVerifyCode : BOOLEAN]
    /\ pc \in {"start", "qr", "poll", "wait", "done"}
    /\ qrRefreshCount \in Nat
    /\ entered \in [qr : Nat, uses : Nat]

\* At most MaxQRRefreshCount codes are requested.
Limited == qrRefreshCount <= MaxQRRefreshCount

\* A verify code waits only for the poll that follows, that of its QR code.
Pending ==
    /\ entered.uses <= 1
    /\ pendingVerifyCode # NoCode =>
          pc = "poll" /\ entered.uses = 0 /\ entered.qr = qrRefreshCount

\* The address in use is the one that the server named for this code.
Followed == pc \in {"poll", "wait"} => currentPollBaseURL = named

\* What the request in flight carries.
Sent ==
    pc = "wait" => /\ polled.qr = qrRefreshCount /\ polled.host = currentPollBaseURL
                   /\ polled.code # NoCode => entered.qr = polled.qr

Inv == Types /\ Limited /\ Pending /\ Followed /\ Sent

----------------------------------------------------------------------------
LEMMA InvInit == Init => Inv
BY RefreshAssumption DEF Init, Inv, Types, Limited, Pending, Followed, Sent

\* Login returns, or another process writes the file: the loop is left alone.
LEMMA LoopLeft ==
    ASSUME Inv, UNCHANGED <<opts, loopVars, wireVars>>,
           (pc' = "done" /\ pc # "poll") \/ (pc' = "qr" /\ pc # "poll") \/ pc' = pc
    PROVE  Inv'
<1>1. UNCHANGED <<opts, qrRefreshCount, currentPollBaseURL, pendingVerifyCode, polled,
                  named, entered>>
  BY DEF loopVars, wireVars
<1> QED BY <1>1 DEF Inv, Types, Limited, Pending, Followed, Sent

LEMMA InvNext == ASSUME Inv, [Next]_vars PROVE Inv'
<1> USE DEF Inv
<1>1. ASSUME NEW res, Return(res), pc # "poll" PROVE Inv'
  BY <1>1, LoopLeft DEF Return
<1>2. ASSUME Fail \/ ReturnStored, pc # "poll" PROVE Inv'
  BY <1>1, <1>2 DEF Fail, ReturnStored
<1>3. CASE Start
  BY <1>2, <1>3, LoopLeft DEF Start
<1>4. CASE GetQRCode
  BY <1>4 DEF GetQRCode, FirstBaseURL, NextRefresh, Types, Limited, Pending, Followed, Sent
<1>5. CASE GetQRCodeFails \/ AnswerError
  BY <1>2, <1>5 DEF GetQRCodeFails, AnswerError
<1>6. CASE PollQRStatus
  <2>1. /\ pc = "poll" /\ pc' = "wait" /\ pendingVerifyCode' = NoCode
        /\ polled' = [qr |-> qrRefreshCount, host |-> currentPollBaseURL,
                      code |-> pendingVerifyCode]
        /\ entered' = IF pendingVerifyCode = NoCode THEN entered
                      ELSE [entered EXCEPT !.uses = @ + 1]
        /\ UNCHANGED <<opts, qrRefreshCount, currentPollBaseURL, named>>
    BY <1>6 DEF PollQRStatus, CodeAfterUse
  <2>2. /\ entered' \in [qr : Nat, uses : Nat] /\ entered'.qr = entered.qr
        /\ pendingVerifyCode = NoCode => entered' = entered
        /\ pendingVerifyCode # NoCode => entered'.uses = entered.uses + 1
    BY <2>1 DEF Types
  <2> QED BY <2>1, <2>2 DEF Types, Limited, Pending, Followed, Sent
<1>7. CASE \E token \in Tokens, complete, saved \in BOOLEAN :
              AnswerConfirmed(token, complete, saved)
  BY <1>1, <1>2, <1>7 DEF AnswerConfirmed, AcceptConfirmed, FinalizeLogin
<1>8. CASE AnswerBound
  BY <1>2, <1>8 DEF AnswerBound
<1>9. CASE AnswerExpired
  BY <1>9, LoopLeft DEF AnswerExpired
<1>10. CASE \E code \in Codes \cup {NoCode} : AnswerNeedVerifyCode(code)
  <2>1. PICK code \in Codes \cup {NoCode} : AnswerNeedVerifyCode(code)
    BY <1>10
  <2>2. CASE Fail
    BY <1>2, <2>1, <2>2 DEF AnswerNeedVerifyCode
  <2>3. CASE ~Fail
    <3>1. /\ pc' = "poll" /\ pendingVerifyCode' = code
          /\ entered' = [qr |-> qrRefreshCount, uses |-> 0] /\ pc = "wait"
          /\ UNCHANGED <<opts, qrRefreshCount, polled, currentPollBaseURL, named>>
      BY <2>1, <2>3 DEF AnswerNeedVerifyCode, PollAgain
    <3> QED BY <3>1 DEF Types, Limited, Pending, Followed, Sent
  <2> QED BY <2>2, <2>3
<1>11. CASE \E host \in Hosts \cup {NoHost} : AnswerRedirect(host)
  BY <1>11 DEF AnswerRedirect, RedirectTarget, PollAgain, Types, Limited, Pending, Followed, Sent
<1>12. CASE AnswerOther
  BY <1>12 DEF AnswerOther, PollAgain, Types, Limited, Pending, Followed, Sent
<1>13. CASE \E content \in Tokens \cup {Absent} : OtherProcess(content)
  BY <1>13, LoopLeft DEF OtherProcess
<1>14. CASE UNCHANGED vars
  BY <1>14, LoopLeft DEF vars, loopVars, wireVars
<1> QED BY <1>3, <1>4, <1>5, <1>6, <1>7, <1>8, <1>9, <1>10, <1>11, <1>12, <1>13, <1>14
        DEF Next, Login, CodeEnds

LEMMA Invariance == Spec => []Inv
<1>1. Init => Inv
  BY InvInit
<1>2. Inv /\ [Next]_vars => Inv'
  BY InvNext
<1> QED BY <1>1, <1>2, PTL DEF Spec

\* A verify code is sent once and for its own QR code, and a QR code is polled
\* at the host that the server named for it.
THEOREM CodesKeptApart == Spec => []StaysWithItsCode
<1>1. Inv => StaysWithItsCode
  BY DEF Inv, Pending, Followed, Sent, StaysWithItsCode
<1> QED BY <1>1, Invariance, PTL

----------------------------------------------------------------------------
(***************************************************************************)
(* How Login returns.                                                      *)
(***************************************************************************)
Contract ==
    \/ /\ result'.from \in {"stored", "confirmed"}
       /\ file' = result'.token
       /\ result'.token # opts.invalidToken
       /\ opts.force => result'.from = "confirmed"
    \/ result'.from = "failed" /\ file' = file

LEMMA FailKeepsContract == Fail => Contract
BY DEF Fail, Failed, Return, Contract

LEMMA StoredKeepsContract ==
    ASSUME Types, ReturnStored, file \in Tokens, ~opts.force
    PROVE  Contract
<1>1. CASE RejectInvalidToken(file)
  BY <1>1, FailKeepsContract DEF ReturnStored
<1>2. CASE ~RejectInvalidToken(file)
  <2>1. result' = [from |-> "stored", token |-> file] /\ file' = file
    BY <1>2 DEF ReturnStored, Return
  <2>2. file # opts.invalidToken
    BY <1>2, NamesAssumption DEF RejectInvalidToken
  <2> QED BY <2>1, <2>2 DEF Contract
<1> QED BY <1>1, <1>2

LEMMA ConfirmedKeepsContract ==
    ASSUME Types, NEW token \in Tokens, NEW complete \in BOOLEAN, NEW saved \in BOOLEAN,
           AnswerConfirmed(token, complete, saved)
    PROVE  Contract
<1>1. CASE Fail
  BY <1>1, FailKeepsContract
<1>2. CASE ~Fail
  <2>1. /\ ~RejectInvalidToken(token) /\ file' = token
        /\ result' = [from |-> "confirmed", token |-> token]
    BY <1>2 DEF AnswerConfirmed, AcceptConfirmed, FinalizeLogin, Return
  <2>2. token # opts.invalidToken
    BY <2>1, NamesAssumption DEF RejectInvalidToken
  <2> QED BY <2>1, <2>2 DEF Contract
<1> QED BY <1>1, <1>2

\* Login returns credentials that are in the file at that moment and do not
\* carry the invalidated token, freshly confirmed ones if it is forced, or it
\* fails and leaves the file alone: what Session takes as one step.
THEOREM ContractKept == Spec => LoginContract
<1>1. ASSUME Inv, [Next]_vars, pc # "done", pc' = "done" PROVE Contract
  <2>1. Types
    BY <1>1 DEF Inv
  <2>2. CASE Fail
    BY <2>2, FailKeepsContract
  <2>3. CASE Start
    BY <1>1, <2>1, <2>3, StoredKeepsContract DEF Start
  <2>4. CASE AnswerBound
    BY <2>1, <2>2, <2>4, StoredKeepsContract DEF AnswerBound, ReuseAllowed
  <2>5. CASE \E token \in Tokens, complete, saved \in BOOLEAN :
                AnswerConfirmed(token, complete, saved)
    BY <2>1, <2>5, ConfirmedKeepsContract
  <2>6. CASE GetQRCodeFails \/ AnswerError
    BY <2>2, <2>6 DEF GetQRCodeFails, AnswerError
  <2>7. CASE \E code \in Codes \cup {NoCode} : AnswerNeedVerifyCode(code)
    BY <1>1, <2>2, <2>7 DEF AnswerNeedVerifyCode, PollAgain
  <2>8. CASE \/ GetQRCode \/ PollQRStatus \/ AnswerExpired \/ AnswerOther
             \/ \E host \in Hosts \cup {NoHost} : AnswerRedirect(host)
             \/ \E content \in Tokens \cup {Absent} : OtherProcess(content)
             \/ UNCHANGED vars
    BY <1>1, <2>8 DEF GetQRCode, PollQRStatus, AnswerExpired, AnswerOther, AnswerRedirect,
                      PollAgain, OtherProcess, vars
  <2> QED BY <1>1, <2>3, <2>4, <2>5, <2>6, <2>7, <2>8 DEF Next, Login, CodeEnds
<1>2. Inv /\ [Next]_vars => [pc # "done" /\ pc' = "done" => Contract]_vars
  BY <1>1
<1> QED BY <1>2, Invariance, PTL DEF Spec, LoginContract, Contract

----------------------------------------------------------------------------
(***************************************************************************)
(* Types.                                                                  *)
(***************************************************************************)
LEMMA TypeInit == Init => TypeOK
BY RefreshAssumption DEF Init, TypeOK, Sources

LEMMA FailTyped == ASSUME TypeOK, Fail PROVE TypeOK'
BY DEF TypeOK, Fail, Failed, Return, Sources, loopVars, wireVars

LEMMA StoredTyped == ASSUME TypeOK, file \in Tokens, ReturnStored PROVE TypeOK'
<1>1. CASE RejectInvalidToken(file)
  BY <1>1, FailTyped DEF ReturnStored
<1>2. CASE ~RejectInvalidToken(file)
  BY <1>2 DEF ReturnStored, TypeOK, Return, Sources, loopVars, wireVars
<1> QED BY <1>1, <1>2

LEMMA ConfirmedTyped ==
    ASSUME TypeOK, NEW token \in Tokens, NEW complete \in BOOLEAN, NEW saved \in BOOLEAN,
           AnswerConfirmed(token, complete, saved)
    PROVE  TypeOK'
<1>1. CASE Fail
  BY <1>1, FailTyped
<1>2. CASE ~Fail
  <2>1. file' = token /\ Return([from |-> "confirmed", token |-> token])
    BY <1>2 DEF AnswerConfirmed, AcceptConfirmed, FinalizeLogin
  <2> QED BY <2>1 DEF TypeOK, Return, Sources, loopVars, wireVars
<1> QED BY <1>1, <1>2

LEMMA TypeNext == ASSUME Inv, TypeOK, [Next]_vars PROVE TypeOK'
<1>1. /\ qrRefreshCount \in 0..MaxQRRefreshCount
      /\ entered \in [qr : 0..MaxQRRefreshCount, uses : Nat]
  BY RefreshAssumption DEF Inv, Types, Limited, TypeOK
<1>2. CASE Start
  BY <1>2, StoredTyped DEF Start, TypeOK, loopVars, wireVars
<1>3. CASE GetQRCode
  BY <1>1, <1>3, RefreshAssumption DEF GetQRCode, NextRefresh, FirstBaseURL, TypeOK
<1>4. CASE GetQRCodeFails \/ AnswerError
  BY <1>4, FailTyped DEF GetQRCodeFails, AnswerError
<1>5. CASE PollQRStatus
  <2>1. entered' \in [qr : 0..MaxQRRefreshCount, uses : Nat]
    BY <1>1, <1>5 DEF PollQRStatus
  <2>2. polled' \in [qr : 0..MaxQRRefreshCount, host : Hosts \cup {FixedQRBaseURL},
                     code : Codes \cup {NoCode}]
    BY <1>1, <1>5 DEF PollQRStatus, TypeOK
  <2> QED BY <1>5, <2>1, <2>2 DEF PollQRStatus, CodeAfterUse, TypeOK
<1>6. CASE \E token \in Tokens, complete, saved \in BOOLEAN :
              AnswerConfirmed(token, complete, saved)
  BY <1>6, ConfirmedTyped
<1>7. CASE AnswerBound
  BY <1>7, StoredTyped, FailTyped DEF AnswerBound
<1>8. CASE AnswerExpired
  BY <1>8 DEF AnswerExpired, TypeOK, loopVars, wireVars
<1>9. CASE \E code \in Codes \cup {NoCode} : AnswerNeedVerifyCode(code)
  <2>1. PICK code \in Codes \cup {NoCode} : AnswerNeedVerifyCode(code)
    BY <1>9
  <2>2. CASE Fail
    BY <2>2, FailTyped
  <2>3. CASE ~Fail
    BY <1>1, <2>1, <2>3 DEF AnswerNeedVerifyCode, PollAgain, TypeOK
  <2> QED BY <2>2, <2>3
<1>10. CASE \E host \in Hosts \cup {NoHost} : AnswerRedirect(host)
  BY <1>10 DEF AnswerRedirect, RedirectTarget, PollAgain, TypeOK
<1>11. CASE AnswerOther
  BY <1>11 DEF AnswerOther, PollAgain, TypeOK
<1>12. CASE \E content \in Tokens \cup {Absent} : OtherProcess(content)
  BY <1>12, RefreshAssumption DEF OtherProcess, TypeOK, loopVars, wireVars
<1>13. CASE UNCHANGED vars
  BY <1>13 DEF vars, TypeOK
<1> QED BY <1>2, <1>3, <1>4, <1>5, <1>6, <1>7, <1>8, <1>9, <1>10, <1>11, <1>12, <1>13
        DEF Next, Login, CodeEnds

\* Every variable of the login keeps its range: no more codes are requested than
\* maxQRRefreshCount, and no address but the fixed one and those the server named
\* is polled.
THEOREM TypeInvariant == Spec => []TypeOK
BY TypeInit, TypeNext, Invariance, PTL DEF Spec
============================================================================
