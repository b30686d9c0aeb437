------------------------------ MODULE QRLogin ------------------------------
(***************************************************************************)
(* auth.Login: stored credentials, or a QR code that is polled until it    *)
(* ends (internal/auth/login.go).  A QR code is named by the round of the  *)
(* outer loop that requested it; credentials by their token.  Session      *)
(* takes all of this as one step, which LoginContract describes.           *)
(***************************************************************************)
EXTENDS Integers

CONSTANTS
    Tokens,                 \* tokens of complete credentials
    NoToken,                \* LoginOptions.InvalidToken left empty
    Absent, Damaged,        \* no credential file; one that cannot be decoded
    Hosts,                  \* hosts the server may redirect to
    NoHost,                 \* a redirect without redirect_host
    FixedQRBaseURL,         \* fixedQRBaseURL
    Codes, NoCode,          \* verify codes; ""
    MaxQRRefreshCount,      \* maxQRRefreshCount
    MaxOthers               \* bound: writes of the file by other processes

ASSUME RefreshAssumption ==
    MaxQRRefreshCount \in Nat \ {0} /\ MaxOthers \in Nat

ASSUME NamesAssumption ==
    /\ NoToken \notin Tokens /\ Absent \notin Tokens /\ Damaged \notin Tokens
    /\ NoHost \notin Hosts /\ NoCode \notin Codes

VARIABLES
    opts,               \* LoginOptions: force, invalidToken, onVerifyCode set or not
    file,               \* the credential file
    pc,
    qrRefreshCount,
    currentPollBaseURL,
    pendingVerifyCode,
    result,             \* what Login returns
    others,
    polled,             \* the last poll: code, host, verify code
    named,              \* the host the server last named for the current code
    entered             \* the last verify code: for which QR code, sent how often

vars == <<opts, file, pc, qrRefreshCount, currentPollBaseURL, pendingVerifyCode,
          result, others, polled, named, entered>>
loopVars == <<qrRefreshCount, currentPollBaseURL, pendingVerifyCode>>
wireVars == <<polled, named, entered>>

Sources == {"none", "stored", "confirmed", "failed"}
Failed == [from |-> "failed", token |-> NoToken]

TypeOK ==
    /\ opts \in [force : BOOLEAN, invalidToken : Tokens \cup {NoToken},
                 onVerifyCode : BOOLEAN]
    /\ file \in Tokens \cup {Absent, Damaged}
    /\ pc \in {"start", "qr", "poll", "wait", "done"}
    /\ qrRefreshCount \in 0..MaxQRRefreshCount
    /\ currentPollBaseURL \in Hosts \cup {FixedQRBaseURL}
    /\ pendingVerifyCode \in Codes \cup {NoCode}
    /\ result \in [from : Sources, token : Tokens \cup {NoToken}]
    /\ others \in 0..MaxOthers
    /\ polled \in [qr : 0..MaxQRRefreshCount, host : Hosts \cup {FixedQRBaseURL},
                   code : Codes \cup {NoCode}]
    /\ named \in Hosts \cup {FixedQRBaseURL}
    /\ entered \in [qr : 0..MaxQRRefreshCount, uses : Nat]

Init ==
    /\ opts \in [force : BOOLEAN, invalidToken : Tokens \cup {NoToken},
                 onVerifyCode : BOOLEAN]
    /\ file \in Tokens \cup {Absent, Damaged}
    /\ pc = "start"
    /\ qrRefreshCount = 0
    /\ currentPollBaseURL = FixedQRBaseURL
    /\ pendingVerifyCode = NoCode
    /\ result = [from |-> "none", token |-> NoToken]
    /\ others = 0
    /\ polled = [qr |-> 0, host |-> FixedQRBaseURL, code |-> NoCode]
    /\ named = FixedQRBaseURL
    /\ entered = [qr |-> 0, uses |-> 0]

----------------------------------------------------------------------------
\* Login returns; the locals of its loop are of no use any more.
Return(res) ==
    /\ pc' = "done"
    /\ result' = res
    /\ UNCHANGED <<opts, loopVars, others, wireVars>>

Fail == Return(Failed) /\ UNCHANGED file

RejectInvalidToken(token) ==
    opts.invalidToken # NoToken /\ token = opts.invalidToken

\* Credentials loaded from the file, which LoadCredentials could decode.
ReturnStored ==
    IF RejectInvalidToken(file) THEN Fail
    ELSE Return([from |-> "stored", token |-> file]) /\ UNCHANGED file

\* A damaged file counts as none (the error of LoadCredentials is dropped).
Start ==
    /\ pc = "start"
    /\ \/ ~opts.force /\ file \in Tokens /\ ReturnStored
       \/ /\ opts.force \/ file \notin Tokens
          /\ pc' = "qr"
          /\ UNCHANGED <<opts, file, loopVars, result, others, wireVars>>

FirstBaseURL == FixedQRBaseURL

\* Fault: the counter is set inside the loop.
RefreshNotCounted == IF qrRefreshCount = 0 THEN 1 ELSE qrRefreshCount

NextRefresh == qrRefreshCount + 1

\* A round of the outer loop; existing is nil here, so no token is offered.
GetQRCode ==
    /\ pc = "qr"
    /\ NextRefresh <= MaxQRRefreshCount
    /\ qrRefreshCount' = NextRefresh
    /\ currentPollBaseURL' = FirstBaseURL
    /\ pendingVerifyCode' = NoCode
    /\ named' = FixedQRBaseURL
    /\ pc' = "poll"
    /\ UNCHANGED <<opts, file, result, others, polled, entered>>

\* The limit is exceeded, or the request fails or is cancelled.
GetQRCodeFails == pc = "qr" /\ Fail

\* Fault: the code is sent again with every later poll.
CodeKept == pendingVerifyCode

CodeAfterUse == NoCode

\* PollQRStatus goes out; pendingVerifyCode is cleared after use.
PollQRStatus ==
    /\ pc = "poll"
    /\ polled' = [qr |-> qrRefreshCount, host |-> currentPollBaseURL,
                  code |-> pendingVerifyCode]
    /\ entered' = IF pendingVerifyCode = NoCode THEN entered
                  ELSE [entered EXCEPT !.uses = @ + 1]
    /\ pendingVerifyCode' = CodeAfterUse
    /\ pc' = "wait"
    /\ UNCHANGED <<opts, file, qrRefreshCount, currentPollBaseURL, result, others,
                   named>>

----------------------------------------------------------------------------
(***************************************************************************)
(* The answers.                                                            *)
(***************************************************************************)

AnswerError == pc = "wait" /\ Fail

\* finalizeLogin: saved, then returned; a failed write changes nothing.
FinalizeLogin(token, saved) ==
    \/ saved /\ file' = token /\ Return([from |-> "confirmed", token |-> token])
    \/ ~saved /\ Fail

AcceptConfirmed(token, saved) ==
    IF RejectInvalidToken(token) THEN Fail ELSE FinalizeLogin(token, saved)

\* "confirmed"; without token, bot id or user id it is an error.
AnswerConfirmed(token, complete, saved) ==
    /\ pc = "wait"
    /\ IF complete THEN AcceptConfirmed(token, saved) ELSE Fail

\* Fault: a forced login is content with the stored credentials.
MayReuse == TRUE

ReuseAllowed == ~opts.force

\* "binded_redirect": the file is read once more (existing is nil here).
AnswerBound ==
    /\ pc = "wait"
    /\ IF ReuseAllowed /\ file \in Tokens THEN ReturnStored ELSE Fail

\* The inner loop goes on, after a pause of two seconds or at once.
PollAgain ==
    /\ pc' = "poll"
    /\ UNCHANGED <<opts, file, qrRefreshCount, result, others, polled>>

\* "need_verifycode": the callback returns code, or fails or returns "".
AnswerNeedVerifyCode(code) ==
    /\ pc = "wait"
    /\ \/ /\ opts.onVerifyCode /\ code # NoCode
          /\ pendingVerifyCode' = code
          /\ entered' = [qr |-> qrRefreshCount, uses |-> 0]
          /\ PollAgain
          /\ UNCHANGED <<currentPollBaseURL, named>>
       \/ ~opts.onVerifyCode /\ Fail
       \/ code = NoCode /\ Fail

RedirectTarget(host) == IF host # NoHost THEN host ELSE currentPollBaseURL

\* "scaned_but_redirect", with or without a host.
AnswerRedirect(host) ==
    /\ pc = "wait"
    /\ currentPollBaseURL' = RedirectTarget(host)
    /\ named' = IF host # NoHost THEN host ELSE named
    /\ PollAgain
    /\ UNCHANGED <<pendingVerifyCode, entered>>

\* "wait", "scaned" and whatever else the server may say.
AnswerOther ==
    /\ pc = "wait"
    /\ PollAgain
    /\ UNCHANGED <<currentPollBaseURL, pendingVerifyCode, named, entered>>

\* "verify_code_blocked" or "expired".
AnswerExpired ==
    /\ pc = "wait"
    /\ pc' = "qr"
    /\ UNCHANGED <<opts, file, loopVars, result, others, wireVars>>

\* Another process shares the credential file.
OtherProcess(content) ==
    /\ pc # "done" /\ others < MaxOthers
    /\ file' = content
    /\ others' = others + 1
    /\ UNCHANGED <<opts, pc, loopVars, result, wireVars>>

----------------------------------------------------------------------------
CodeEnds ==
    \/ AnswerError \/ AnswerExpired \/ AnswerBound
    \/ \E token \in Tokens, complete, saved \in BOOLEAN :
          AnswerConfirmed(token, complete, saved)

Login ==
    \/ Start \/ GetQRCode \/ GetQRCodeFails \/ PollQRStatus
    \/ CodeEnds
    \/ \E code \in Codes \cup {NoCode} : AnswerNeedVerifyCode(code)
    \/ \E host \in Hosts \cup {NoHost} : AnswerRedirect(host)
    \/ AnswerOther

Next ==
    \/ Login
    \/ \E content \in Tokens \cup {Absent} : OtherProcess(content)
    \/ pc = "done" /\ UNCHANGED vars

Spec == Init /\ [][Next]_vars

\* Every request returns, and the server ends every QR code some time.
FairSpec == Spec /\ WF_vars(Login) /\ SF_vars(CodeEnds)

----------------------------------------------------------------------------
(***************************************************************************)
(* Properties.                                                             *)
(***************************************************************************)

\* A verify code is sent for the QR code it was entered for, and only once,
\* whatever statuses follow it (pendingVerifyCode); a QR code is polled at the host
\* the server named for it, never at one that it named for an earlier code
\* (currentPollBaseURL).
StaysWithItsCode ==
    /\ entered.uses <= 1
    /\ pc = "wait" => /\ polled.code # NoCode => entered.qr = polled.qr
                      /\ polled.qr = qrRefreshCount /\ polled.host = named

\* What Session relies on: Login returns credentials that are in the file at
\* that moment and do not carry the invalidated token, and a forced login only
\* freshly confirmed ones; or it fails and leaves the file alone.
LoginContract ==
    [][pc # "done" /\ pc' = "done" =>
         \/ /\ result'.from \in {"stored", "confirmed"}
            /\ file' = result'.token
            /\ result'.token # opts.invalidToken
            /\ opts.force => result'.from = "confirmed"
         \/ result'.from = "failed" /\ file' = file]_vars

\* However the server answers, Login ends once each of its QR codes does: the
\* number of codes is limited.
LoginEnds == <>(pc = "done")
============================================================================
