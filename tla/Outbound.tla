----------------------------- MODULE Outbound -----------------------------
(***************************************************************************)
(* Sending (outbound.go, content.go, media.go, UploadToCDN): calls of Send,*)
(* Reply, SendMedia, ReplyContent, SendMessage and ReplyMessage, each a    *)
(* goroutine that sends the parts of its content one by one, while the     *)
(* session is lost and replaced.                                           *)
(*                                                                         *)
(* A context token is named by the session generation it was received in.  *)
(* A text is cut into parts before it is sent (module TextChunks); a       *)
(* caption goes before its image, video or file.  SendMessage and          *)
(* ReplyMessage send exactly one message and return its client id, also    *)
(* with an error, so that the caller may try again with the same id.       *)
(***************************************************************************)
EXTENDS Integers, SequencesExt

CONSTANTS
    Callers,        \* one call each
    Contents,       \* records [reply, remote, single, parts]: see ContentsAssumption
    NotifyErrors,   \* Options.NotifyErrors
    MaxGeneration,  \* bound: sessions
    MaxTries        \* bound: times a caller sends a message

Media == {"image", "file"}      \* with and without thumbnail
Parts == {"text"} \cup Media

ASSUME ContentsAssumption ==
    \A content \in Contents :
        /\ content.reply \in BOOLEAN    \* answers an incoming message
        /\ content.remote \in BOOLEAN   \* its media is downloaded first
        /\ content.single \in BOOLEAN   \* of SendMessage or ReplyMessage
        /\ content.parts \in Seq(Parts) /\ content.parts # <<>>
        /\ content.single => content.parts = <<"text">>

ASSUME OutboundAssumption ==
    NotifyErrors \in BOOLEAN /\ {MaxGeneration, MaxTries} \subseteq Nat \ {0}

NoToken == 0        \* no context token for the user
NoID == 0           \* msg.ClientID = ""
MaxRetries == 3     \* maxRetries of UploadToCDN

VARIABLES
    generation, ready,  \* b.sessionGeneration; b.reauth = nil
    contextToken,       \* what contextTokens.Get(userID) returns
    pc,                 \* where each call is
    content, gen, token,    \* what it sends, in which session, with which token
    next,               \* the part it is at
    attempt,            \* attempts of the upload in progress
    uploaded,           \* what has been uploaded for this part
    thumb,              \* the server offered a place for the thumbnail
    notice,             \* the call is sending its error notice
    clientID,           \* client id of the message being sent
    returned,           \* SendResult.ClientID, and the id to try again with
    ids,                \* how many client ids have been made for the call
    tries,              \* how often the caller has called
    accepted,           \* what the server has accepted of the call, in order
    shown,              \* what the user sees of the call, without the notices
    result

vars == <<generation, ready, contextToken, pc, content, gen, token, next, attempt,
          uploaded, thumb, notice, clientID, returned, ids, tries, accepted, shown, result>>
sessionVars == <<generation, ready, contextToken>>
argVars == <<content, gen, token>>
uploadVars == <<attempt, uploaded, thumb>>
idVars == <<clientID, returned, ids, tries>>
userVars == <<accepted, shown>>
sentVars == <<idVars, userVars>>

Places == {"idle", "token", "resolve", "part", "url", "urlWait", "upload",
           "uploaded", "hook", "send", "sendWait", "failed", "returned"}

TypeOK ==
    /\ generation \in 1..MaxGeneration /\ ready \in BOOLEAN
    /\ contextToken \in 0..generation
    /\ pc \in [Callers -> Places]
    /\ \A c \in Callers : pc[c] # "idle" => content[c] \in Contents
    /\ gen \in [Callers -> 0..generation] /\ token \in [Callers -> 0..generation]
    /\ \A c \in Callers : pc[c] # "idle" => next[c] \in 1..(Len(content[c].parts) + 1)
    /\ attempt \in [Callers -> 0..MaxRetries]
    /\ uploaded \in [Callers -> SUBSET {"data", "thumb"}]
    /\ thumb \in [Callers -> BOOLEAN] /\ notice \in [Callers -> BOOLEAN]
    /\ \A c \in Callers :
        /\ {clientID[c], returned[c]} \subseteq 0..ids[c] /\ tries[c] \in 0..MaxTries
        /\ accepted[c] \in Seq([item : Parts \cup {"notice", "dangling"},
                                id : 1..ids[c], try : 1..tries[c]])
        /\ shown[c] \in Seq(Parts \cup {"dangling"})
    /\ result \in [Callers -> {"none", "nil", "error"}]

Init ==
    /\ generation = 1 /\ ready = TRUE /\ contextToken = NoToken
    /\ pc = [c \in Callers |-> "idle"]
    /\ content \in [Callers -> Contents]
    /\ gen = [c \in Callers |-> 0] /\ token = [c \in Callers |-> NoToken]
    /\ next = [c \in Callers |-> 1]
    /\ attempt = [c \in Callers |-> 0] /\ uploaded = [c \in Callers |-> {}]
    /\ thumb = [c \in Callers |-> FALSE] /\ notice = [c \in Callers |-> FALSE]
    /\ clientID = [c \in Callers |-> NoID] /\ returned = [c \in Callers |-> NoID]
    /\ ids = [c \in Callers |-> 0] /\ tries = [c \in Callers |-> 0]
    /\ accepted = [c \in Callers |-> <<>>] /\ shown = [c \in Callers |-> <<>>]
    /\ result = [c \in Callers |-> "none"]

----------------------------------------------------------------------------
Part(c) == content[c].parts[next[c]]
SessionReady(c) == ready /\ generation = gen[c]     \* readySession

Goto(c, place) == pc' = [pc EXCEPT ![c] = place]

Return(c, err) ==
    /\ Goto(c, "returned")
    /\ result' = [result EXCEPT ![c] = err]

\* An error ends the call; one of the notice itself is only logged.
Fail(c) ==
    /\ IF notice[c] THEN Return(c, "error") ELSE Goto(c, "failed") /\ UNCHANGED result
    /\ UNCHANGED <<next, notice>>

\* A call binds itself to the session that is ready; one from a handler, or for
\* an incoming message, only if that is the handler's or message's session.
Call(c) ==
    /\ pc[c] = "idle" /\ ready
    /\ gen' = [gen EXCEPT ![c] = generation]
    /\ tries' = [tries EXCEPT ![c] = 1]
    /\ Goto(c, "token")
    /\ UNCHANGED <<sessionVars, content, token, next, uploadVars, notice, clientID,
                   returned, ids, userVars, result>>

\* After an error the caller of SendMessage calls again, with the id that was
\* returned; the message of a ReplyMessage is still that of the first session.
Retry(c) ==
    /\ pc[c] = "returned" /\ result[c] = "error"
    /\ content[c].single /\ tries[c] < MaxTries
    /\ ready /\ (content[c].reply => generation = gen[c])
    /\ gen' = [gen EXCEPT ![c] = generation]
    /\ tries' = [tries EXCEPT ![c] = @ + 1]
    /\ notice' = [notice EXCEPT ![c] = FALSE]
    /\ result' = [result EXCEPT ![c] = "none"]
    /\ Goto(c, "token")
    /\ UNCHANGED <<sessionVars, content, token, next, uploadVars, clientID, returned,
                   ids, userVars>>

\* Send, SendMedia and SendMessage look the token up after they have bound
\* themselves; without one they return.
LookUpToken(c) ==
    /\ pc[c] = "token" /\ ~content[c].reply
    /\ token' = [token EXCEPT ![c] = contextToken]
    /\ IF contextToken = NoToken THEN Return(c, "error")
       ELSE Goto(c, "resolve") /\ UNCHANGED result
    /\ UNCHANGED <<sessionVars, content, gen, next, uploadVars, notice, sentVars>>

\* A reply uses the token of its message, and stores it if the session is still
\* the message's; a failure to store it is logged, a lost session is an error.
PersistToken(c) ==
    /\ pc[c] = "token" /\ content[c].reply
    /\ token' = [token EXCEPT ![c] = gen[c]]
    /\ \/ /\ SessionReady(c)
          /\ contextToken' \in {gen[c], contextToken}
          /\ Goto(c, "resolve") /\ UNCHANGED result
       \/ /\ generation # gen[c]
          /\ Goto(c, "resolve") /\ UNCHANGED <<contextToken, result>>
       \/ /\ generation = gen[c] /\ ~ready
          /\ Return(c, "error") /\ UNCHANGED contextToken
    /\ UNCHANGED <<generation, ready, content, gen, next, uploadVars, notice, sentVars>>

\* resolveRemote; an error of the download is returned without notice.
Resolve(c) ==
    /\ pc[c] = "resolve"
    /\ \/ Goto(c, "part") /\ UNCHANGED result
       \/ content[c].remote /\ Return(c, "error")
    /\ UNCHANGED <<sessionVars, argVars, next, uploadVars, notice, sentVars>>

AllSent(c) == next[c] > Len(content[c].parts)

\* The next part: sendText for a chunk, an upload first for media.
BeginPart(c) ==
    /\ pc[c] = "part"
    /\ CASE AllSent(c) -> Return(c, "nil") /\ UNCHANGED <<next, notice>>
         [] ~AllSent(c) /\ ~SessionReady(c) -> Fail(c)
         [] ~AllSent(c) /\ SessionReady(c) ->
               /\ Goto(c, IF Part(c) \in Media THEN "url" ELSE "hook")
               /\ UNCHANGED <<next, notice, result>>
    /\ uploaded' = [uploaded EXCEPT ![c] = {}]
    /\ UNCHANGED <<sessionVars, argVars, attempt, thumb, sentVars>>

\* Fault: only the state of the bot is looked at, not whose session it is.
AnySession(c) == ready

RequestAllowed(c) == SessionReady(c)

\* authenticatedRequest.
BeginRequest(c, from, to) ==
    /\ pc[c] = from
    /\ IF RequestAllowed(c) THEN Goto(c, to) /\ UNCHANGED <<next, notice, result>>
       ELSE Fail(c)
    /\ UNCHANGED <<sessionVars, argVars, uploadVars, sentVars>>

GetUploadURL(c) == BeginRequest(c, "url", "urlWait")
SendMessage(c)  == BeginRequest(c, "send", "sendWait")

\* The server names a place for the data and perhaps one for the thumbnail.
AnswerURL(c, offered) ==
    /\ pc[c] = "urlWait"
    /\ Goto(c, "upload")
    /\ attempt' = [attempt EXCEPT ![c] = 0]
    /\ thumb' = [thumb EXCEPT ![c] = Part(c) = "image" /\ offered]
    /\ UNCHANGED <<sessionVars, argVars, next, uploaded, notice, sentVars, result>>

LastAttempt(c) == attempt[c] + 1 = MaxRetries

\* What is being uploaded: the data, then the thumbnail.
Object(c) == IF "data" \in uploaded[c] THEN "thumb" ELSE "data"

Complete(c) == "data" \in uploaded[c] /\ (thumb[c] => "thumb" \in uploaded[c])

\* One attempt of UploadToCDN succeeds.
UploadOK(c) ==
    /\ pc[c] = "upload"
    /\ uploaded' = [uploaded EXCEPT ![c] = @ \cup {Object(c)}]
    /\ attempt' = [attempt EXCEPT ![c] = 0]
    /\ Goto(c, IF thumb[c] /\ Object(c) = "data" THEN "upload" ELSE "uploaded")
    /\ UNCHANGED <<sessionVars, argVars, next, thumb, notice, sentVars, result>>

\* Fault: a retry asks for a new place, and its attempts are counted from there.
RetryFromURL(c) ==
    /\ pc[c] = "upload"
    /\ attempt' = [attempt EXCEPT ![c] = @ + 1]
    /\ IF LastAttempt(c) THEN Fail(c)
       ELSE Goto(c, "url") /\ UNCHANGED <<next, notice, result>>
    /\ UNCHANGED <<sessionVars, argVars, uploaded, thumb, sentVars>>

\* The server or the transport fails, or the answer lacks x-encrypted-param.
UploadRetry(c) ==
    /\ pc[c] = "upload"
    /\ attempt' = [attempt EXCEPT ![c] = @ + 1]
    /\ IF LastAttempt(c) THEN Fail(c)
       ELSE UNCHANGED <<pc, next, notice, result>>
    /\ UNCHANGED <<sessionVars, argVars, uploaded, thumb, sentVars>>

\* A client error is final.
UploadRefused(c) ==
    /\ pc[c] = "upload"
    /\ Fail(c)
    /\ UNCHANGED <<sessionVars, argVars, uploadVars, sentVars>>

\* The session is checked again after the uploads, and again by sendMessage.
CheckUploaded(c) ==
    /\ pc[c] = "uploaded"
    /\ IF SessionReady(c) THEN Goto(c, "hook") /\ UNCHANGED <<next, notice, result>>
       ELSE Fail(c)
    /\ UNCHANGED <<sessionVars, argVars, uploadVars, sentVars>>

\* Fault: the client id of the caller is not used.
AlwaysNewID(c) == ids[c] + 1

\* sendMessage makes a client id unless the caller of SendMessage gave one.
MessageID(c) ==
    IF content[c].single /\ ~notice[c] /\ returned[c] # NoID THEN returned[c]
    ELSE ids[c] + 1

Identify(c) ==
    LET id == MessageID(c)
    IN  /\ clientID' = [clientID EXCEPT ![c] = id]
        /\ ids' = [ids EXCEPT ![c] = Max({@, id})]
        /\ returned' = [returned EXCEPT ![c] =
              IF content[c].single /\ ~notice[c] THEN id ELSE @]
        /\ UNCHANGED tries

\* The message has its id, and the BeforeSend hooks run.
BeforeSend(c) ==
    /\ pc[c] = "hook"
    /\ Identify(c)
    /\ Goto(c, "send")
    /\ UNCHANGED <<sessionVars, argVars, next, uploadVars, notice, userVars, result>>

\* A hook fails, changes the user or client id, or leaves an item that
\* validateOutboundMessage refuses; the id is returned with the error.
HookFails(c) ==
    /\ pc[c] = "hook"
    /\ Identify(c)
    /\ Fail(c)
    /\ UNCHANGED <<sessionVars, argVars, uploadVars, userVars>>

\* What the server gets: a media item refers to what has been uploaded for it.
Item(c) ==
    CASE notice[c] -> "notice"
      [] ~notice[c] /\ (Part(c) \in Media => Complete(c)) -> Part(c)
      [] ~notice[c] /\ Part(c) \in Media /\ ~Complete(c) -> "dangling"

\* The user is not shown a message whose id was seen before.
Known(c) == \E i \in DOMAIN accepted[c] : accepted[c][i].id = clientID[c]

\* The server accepts the message; its answer arrives or is lost.
AnswerSend(c) ==
    /\ pc[c] = "sendWait"
    /\ shown' = [shown EXCEPT ![c] =
                    IF notice[c] \/ Known(c) THEN @ ELSE Append(@, Item(c))]
    /\ accepted' = [accepted EXCEPT ![c] = Append(@,
                        [item |-> Item(c), id |-> clientID[c], try |-> tries[c]])]
    /\ CASE notice[c] -> Return(c, "error") /\ UNCHANGED <<next, notice>>
         [] ~notice[c] -> \/ Goto(c, "part") /\ next' = [next EXCEPT ![c] = @ + 1]
                             /\ UNCHANGED <<notice, result>>
                          \/ Fail(c)
    /\ UNCHANGED <<sessionVars, argVars, uploadVars, idVars>>

\* The request fails, or getuploadurl names no place; -14 ends the session that
\* the request was made for.
AnswerError(c, expired) ==
    /\ pc[c] \in {"urlWait", "sendWait"}
    /\ Fail(c)
    /\ ready' = (ready /\ ~expired)
    /\ UNCHANGED <<generation, contextToken, argVars, uploadVars, sentVars>>

\* notifyError, then the error is returned.
NotifyError(c) ==
    /\ pc[c] = "failed"
    /\ IF NotifyErrors /\ SessionReady(c)
       THEN /\ Goto(c, "hook") /\ notice' = [notice EXCEPT ![c] = TRUE]
            /\ UNCHANGED result
       ELSE Return(c, "error") /\ UNCHANGED notice
    /\ UNCHANGED <<sessionVars, argVars, next, uploadVars, sentVars>>

Step(c) ==
    \/ LookUpToken(c) \/ PersistToken(c) \/ Resolve(c) \/ BeginPart(c)
    \/ GetUploadURL(c) \/ SendMessage(c) \/ \E offered \in BOOLEAN : AnswerURL(c, offered)
    \/ UploadOK(c) \/ UploadRetry(c) \/ UploadRefused(c) \/ CheckUploaded(c)
    \/ BeforeSend(c) \/ HookFails(c) \/ AnswerSend(c) \/ NotifyError(c)
    \/ \E expired \in BOOLEAN : AnswerError(c, expired)

----------------------------------------------------------------------------
(***************************************************************************)
(* The session, as module Session has it.                                  *)
(***************************************************************************)

\* A delivery of the current session stores a context token.
Receive ==
    /\ ready /\ contextToken' = generation
    /\ UNCHANGED <<generation, ready, pc, argVars, next, uploadVars, notice, sentVars,
                   result>>

LoseSession ==
    /\ ready /\ ready' = FALSE
    /\ UNCHANGED <<generation, contextToken, pc, argVars, next, uploadVars, notice,
                   sentVars, result>>

ClearContexts ==
    /\ ~ready /\ contextToken' = NoToken
    /\ UNCHANGED <<generation, ready, pc, argVars, next, uploadVars, notice, sentVars,
                   result>>

\* A new session waits for the requests in flight (requestMu).
Reauthenticate ==
    /\ ~ready /\ contextToken = NoToken
    /\ generation < MaxGeneration
    /\ \A c \in Callers : pc[c] \notin {"urlWait", "sendWait"}
    /\ generation' = generation + 1 /\ ready' = TRUE
    /\ UNCHANGED <<contextToken, pc, argVars, next, uploadVars, notice, sentVars,
                   result>>

Next ==
    \/ \E c \in Callers : Call(c) \/ Retry(c) \/ Step(c)
    \/ Receive \/ LoseSession \/ ClearContexts \/ Reauthenticate

Spec == Init /\ [][Next]_vars

\* A call that has begun is scheduled, and its requests return.
FairSpec == Spec /\ \A c \in Callers : WF_vars(Step(c))

----------------------------------------------------------------------------
(***************************************************************************)
(* Properties.                                                             *)
(***************************************************************************)

\* A message on its way carries a context token of the very session that it is
\* sent in, also when the session was replaced during a hook, a download or an
\* upload: a reply to the old session is never sent in the new one.
TokenOfSession ==
    \A c \in Callers :
        pc[c] = "sendWait" => token[c] = gen[c] /\ generation = gen[c]

\* The user sees a prefix of the parts, in order and each once, media only with
\* their data and thumbnail, all of them if the call returned nil; a message
\* that was sent again because its answer got lost is the same message, and
\* no other has its id.  A failed try is followed by at most one notice, which
\* is its last message.
PrefixSent ==
    \A c \in Callers :
        LET sent == accepted[c]
        IN  /\ IsPrefix(shown[c], content[c].parts)
            /\ result[c] = "nil" => shown[c] = content[c].parts
            /\ \A i, j \in DOMAIN sent : i < j =>
                  /\ sent[i].item = "notice" => sent[i].try # sent[j].try
                  /\ sent[i].id = sent[j].id =>
                        content[c].single /\ sent[i].try # sent[j].try

\* Every call returns, whatever the server, the CDN and the session do.
CallsReturn == \A c \in Callers : pc[c] # "idle" ~> pc[c] = "returned"
============================================================================
