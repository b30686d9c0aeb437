------------------------------ MODULE Session ------------------------------
(***************************************************************************)
(* The authenticated session of a Bot: login, the rejection of its token,  *)
(* the durable reauthentication marker, and the requests that run beside   *)
(* them (login.go, reauth.go, session.go, internal/store/reauth.go).       *)
(*                                                                         *)
(* b.mu protects one step.  b.sessionMu is a variable; b.requestMu is read *)
(* held by the processes at "inflight" and taken for writing by Publish;   *)
(* b.loginMu is held while the login process is not "idle".  A crash may   *)
(* fall between any two steps and leaves only the files.                   *)
(***************************************************************************)
EXTENDS Integers, Sequences, FiniteSets

CONSTANTS
    Tokens,             \* bot tokens the server may issue, and issue again
    Accounts,           \* account ids
    ConfiguredAccounts, \* Options.AccountID of the processes over these files
    Senders,            \* goroutines that make authenticated requests
    Poll,               \* the one that executes Run
    LoginProc,          \* the one that executes Login or Reauthenticate
    None,               \* nil, "" or an absent file
    MaxLogins,          \* bound: calls of Login and Reauthenticate
    MaxCrashes,         \* bound: crashes of the process
    MaxFailures         \* bound: file operations that fail

Requesters == Senders \cup {Poll}
Procs == Requesters \cup {LoginProc}
Paths == Accounts \cup {None}       \* AccountStateDir(account)
Credentials == [token : Tokens, account : Accounts]
Markers == [sha : Tokens \cup {None}, account : Paths, paths : SUBSET Paths]

ASSUME SessionAssumption ==
    /\ None \notin Tokens \cup Accounts \cup Credentials \cup Markers \cup Procs
    /\ ConfiguredAccounts \in SUBSET Paths
    /\ IsFiniteSet(Accounts)
    /\ Poll \notin Senders /\ LoginProc \notin Requesters
    /\ MaxLogins \in Nat /\ MaxCrashes \in Nat /\ MaxFailures \in Nat

----------------------------------------------------------------------------
VARIABLES
    \* files
    marker,             \* the reauthentication marker
    stored,             \* credentials.json
    contextFile,        \* context_tokens.json per account directory: the
                        \* sessions (bot tokens) whose entries it holds
    \* memory of the Bot
    configured,         \* Options.AccountID of this process
    creds,
    reauth,             \* b.reauth: position in states, or 0 for nil
    states,             \* every reauthState made by this process
    sessionGeneration,
    sessionCancelled,   \* b.cancelSession was called for this generation
    accountID,          \* b.opts.AccountID
    contextPath,        \* b.contextTokens.Path()
    contextMem,         \* the map of b.contextTokens
    sessionMu,          \* holder of b.sessionMu
    \* goroutines
    pc, generation, token,      \* the session each one is bound to
    state,              \* the reauthState each one works on or waits for
    pollCancelled,      \* cancelPoll was called for the present Run
    force,              \* the login process executes Reauthenticate
    created,            \* prepareReauthentication made the state itself
    fresh,              \* what auth.Login returned
    freshMem,           \* the map of the context store that login will install
    \* bounds and history
    logins, crashes, failures,
    condemned,          \* generations answered with -14 or given up by the user
    invalidated,        \* credentials given up, and not issued again since
    owed,               \* token given up last, until a session replaces it
    unmarked            \* a marker could not be written or read, or without the
                        \* credentials of which it was to speak

files == <<marker, stored, contextFile>>
sessionVars == <<creds, reauth, states, sessionGeneration, sessionCancelled>>
contextVars == <<configured, accountID, contextPath, contextMem>>
requestVars == <<generation, token, state, pollCancelled>>
loginVars == <<force, created, fresh, freshMem, logins>>
givenUp == <<invalidated, owed>>
history == <<condemned, givenUp, unmarked>>
vars == <<files, sessionVars, contextVars, sessionMu, pc, requestVars, loginVars,
          crashes, failures, history>>

ReauthStates ==
    [token : Tokens \cup {None},        \* invalidToken
     sha : Tokens \cup {None},          \* invalidTokenSHA256
     account : Paths, paths : SUBSET Paths, generation : Nat,
     done : BOOLEAN,                    \* the channel is closed
     dirty : BOOLEAN]                   \* err.CleanupErr # nil

RequesterStates == {"idle", "bound", "inflight", "expired", "waiting"}
CleanupStates == {"cancel", "clearContexts", "clearCreds", "close"}
LoginStates ==
    {"idle", "restore", "load", "adopt", "without", "decide", "prepare",
     "expired", "prepared", "retry", "acquire", "check", "install",
     "clearInstall", "publish", "discard"}

TypeOK ==
    /\ marker \in Markers \cup {None}
    /\ stored \in Credentials \cup {None}
    /\ contextFile \in [Paths -> SUBSET Tokens]
    /\ configured \in ConfiguredAccounts /\ accountID \in Paths
    /\ creds \in Credentials \cup {None}
    /\ states \in Seq(ReauthStates)
    /\ reauth \in 0..Len(states) /\ state \in [Procs -> 0..Len(states)]
    /\ sessionGeneration \in 0..MaxLogins /\ sessionCancelled \in BOOLEAN
    /\ contextPath \in Paths /\ contextMem \in SUBSET Tokens
    /\ sessionMu \in Procs \cup {None}
    /\ pc \in [Procs -> RequesterStates \cup CleanupStates \cup LoginStates]
    /\ \A r \in Requesters : pc[r] \in RequesterStates \cup CleanupStates
    /\ pc[LoginProc] \in LoginStates \cup CleanupStates
    /\ generation \in [Procs -> 0..MaxLogins]
    /\ token \in [Procs -> Tokens \cup {None}]
    /\ pollCancelled \in BOOLEAN /\ force \in BOOLEAN /\ created \in BOOLEAN
    /\ fresh \in Credentials \cup {None} /\ freshMem \in SUBSET Tokens
    /\ logins \in 0..MaxLogins /\ crashes \in 0..MaxCrashes
    /\ failures \in 0..MaxFailures
    /\ condemned \in SUBSET (0..MaxLogins) /\ invalidated \in SUBSET Credentials
    /\ owed \in Tokens \cup {None}
    /\ unmarked \in BOOLEAN

\* New(opts) after a start of the process; the files may be from before.
Start(account) ==
    /\ configured' = account /\ accountID' = account /\ contextPath' = account
    /\ creds' = None /\ reauth' = 0 /\ states' = <<>>
    /\ sessionGeneration' = 0 /\ sessionCancelled' = FALSE
    /\ contextMem' = {} /\ sessionMu' = None
    /\ pc' = [p \in Procs |-> "idle"]
    /\ generation' = [p \in Procs |-> 0]
    /\ token' = [p \in Procs |-> None]
    /\ pollCancelled' = FALSE /\ force' = FALSE /\ created' = FALSE
    /\ state' = [p \in Procs |-> 0] /\ fresh' = None /\ freshMem' = {}
    /\ condemned' = {}

Init ==
    /\ marker = None /\ stored = None /\ contextFile = [p \in Paths |-> {}]
    /\ configured \in ConfiguredAccounts
    /\ accountID = configured /\ contextPath = configured
    /\ creds = None /\ reauth = 0 /\ states = <<>>
    /\ sessionGeneration = 0 /\ sessionCancelled = FALSE
    /\ contextMem = {} /\ sessionMu = None
    /\ pc = [p \in Procs |-> "idle"]
    /\ generation = [p \in Procs |-> 0]
    /\ token = [p \in Procs |-> None]
    /\ pollCancelled = FALSE /\ force = FALSE /\ created = FALSE
    /\ state = [p \in Procs |-> 0] /\ fresh = None /\ freshMem = {}
    /\ condemned = {}
    /\ logins = 0 /\ crashes = 0 /\ failures = 0
    /\ invalidated = {} /\ owed = None /\ unmarked = FALSE

Crash ==
    /\ crashes < MaxCrashes
    /\ crashes' = crashes + 1
    /\ \E account \in ConfiguredAccounts : Start(account)
    /\ UNCHANGED <<files, logins, failures, givenUp, unmarked>>

Goto(p, label) == pc' = [pc EXCEPT ![p] = label]

\* n file operations fail in this step.
FilesFail(n) == failures + n <= MaxFailures /\ failures' = failures + n
FileOp(ok) == FilesFail(IF ok THEN 0 ELSE 1)

MarkerOp(ok) == FileOp(ok) /\ unmarked' = (unmarked \/ ~ok)
MarkerOf(st) == [sha |-> st.sha, account |-> st.account, paths |-> st.paths]

\* auth.LoadCredentials, whose error is ignored, before a marker is written; the
\* marker needs what it reads if nothing else tells which token it is about.
MarkerFrom(readable, needed, ok) ==
    /\ ~readable => stored # None
    /\ FilesFail((IF readable THEN 0 ELSE 1) + (IF ok THEN 0 ELSE 1))
    /\ unmarked' = (unmarked \/ ~ok \/ (needed /\ ~readable))
Found(readable) == IF readable THEN stored ELSE None

\* History: c is given up, whether it could be read or not.
GiveUp(c) ==
    IF c = None THEN UNCHANGED givenUp
    ELSE /\ invalidated' = invalidated \cup {c} /\ owed' = c.token

----------------------------------------------------------------------------
(***************************************************************************)
(* Requests: the poll loop, senders and deliveries, each bound to the      *)
(* generation it saw first.                                                *)
(***************************************************************************)

\* readySessionSnapshot, or beginRun for the poll loop.
Bind(r) ==
    /\ pc[r] = "idle"
    /\ reauth = 0 /\ creds # None
    /\ Goto(r, "bound")
    /\ generation' = [generation EXCEPT ![r] = sessionGeneration]
    /\ token' = [token EXCEPT ![r] = creds.token]
    /\ pollCancelled' = (pollCancelled /\ r # Poll)
    /\ UNCHANGED <<files, sessionVars, contextVars, sessionMu, state, loginVars,
                   crashes, failures, history>>

\* The operation is over; Run ends only when its context was cancelled.
Finish(r) ==
    /\ pc[r] = "bound"
    /\ r = Poll => pollCancelled
    /\ Goto(r, "idle")
    /\ UNCHANGED <<files, sessionVars, contextVars, sessionMu, requestVars,
                   loginVars, crashes, failures, history>>

\* Stop, a failed delivery or the caller's context.
StopRun ==
    /\ pc[Poll] # "idle" /\ ~pollCancelled
    /\ pollCancelled' = TRUE
    /\ UNCHANGED <<files, sessionVars, contextVars, sessionMu, pc, generation,
                   token, state, loginVars, crashes, failures, history>>

\* What sessionError tells a goroutine: go on, give up, or wait for the error
\* of the reauthState (waitReauthState).
SessionError(r, otherwise) ==
    IF generation[r] # sessionGeneration THEN "idle"
    ELSE IF reauth # 0 THEN "waiting"
    ELSE IF creds = None THEN "idle" ELSE otherwise

BeginAuthenticatedRequest(r) ==
    /\ pc[r] = "bound"
    /\ Goto(r, SessionError(r, "inflight"))
    /\ token' = [token EXCEPT ![r] = IF SessionError(r, "inflight") = "inflight"
                                     THEN creds.token ELSE @]
    /\ state' = [state EXCEPT ![r] = reauth]
    /\ UNCHANGED <<files, sessionVars, contextVars, sessionMu, generation,
                   pollCancelled, loginVars, crashes, failures, history>>

\* The call returns and requestMu is released before its error is looked at.
AnswerOK(r) ==
    /\ pc[r] = "inflight"
    /\ Goto(r, "bound")
    /\ UNCHANGED <<files, sessionVars, contextVars, sessionMu, requestVars,
                   loginVars, crashes, failures, history>>

AnswerError(r) ==
    /\ pc[r] = "inflight"
    /\ Goto(r, SessionError(r, "bound"))
    /\ state' = [state EXCEPT ![r] = reauth]
    /\ UNCHANGED <<files, sessionVars, contextVars, sessionMu, generation, token,
                   pollCancelled, loginVars, crashes, failures, history>>

\* ret or errcode is -14.
AnswerExpired(r) ==
    /\ pc[r] = "inflight"
    /\ Goto(r, "expired")
    /\ condemned' = condemned \cup {generation[r]}
    /\ UNCHANGED <<files, sessionVars, contextVars, sessionMu, requestVars,
                   loginVars, crashes, failures, givenUp, unmarked>>

Released(r) ==
    /\ pc[r] = "waiting"
    /\ states[state[r]].done
    /\ Goto(r, "idle")
    /\ UNCHANGED <<files, sessionVars, contextVars, sessionMu, requestVars,
                   loginVars, crashes, failures, history>>

\* Fault: the generation of the delivery is not compared.
PersistsWhenReady(r) == reauth = 0

MayPersist(r) == generation[r] = sessionGeneration /\ reauth = 0

\* persistContextToken for a delivery; the whole map is written.
PersistContextToken(r, ok) ==
    /\ pc[r] = "bound"
    /\ sessionMu = None
    /\ MayPersist(r)
    /\ FileOp(ok)
    /\ contextMem' = IF ok THEN contextMem \cup {token[r]} ELSE contextMem
    /\ contextFile' = IF ok THEN [contextFile EXCEPT ![contextPath] =
                                     contextMem \cup {token[r]}]
                      ELSE contextFile
    /\ UNCHANGED <<marker, stored, sessionVars, configured, accountID,
                   contextPath, sessionMu, pc, requestVars, loginVars, crashes,
                   history>>

(***************************************************************************)
(* Giving up a session: requireReauthenticationForSession and              *)
(* requireReauthenticationWithoutCredentials.                              *)
(***************************************************************************)

\* Where a goroutine is after the call: a request is over; Login goes on in
\* restoreDurableReauthentication or in prepareReauthentication.
AfterCall(p) == IF p # LoginProc THEN "idle"
                ELSE IF created THEN "prepared" ELSE "decide"

\* The marker is written first, then the state published and the credentials
\* dropped, all under b.mu; sessionMu stays locked for the cleanup.
Block(p, st, ok) ==
    /\ marker' = IF ok THEN MarkerOf(st) ELSE marker
    /\ states' = Append(states, [st EXCEPT !.dirty = ~ok])
    /\ reauth' = Len(states) + 1
    /\ creds' = None
    /\ state' = [state EXCEPT ![p] = Len(states) + 1]
    /\ sessionMu' = p
    /\ Goto(p, "cancel")

\* Fault: only the token tells sessions apart.
StaleByToken(p) == creds # None /\ creds.token # token[p]

Stale(p) == \/ generation[p] # sessionGeneration
            \/ creds # None /\ creds.token # token[p]

RequireReauthentication(p, ok) ==
    /\ pc[p] = "expired"
    /\ sessionMu = None
    /\ IF reauth = 0 /\ creds # None /\ ~Stale(p)
       THEN /\ MarkerOp(ok)
            /\ Block(p, [token |-> creds.token, sha |-> creds.token,
                         account |-> creds.account, paths |-> {contextPath},
                         generation |-> generation[p], done |-> FALSE,
                         dirty |-> FALSE], ok)
            /\ GiveUp(creds)
       ELSE /\ ok
            /\ Goto(p, IF p # LoginProc /\ reauth # 0 /\ ~Stale(p)
                       THEN "waiting" ELSE AfterCall(p))
            /\ state' = [state EXCEPT ![p] = reauth]
            /\ UNCHANGED <<marker, failures, creds, reauth, states, sessionMu,
                           givenUp, unmarked>>
    /\ UNCHANGED <<stored, contextFile, sessionGeneration, sessionCancelled,
                   contextVars, generation, token, pollCancelled, loginVars,
                   crashes, condemned>>

\* Nothing is in memory: what the credentials file says is given up.  If it
\* cannot be read, the marker says nothing of it.
RequireWithoutCredentials(readable, ok) ==
    LET found   == Found(readable)
        account == IF accountID # None \/ found = None THEN accountID
                   ELSE found.account
        t       == IF found = None THEN None ELSE found.token
        paths   == {contextPath} \cup IF found = None THEN {} ELSE {found.account}
    IN  /\ pc[LoginProc] = "without"
        /\ sessionMu = None
        /\ IF reauth = 0
           THEN /\ MarkerFrom(readable, TRUE, ok)
                /\ Block(LoginProc, [token |-> t, sha |-> t, account |-> account,
                            paths |-> paths, generation |-> sessionGeneration,
                            done |-> FALSE, dirty |-> FALSE], ok)
                /\ GiveUp(stored)
           ELSE /\ readable /\ ok
                /\ Goto(LoginProc, AfterCall(LoginProc))
                /\ state' = [state EXCEPT ![LoginProc] = reauth]
                /\ UNCHANGED <<marker, failures, creds, reauth, states, sessionMu,
                               givenUp, unmarked>>
        /\ UNCHANGED <<stored, contextFile, sessionGeneration, sessionCancelled,
                       contextVars, generation, token, pollCancelled, loginVars,
                       crashes, condemned>>

\* Fault: the requests in flight are not cancelled.
CancelPollOnly(p) ==
    /\ pc[p] = "cancel"
    /\ pollCancelled' = (pollCancelled \/ pc[Poll] # "idle")
    /\ Goto(p, "clearContexts")
    /\ UNCHANGED <<files, sessionVars, contextVars, sessionMu, generation, token,
                   state, loginVars, crashes, failures, history>>

\* Out of b.mu: the poll and the requests in flight are cancelled.
CancelSession(p) ==
    /\ pc[p] = "cancel"
    /\ pollCancelled' = (pollCancelled \/ pc[Poll] # "idle")
    /\ sessionCancelled' = TRUE
    /\ Goto(p, "clearContexts")
    /\ UNCHANGED <<files, creds, reauth, states, sessionGeneration, contextVars,
                   sessionMu, generation, token, state, loginVars, crashes,
                   failures, history>>

\* clearContextPaths writes an empty map to every path except those in bad.
ClearPaths(paths, bad) ==
    /\ FilesFail(Cardinality(bad))
    /\ contextFile' = [q \in Paths |-> IF q \in paths \ bad THEN {}
                                       ELSE contextFile[q]]

\* cleanupReauthenticationFiles, first half.
ClearContexts(p, bad) ==
    /\ pc[p] = "clearContexts"
    /\ bad \subseteq states[state[p]].paths
    /\ ClearPaths(states[state[p]].paths, bad)
    /\ contextMem' = IF contextPath \in bad THEN contextMem ELSE {}
    /\ states' = [states EXCEPT ![state[p]].dirty = @ \/ bad # {}]
    /\ Goto(p, "clearCreds")
    /\ UNCHANGED <<marker, stored, creds, reauth, sessionGeneration,
                   sessionCancelled, configured, accountID, contextPath,
                   sessionMu, requestVars, loginVars, crashes, history>>

\* Second half; sessionMu is unlocked.
ClearCreds(p, ok) ==
    /\ pc[p] = "clearCreds"
    /\ FileOp(ok)
    /\ stored' = IF ok THEN None ELSE stored
    /\ states' = [states EXCEPT ![state[p]].dirty = @ \/ ~ok]
    /\ sessionMu' = None
    /\ Goto(p, "close")
    /\ UNCHANGED <<marker, contextFile, creds, reauth, sessionGeneration,
                   sessionCancelled, contextVars, requestVars, loginVars, crashes,
                   history>>

\* state.err is set and done closed.
CloseState(p) ==
    /\ pc[p] = "close"
    /\ states' = [states EXCEPT ![state[p]].done = TRUE]
    /\ Goto(p, AfterCall(p))
    /\ UNCHANGED <<files, creds, reauth, sessionGeneration, sessionCancelled,
                   contextVars, sessionMu, requestVars, loginVars, crashes,
                   failures, history>>

----------------------------------------------------------------------------
(***************************************************************************)
(* Login and Reauthenticate.  loginMu admits one at a time; the others     *)
(* return ErrLoginInProgress, and Login returns at once when there is a    *)
(* session or a reauthState.                                               *)
(***************************************************************************)

BeginLogin(forced) ==
    /\ pc[LoginProc] = "idle"
    /\ logins < MaxLogins
    /\ ~forced => reauth = 0 /\ creds = None
    /\ logins' = logins + 1
    /\ force' = forced /\ created' = FALSE /\ fresh' = None /\ freshMem' = {}
    /\ state' = [state EXCEPT ![LoginProc] = 0]
    /\ condemned' = IF forced THEN condemned \cup {sessionGeneration} ELSE condemned
    /\ Goto(LoginProc, "restore")
    /\ UNCHANGED <<files, sessionVars, contextVars, sessionMu, generation, token,
                   pollCancelled, crashes, failures, givenUp, unmarked>>

LoginMoves(label) ==
    /\ Goto(LoginProc, label)
    /\ UNCHANGED <<files, sessionVars, contextVars, sessionMu, generation, token,
                   pollCancelled, force, freshMem, logins, crashes, condemned, givenUp>>

\* Fault: the marker is looked for only by Reauthenticate.
RestoreSkipped ==
    /\ pc[LoginProc] = "restore"
    /\ LoginMoves(IF reauth # 0 \/ ~force THEN "decide" ELSE "load")
    /\ UNCHANGED <<state, created, fresh, failures, unmarked>>

\* restoreDurableReauthentication: nothing to restore into.
RestoreCheck ==
    /\ pc[LoginProc] = "restore"
    /\ LoginMoves(IF reauth # 0 THEN "decide" ELSE "load")
    /\ UNCHANGED <<state, created, fresh, failures, unmarked>>

\* reauthStore.Load; an unreadable marker still blocks.
LoadMarker(ok) ==
    /\ pc[LoginProc] = "load"
    /\ MarkerOp(ok)
    /\ LoginMoves(IF ~ok THEN "without"
                  ELSE IF marker = None THEN "decide" ELSE "adopt")
    /\ UNCHANGED <<state, created, fresh>>

\* The rest of restoreDurableReauthentication.  The record is still what the
\* marker holds: it is rewritten only together with b.reauth.
AdoptMarker(ok) ==
    LET account == IF marker.account # None THEN marker.account ELSE accountID
        path    == IF configured = None /\ accountID = None THEN account
                   ELSE contextPath
        st      == [token |-> None, sha |-> marker.sha, account |-> account,
                    paths |-> marker.paths \cup {contextPath, path},
                    generation |-> sessionGeneration, done |-> FALSE,
                    dirty |-> FALSE]
    IN  /\ pc[LoginProc] = "adopt"
        /\ sessionMu = None
        /\ IF reauth # 0
           THEN /\ ok /\ LoginMoves("decide")
                /\ UNCHANGED <<state, failures, unmarked>>
           ELSE IF accountID # None /\ account # accountID
           THEN /\ ok /\ LoginMoves("idle")
                /\ UNCHANGED <<state, failures, unmarked>>
           ELSE IF ~ok
           THEN /\ FileOp(ok) /\ LoginMoves("idle")
                /\ UNCHANGED <<state, unmarked>>
           ELSE /\ MarkerOp(TRUE)
                /\ Block(LoginProc, st, TRUE)
                /\ accountID' = account
                /\ contextPath' = path
                /\ contextMem' = IF path = contextPath THEN contextMem ELSE {}
                /\ UNCHANGED <<stored, contextFile, sessionGeneration,
                        sessionCancelled, configured, generation, token,
                        pollCancelled, force, freshMem, logins, crashes,
                        condemned, givenUp>>
        /\ UNCHANGED <<created, fresh>>

\* Login returns the error or the credentials it finds; otherwise it logs in.
\* Reauthenticate prepares.
Decide ==
    /\ pc[LoginProc] = "decide"
    /\ ~force /\ reauth # 0 => states[reauth].done
    /\ LoginMoves(IF force THEN "prepare"
                  ELSE IF reauth # 0 \/ creds # None THEN "idle" ELSE "acquire")
    /\ state' = [state EXCEPT ![LoginProc] = 0]
    /\ UNCHANGED <<created, fresh, failures, unmarked>>

\* Fault: without credentials in memory there is nothing to give up.
PrepareLoggedIn ==
    /\ pc[LoginProc] = "prepare"
    /\ created' = (reauth = 0)
    /\ Goto(LoginProc, IF reauth = 0 /\ creds # None THEN "expired" ELSE "prepared")
    /\ generation' = [generation EXCEPT ![LoginProc] = sessionGeneration]
    /\ token' = [token EXCEPT ![LoginProc] = IF creds = None THEN None
                                             ELSE creds.token]
    /\ UNCHANGED <<files, sessionVars, contextVars, sessionMu, state,
                   pollCancelled, force, fresh, freshMem, logins, crashes,
                   failures, history>>

\* prepareReauthentication takes a snapshot and gives up what it finds.
Prepare ==
    /\ pc[LoginProc] = "prepare"
    /\ created' = (reauth = 0)
    /\ Goto(LoginProc, IF reauth # 0 THEN "prepared"
                       ELSE IF creds # None THEN "expired" ELSE "without")
    /\ generation' = [generation EXCEPT ![LoginProc] = sessionGeneration]
    /\ token' = [token EXCEPT ![LoginProc] = IF creds = None THEN None
                                             ELSE creds.token]
    /\ UNCHANGED <<files, sessionVars, contextVars, sessionMu, state,
                   pollCancelled, force, fresh, freshMem, logins, crashes,
                   failures, history>>

\* The state is there (ReauthenticateHasState); wait for its cleanup.
Prepared ==
    /\ pc[LoginProc] = "prepared"
    /\ reauth # 0 /\ states[reauth].done
    /\ LoginMoves(IF ~states[reauth].dirty THEN "acquire"
                  ELSE IF created THEN "idle" ELSE "retry")
    /\ state' = [state EXCEPT ![LoginProc] = reauth]
    /\ UNCHANGED <<created, fresh, failures, unmarked>>

\* retryReauthenticationCleanup, up to its cleanup.
Retry(readable, ok) ==
    LET previous == states[state[LoginProc]]
        found    == Found(readable)
        learns   == previous.sha = None /\ found # None
        st == [previous EXCEPT
                  !.token = IF learns THEN found.token ELSE @,
                  !.sha = IF learns THEN found.token ELSE @,
                  !.account = IF @ = None /\ found # None THEN found.account ELSE @,
                  !.paths = @ \cup {contextPath} \cup
                            IF found = None THEN {} ELSE {found.account},
                  !.done = FALSE, !.dirty = ~ok]
    IN  /\ pc[LoginProc] = "retry"
        /\ sessionMu = None
        /\ MarkerFrom(readable, previous.sha = None, ok)
        /\ marker' = IF ok THEN MarkerOf(st) ELSE marker
        /\ states' = Append(states, st)
        /\ reauth' = Len(states) + 1
        /\ state' = [state EXCEPT ![LoginProc] = Len(states) + 1]
        /\ created' = TRUE
        /\ sessionMu' = LoginProc
        /\ GiveUp(IF previous.sha = None THEN stored ELSE None)
        /\ Goto(LoginProc, "clearContexts")
        /\ UNCHANGED <<stored, contextFile, creds, sessionGeneration,
                       sessionCancelled, contextVars, generation, token,
                       pollCancelled, force, fresh, freshMem, logins, crashes,
                       condemned>>

(***************************************************************************)
(* login, with auth.Login inside.                                          *)
(***************************************************************************)

Mine == state[LoginProc]        \* the reauthState handed to login

\* auth.Login returns stored credentials, unless it is forced.
AcquireStored ==
    /\ pc[LoginProc] = "acquire"
    /\ ~force /\ stored # None
    /\ fresh' = stored
    /\ LoginMoves("check")
    /\ UNCHANGED <<state, created, failures, unmarked>>

\* The QR login fails, is refused or gives up.
AcquireFails ==
    /\ pc[LoginProc] = "acquire"
    /\ LoginMoves("idle")
    /\ UNCHANGED <<state, created, fresh, failures, unmarked>>

\* Fault: credentials that could not be saved are used all the same.
AcquireUnsaved(c, readable, saved) ==
    /\ pc[LoginProc] = "acquire"
    /\ force \/ stored = None \/ ~readable
    /\ ~readable => ~force /\ stored # None
    /\ Mine # 0 => states[Mine].token # c.token
    /\ FilesFail((IF readable THEN 0 ELSE 1) + (IF saved THEN 0 ELSE 1))
    /\ stored' = IF saved THEN c ELSE stored
    /\ fresh' = c
    /\ Goto(LoginProc, "check")
    /\ UNCHANGED <<marker, contextFile, sessionVars, contextVars, sessionMu,
                   requestVars, force, created, freshMem, logins, crashes, history>>

\* The QR login is confirmed with c.  Stored credentials that cannot be read
\* count as absent; a token known to be invalid is refused before it is saved.
AcquireConfirmed(c, readable, saved) ==
    /\ pc[LoginProc] = "acquire"
    /\ force \/ stored = None \/ ~readable
    /\ ~readable => ~force /\ stored # None
    /\ Mine # 0 => states[Mine].token # c.token
    /\ FilesFail((IF readable THEN 0 ELSE 1) + (IF saved THEN 0 ELSE 1))
    /\ stored' = IF saved THEN c ELSE stored
    /\ fresh' = c
    /\ Goto(LoginProc, IF saved THEN "check" ELSE "idle")
    /\ UNCHANGED <<marker, contextFile, sessionVars, contextVars, sessionMu,
                   requestVars, force, created, freshMem, logins, crashes, history>>

ExpectedAccount == IF Mine # 0 /\ states[Mine].account # None
                   THEN states[Mine].account ELSE accountID

\* Fault: the fingerprint is not compared.
RejectsTokenInMemory(t) == Mine # 0 /\ t = states[Mine].token

\* rejectsToken compares with the fingerprint, which survives a restart.
RejectsToken(t) == Mine # 0 /\ t \in {states[Mine].token, states[Mine].sha}

CheckFresh ==
    /\ pc[LoginProc] = "check"
    /\ LoginMoves(IF \/ RejectsToken(fresh.token)
                     \/ ExpectedAccount \notin {None, fresh.account}
                  THEN "discard" ELSE "install")
    /\ UNCHANGED <<state, created, fresh, failures, unmarked>>

\* The context store that login will install.
NewAccount == IF accountID = None THEN fresh.account ELSE accountID
ReplacesStore == configured = None /\ (Mine = 0 \/ accountID = None)
NewPath == IF ReplacesStore THEN NewAccount ELSE contextPath

\* Without force: contextTokens.Load, whose failure is only logged.
InstallLoads(ok) ==
    /\ pc[LoginProc] = "install" /\ ~force
    /\ sessionMu = None
    /\ FileOp(ok)
    /\ freshMem' = IF ok THEN contextFile[NewPath]
                   ELSE IF ReplacesStore THEN {} ELSE contextMem
    /\ contextMem' = IF ReplacesStore THEN contextMem ELSE freshMem'
    /\ sessionMu' = LoginProc
    /\ Goto(LoginProc, "publish")
    /\ UNCHANGED <<files, sessionVars, configured, accountID, contextPath,
                   requestVars, force, created, fresh, logins, crashes, history>>

\* persistAndClearReauthenticationContexts: first the marker learns the path.
InstallMarks(ok) ==
    LET st == [states[Mine] EXCEPT !.paths = @ \cup {NewPath}]
    IN  /\ pc[LoginProc] = "install" /\ force
        /\ sessionMu = None
        /\ FileOp(ok)
        /\ marker' = IF ok THEN MarkerOf(st) ELSE marker
        /\ states' = [states EXCEPT ![Mine] = st]
        /\ sessionMu' = IF ok THEN LoginProc ELSE None
        /\ Goto(LoginProc, IF ok THEN "clearInstall" ELSE "discard")
        /\ UNCHANGED <<stored, contextFile, creds, reauth, sessionGeneration,
                       sessionCancelled, contextVars, requestVars, loginVars,
                       crashes, history>>

InstallClears(bad) ==
    /\ pc[LoginProc] = "clearInstall"
    /\ bad \subseteq states[Mine].paths
    /\ ClearPaths(states[Mine].paths, bad)
    /\ freshMem' = {}
    /\ contextMem' = IF ReplacesStore \/ contextPath \in bad THEN contextMem ELSE {}
    /\ sessionMu' = IF bad = {} THEN LoginProc ELSE None
    /\ Goto(LoginProc, IF bad = {} THEN "publish" ELSE "discard")
    /\ UNCHANGED <<marker, stored, sessionVars, configured, accountID,
                   contextPath, requestVars, force, created, fresh, logins,
                   crashes, history>>

\* Fault: requestMu is not taken for writing.
RequestsIgnored == TRUE

\* requestMu.Lock: no request is in flight.
RequestsDrained == \A r \in Requesters : pc[r] # "inflight"

\* The marker goes first; then the new session is published under b.mu.
Publish(ok) ==
    /\ pc[LoginProc] = "publish"
    /\ RequestsDrained
    /\ FileOp(ok)
    /\ Mine = 0 => ok
    /\ sessionMu' = None
    /\ IF reauth = Mine /\ ok
       THEN /\ marker' = IF Mine = 0 THEN marker ELSE None
            /\ creds' = fresh
            /\ contextPath' = NewPath
            /\ contextMem' = freshMem
            /\ accountID' = NewAccount
            /\ sessionGeneration' = sessionGeneration + 1
            /\ sessionCancelled' = FALSE
            /\ reauth' = 0
            /\ owed' = None
            /\ invalidated' = invalidated \ {fresh}
            /\ Goto(LoginProc, "idle")
       ELSE /\ Goto(LoginProc, "discard")
            /\ UNCHANGED <<marker, creds, contextPath, contextMem, accountID,
                           sessionGeneration, sessionCancelled, reauth, givenUp>>
    /\ UNCHANGED <<stored, contextFile, states, configured, requestVars,
                   loginVars, crashes, condemned, unmarked>>

\* An attempt that failed after its credentials were saved removes them.
Discard(ok) ==
    /\ pc[LoginProc] = "discard"
    /\ FileOp(ok)
    /\ stored' = IF ok THEN None ELSE stored
    /\ Goto(LoginProc, "idle")
    /\ UNCHANGED <<marker, contextFile, sessionVars, contextVars, sessionMu,
                   requestVars, loginVars, crashes, history>>

----------------------------------------------------------------------------
Request(r) ==
    \/ Bind(r) \/ Finish(r) \/ BeginAuthenticatedRequest(r)
    \/ AnswerOK(r) \/ AnswerError(r) \/ AnswerExpired(r) \/ Released(r)
    \/ \E ok \in BOOLEAN : PersistContextToken(r, ok)

Cleanup(p) ==
    \/ \E ok \in BOOLEAN : RequireReauthentication(p, ok)
    \/ CancelSession(p)
    \/ \E bad \in SUBSET Paths : ClearContexts(p, bad)
    \/ \E ok \in BOOLEAN : ClearCreds(p, ok)
    \/ CloseState(p)

Restore ==
    \/ RestoreCheck
    \/ \E ok \in BOOLEAN : LoadMarker(ok) \/ AdoptMarker(ok)
    \/ \E readable, ok \in BOOLEAN : RequireWithoutCredentials(readable, ok)

Attempt ==
    \/ Decide \/ Prepare \/ Prepared \/ AcquireStored \/ AcquireFails
    \/ CheckFresh
    \/ \E c \in Credentials, readable, saved \in BOOLEAN :
          AcquireConfirmed(c, readable, saved)
    \/ \E readable, ok \in BOOLEAN : Retry(readable, ok)
    \/ \E ok \in BOOLEAN : InstallLoads(ok) \/ InstallMarks(ok)
                           \/ Publish(ok) \/ Discard(ok)
    \/ \E bad \in SUBSET Paths : InstallClears(bad)

Next ==
    \/ \E r \in Requesters : Request(r)
    \/ \E p \in Procs : Cleanup(p)
    \/ \E forced \in BOOLEAN : BeginLogin(forced)
    \/ Restore \/ Attempt
    \/ StopRun \/ Crash

Spec == Init /\ [][Next]_vars

(***************************************************************************)
(* Goroutines that can move are scheduled, file operations end, and so     *)
(* does a QR login (its codes expire).  A request is answered for certain  *)
(* only once its context is cancelled.  Run goes round its loop.           *)
(***************************************************************************)
Answer(r) == AnswerOK(r) \/ AnswerError(r) \/ AnswerExpired(r)

Fairness ==
    /\ \A r \in Requesters :
          /\ WF_vars(sessionCancelled /\ Answer(r))
          /\ WF_vars(Released(r))
          /\ WF_vars(Finish(r) \/ BeginAuthenticatedRequest(r))
    /\ \A p \in Procs : WF_vars(Cleanup(p))
    /\ WF_vars(Restore \/ Attempt)

FairSpec == Spec /\ Fairness

----------------------------------------------------------------------------
(***************************************************************************)
(* Properties.                                                             *)
(***************************************************************************)

\* A late answer never takes down the wrong session: a published session stays
\* usable until its own generation was answered with -14 or the user asked for
\* a new login, even when the server issues an old token again.
StaysReady ==
    sessionGeneration > 0 /\ sessionGeneration \notin condemned
    => creds # None /\ reauth = 0

\* Fail closed: while the marker is on disk there is no session, in this
\* process or in one started after a crash.
MarkerBlocks == marker # None => creds = None

\* A session never holds context tokens that belong to a session of its account
\* that was given up before it, wherever the process crashed in between and
\* whatever could not be cleared or saved, as long as every marker could be
\* written and read, and with it the credentials of which only the file knew.
FreshContexts ==
    creds # None /\ ~unmarked =>
        \A c \in invalidated : c.account = creds.account => c.token \notin contextMem

\* A session that was given up is not replaced by one with the same token, as
\* long as every marker could be written and read, and with it the credentials
\* of which only the file knew: its fingerprint survives every crash.
RejectedNotReused ==
    [][creds = None /\ creds' # None /\ ~unmarked => creds'.token # owed]_vars

\* A request in flight carries the present generation: installing new
\* credentials waits for the requests of the old ones.
InFlightCurrent ==
    \A r \in Requesters : pc[r] = "inflight" => generation[r] = sessionGeneration

\* From the cleanup on, Reauthenticate works on the state that b.reauth holds:
\* nobody replaces it, so neither "login state changed" branch is taken and no
\* forced login runs without a token to reject.
ReauthenticateHasState ==
    /\ pc[LoginProc] = "prepared" => reauth # 0
    /\ pc[LoginProc] \in {"acquire", "check", "install", "clearInstall", "publish",
                          "retry"}
       => reauth = Mine /\ (force => Mine # 0)

\* The marker disappears only when fresh credentials are on disk and every
\* context file it names is empty.
MarkerRemovedLast ==
    [][marker # None /\ marker' = None
       => /\ stored # None /\ stored.token # marker.sha
          /\ \A q \in marker.paths : contextFile[q] = {}]_vars

\* Nobody waits for ever on a lock, on requestMu or on a reauthState: every
\* Login and Reauthenticate returns, a Run whose session was given up or
\* replaced returns, and whoever waits for the error of a reauthState gets it,
\* also when the cleanup failed.
NobodyWaitsForEver ==
    /\ pc[LoginProc] # "idle" ~> pc[LoginProc] = "idle"
    /\ pc[Poll] # "idle" /\ (generation[Poll] # sessionGeneration \/ creds = None)
       ~> pc[Poll] = "idle"
    /\ \A r \in Requesters : pc[r] = "waiting" ~> pc[r] = "idle"
============================================================================
