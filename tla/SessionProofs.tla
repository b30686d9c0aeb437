--------------------------- MODULE SessionProofs ---------------------------
(***************************************************************************)
(* Proofs about Session for any number of requests, tokens, accounts,      *)
(* logins, crashes and failed file operations.                             *)
(***************************************************************************)
EXTENDS Session, SequenceTheorems, FiniteSetTheorems, TLAPS

(***************************************************************************)
(* The inductive invariant.                                                *)
(***************************************************************************)
L == pc[LoginProc]

Acquired == {"check", "install", "clearInstall", "publish"}
Accepted == {"install", "clearInstall", "publish"}
Acquiring == {"acquire"} \cup Acquired
Forced == {"prepare", "expired", "prepared", "retry"}

Types ==
    /\ marker \in Markers \cup {None} /\ stored \in Credentials \cup {None}
    /\ creds \in Credentials \cup {None} /\ fresh \in Credentials \cup {None}
    /\ contextFile \in [Paths -> SUBSET Tokens]
    /\ configured \in Paths /\ accountID \in Paths /\ contextPath \in Paths
    /\ contextMem \in SUBSET Tokens /\ freshMem \in SUBSET Tokens
    /\ states \in Seq(ReauthStates)
    /\ reauth \in 0..Len(states) /\ state \in [Procs -> 0..Len(states)]
    /\ sessionGeneration \in Nat /\ generation \in [Procs -> Nat]
    /\ token \in [Procs -> Tokens \cup {None}]
    /\ pc \in [Procs -> RequesterStates \cup CleanupStates \cup LoginStates]
    /\ \A r \in Requesters : pc[r] \in RequesterStates \cup CleanupStates
    /\ L \in LoginStates \cup CleanupStates
    /\ created \in BOOLEAN /\ force \in BOOLEAN /\ unmarked \in BOOLEAN
    /\ condemned \subseteq Nat
    /\ invalidated \subseteq Credentials /\ owed \in Tokens \cup {None}

\* What the requests know of the session.
Informed(r) ==
    /\ generation[r] <= sessionGeneration
    /\ pc[r] = "inflight" => generation[r] = sessionGeneration
    /\ pc[r] = "expired" => generation[r] \in condemned
    /\ pc[r] # "idle" /\ generation[r] = sessionGeneration /\ reauth = 0 =>
          creds # None /\ creds.token = token[r]

Requests == \A r \in Requesters : Informed(r)

\* A reauthState excludes credentials; a marker that nobody has adopted is known
\* only to a login that has not yet looked at it.
Blocking ==
    /\ reauth # 0 => creds = None
    /\ marker # None /\ reauth = 0 =>
          creds = None /\ L \in {"idle", "restore", "load", "adopt", "without"}
    /\ L = "adopt" => marker # None
    /\ marker # None /\ reauth = 0 /\ L = "without" => unmarked

\* One goroutine at a time cleans up, for the state that b.reauth holds.
Cleaners ==
    /\ \A p \in Procs : pc[p] \in CleanupStates =>
          reauth # 0 /\ state[p] = reauth /\ ~states[reauth].done
    /\ \A p, q \in Procs : {pc[p], pc[q]} \subseteq CleanupStates => p = q

\* What Login and Reauthenticate rely on.
Attempts ==
    /\ L = "prepared" => reauth # 0
    /\ L \in Acquiring \cup {"retry"} =>
          /\ reauth = Mine /\ creds = None
          /\ Mine # 0 => states[Mine].done
          /\ force \/ L = "retry" => Mine # 0
    /\ ~force => ~created /\ L \notin Forced /\ (L \in Acquiring => Mine = 0)
    /\ L = "clearInstall" => force
    /\ L = "expired" => /\ generation[LoginProc] = sessionGeneration
                        /\ reauth = 0 => creds # None /\ creds.token = token[LoginProc]

\* The accounts of the store, the session and the state are the same one.
OneAccount ==
    /\ contextPath = accountID /\ configured \in {None, accountID}
    /\ creds # None => creds.account = accountID
    /\ reauth # 0 /\ accountID # None => states[reauth].account = accountID
    /\ L \in Accepted => accountID \in {None, fresh.account}

\* What a login that is about to succeed has done.
Progress ==
    /\ L \in Acquired => fresh # None /\ stored = fresh
    /\ L \in Accepted /\ Mine # 0 =>
          fresh.token \notin {states[Mine].token, states[Mine].sha}
    /\ L \in {"clearInstall", "publish"} /\ Mine # 0 => marker = MarkerOf(states[Mine])
    /\ L = "publish" /\ Mine # 0 =>
          freshMem = {} /\ \A q \in states[Mine].paths : contextFile[q] = {}

\* A session is condemned before it is taken down.
Condemned ==
    /\ StaysReady
    /\ L # "idle" => sessionGeneration \in condemned \cup {0}

\* Context tokens m of account x that belong to a session given up.
Leftover(x, m) == \E c \in invalidated : c.account = x /\ c.token \in m

\* The marker speaks for what has been given up and not been cleared.
Remembered ==
    /\ creds # None => creds \notin invalidated
    /\ ~unmarked =>
          /\ reauth # 0 => /\ marker # None /\ marker.sha = states[reauth].sha
                           /\ marker.paths \subseteq states[reauth].paths
          /\ owed # None => marker # None /\ marker.sha = owed
          /\ \A x \in Paths : Leftover(x, contextFile[x]) =>
                               marker # None /\ x \in marker.paths
          /\ Leftover(contextPath, contextMem) => marker # None
          /\ L = "publish" => ~Leftover(NewPath, freshMem)

Inv == /\ Types /\ Requests /\ Blocking /\ Cleaners /\ Attempts /\ OneAccount
       /\ Progress /\ Condemned /\ Remembered

----------------------------------------------------------------------------
LEMMA Constants ==
    /\ None \notin Tokens /\ None \notin Accounts /\ None \notin Credentials
    /\ None \notin Markers /\ None \notin Procs
    /\ ConfiguredAccounts \subseteq Paths /\ None \in Paths /\ Accounts \subseteq Paths
    /\ LoginProc \notin Requesters /\ LoginProc \in Procs /\ Requesters \subseteq Procs
    /\ \A p \in Procs : p = LoginProc \/ p \in Requesters
    /\ Poll \in Requesters
BY SessionAssumption DEF Paths, Requesters, Procs

LEMMA StateFacts ==
    ASSUME Types
    PROVE  /\ Len(states) \in Nat
           /\ \A i \in 1..Len(states) : states[i] \in ReauthStates
BY DEF Types

LEMMA CredentialFacts ==
    ASSUME NEW c \in Credentials
    PROVE  c.token \in Tokens /\ c.account \in Accounts /\ c # None
BY Constants DEF Credentials

LEMMA InvInit == Init => Inv
<1> SUFFICES ASSUME Init PROVE Inv
  OBVIOUS
<1> USE DEF Init, L
<1>1. \A p \in Procs : pc[p] = "idle" /\ generation[p] = 0 /\ token[p] = None /\ state[p] = 0
  OBVIOUS
<1>2. L = "idle"
  BY <1>1, Constants
<1>3. Types
  <2>1. /\ marker \in Markers \cup {None} /\ stored \in Credentials \cup {None}
        /\ creds \in Credentials \cup {None} /\ fresh \in Credentials \cup {None}
        /\ contextFile \in [Paths -> SUBSET Tokens]
        /\ configured \in Paths /\ accountID \in Paths /\ contextPath \in Paths
        /\ contextMem \in SUBSET Tokens /\ freshMem \in SUBSET Tokens
        /\ condemned \subseteq Nat
        /\ invalidated \subseteq Credentials /\ owed \in Tokens \cup {None}
    BY Constants
  <2>2. /\ states \in Seq(ReauthStates) /\ Len(states) = 0 /\ reauth = 0
        /\ sessionGeneration \in Nat
    OBVIOUS
  <2>3. created \in BOOLEAN /\ force \in BOOLEAN /\ unmarked \in BOOLEAN
    OBVIOUS
  <2>4. state \in [Procs -> 0..0] /\ generation \in [Procs -> Nat]
        /\ token \in [Procs -> Tokens \cup {None}]
    OBVIOUS
  <2>5. /\ pc \in [Procs -> RequesterStates \cup CleanupStates \cup LoginStates]
        /\ \A r \in Requesters : pc[r] \in RequesterStates \cup CleanupStates
    BY <1>1, Constants DEF RequesterStates
  <2>6. reauth \in 0..Len(states) /\ state \in [Procs -> 0..Len(states)]
    BY <2>2, <2>4
  <2>7. L \in LoginStates \cup CleanupStates
    BY <1>2 DEF LoginStates
  <2> HIDE DEF Init, L
  <2> QED BY <2>1, <2>2, <2>3, <2>4, <2>5, <2>6, <2>7 DEF Types
<1>4. Requests
  BY <1>1, Constants DEF Requests, Informed
<1>5. Blocking /\ Cleaners
  BY <1>1, <1>2 DEF Blocking, Cleaners, CleanupStates
<1>6. Attempts
  BY <1>2 DEF Attempts, Acquiring, Acquired, Forced
<1>7. OneAccount /\ Progress
  BY <1>2 DEF OneAccount, Progress, Acquired, Accepted
<1>8. Condemned
  BY <1>2 DEF Condemned, StaysReady
<1>9. Remembered
  BY <1>2 DEF Remembered, Leftover
<1> HIDE DEF Init, L
<1> QED BY <1>3, <1>4, <1>5, <1>6, <1>7, <1>8, <1>9 DEF Inv

----------------------------------------------------------------------------
(***************************************************************************)
(* A request that only moves: it changes what it knows and nothing else.   *)
(***************************************************************************)
PCs == [Procs -> RequesterStates \cup CleanupStates \cup LoginStates]

shared == <<marker, stored, contextFile, creds, reauth, states, sessionGeneration,
            contextVars, force, created, fresh, freshMem, givenUp, unmarked>>

OthersKeep(r) ==
    \A p \in Procs \ {r} : /\ pc'[p] = pc[p] /\ generation'[p] = generation[p]
                           /\ token'[p] = token[p] /\ state'[p] = state[p]

LocalTypes ==
    /\ pc' \in PCs /\ generation' \in [Procs -> Nat]
    /\ token' \in [Procs -> Tokens \cup {None}]
    /\ state' \in [Procs -> 0..Len(states')]

RequestMove(r) ==
    /\ UNCHANGED shared /\ OthersKeep(r) /\ LocalTypes
    /\ condemned \subseteq condemned' /\ condemned' \subseteq Nat
    /\ pc[r] \in RequesterStates /\ pc'[r] \in RequesterStates
    /\ Informed(r)'

LEMMA RequestMoveKeeps ==
    ASSUME Inv, NEW r \in Requesters, RequestMove(r)
    PROVE  Inv'
<1> USE DEF L, Mine
<1>1. UNCHANGED shared /\ OthersKeep(r) /\ LocalTypes
  BY DEF RequestMove
<1>2. L' = L /\ Mine' = Mine /\ r # LoginProc /\ r \in Procs
      /\ generation'[LoginProc] = generation[LoginProc]
      /\ token'[LoginProc] = token[LoginProc]
  BY <1>1, Constants DEF OthersKeep
<1>3. UNCHANGED <<marker, stored, contextFile, creds, reauth, states, sessionGeneration,
                  configured, accountID, contextPath, contextMem, force, created, fresh,
                  freshMem, invalidated, owed, unmarked>>
  BY <1>1 DEF shared, contextVars, givenUp
<1> HIDE DEF L, Mine
<1>4. Types'
  <2>1. Types /\ \A q \in Requesters : pc'[q] \in RequesterStates \cup CleanupStates
    BY <1>1, Constants DEF Inv, Types, RequestMove, OthersKeep
  <2>2. condemned' \subseteq Nat
    BY DEF RequestMove
  <2> QED BY <1>1, <1>2, <1>3, <2>1, <2>2 DEF Types, LocalTypes, PCs
<1>5. Requests'
  <2> SUFFICES ASSUME NEW q \in Requesters PROVE Informed(q)'
    BY DEF Requests
  <2>1. CASE q = r
    BY <2>1 DEF RequestMove
  <2>2. CASE q # r
    BY <1>1, <1>3, <2>2, Constants DEF Inv, Requests, Informed, OthersKeep, RequestMove
  <2> QED BY <2>1, <2>2
<1>6. Blocking'
  BY <1>2, <1>3 DEF Inv, Blocking
<1>7. Cleaners'
  <2>1. pc'[r] \notin CleanupStates
    BY DEF RequestMove, RequesterStates, CleanupStates
  <2> QED BY <1>1, <1>3, <2>1 DEF Inv, Cleaners, OthersKeep
<1>8. Attempts'
  BY <1>2, <1>3 DEF Inv, Attempts
<1>9. OneAccount' /\ Progress'
  BY <1>2, <1>3 DEF Inv, OneAccount, Progress, MarkerOf
<1>10. Condemned'
  BY <1>2, <1>3 DEF Inv, Condemned, StaysReady, RequestMove
<1>11. Remembered'
  <2>1. NewPath' = NewPath
    BY <1>2, <1>3 DEF NewPath, ReplacesStore, NewAccount
  <2> QED BY <1>2, <1>3, <2>1 DEF Inv, Remembered, Leftover
<1> QED BY <1>4, <1>5, <1>6, <1>7, <1>8, <1>9, <1>10, <1>11 DEF Inv

\* The moving goroutine's entries after a step that sets them with EXCEPT.
LEMMA GotoFacts ==
    ASSUME Types, NEW r \in Procs,
           NEW x \in RequesterStates \cup CleanupStates \cup LoginStates, Goto(r, x)
    PROVE  pc' \in PCs /\ pc'[r] = x /\ \A p \in Procs \ {r} : pc'[p] = pc[p]
BY DEF Types, Goto, PCs

LEMMA GenerationFacts ==
    ASSUME Types, NEW r \in Procs,
           NEW g \in Nat, generation' = [generation EXCEPT ![r] = g]
    PROVE  /\ generation' \in [Procs -> Nat] /\ generation'[r] = g
           /\ \A p \in Procs \ {r} : generation'[p] = generation[p]
BY DEF Types

LEMMA TokenFacts ==
    ASSUME Types, NEW r \in Procs,
           NEW t \in Tokens \cup {None}, token' = [token EXCEPT ![r] = t]
    PROVE  /\ token' \in [Procs -> Tokens \cup {None}] /\ token'[r] = t
           /\ \A p \in Procs \ {r} : token'[p] = token[p]
BY DEF Types

\* A step that changes no more than where a goroutine is.
LEMMA OnlyMoves ==
    ASSUME Types, NEW r \in Procs,
           NEW x \in RequesterStates \cup CleanupStates \cup LoginStates, Goto(r, x),
           UNCHANGED <<generation, token, state, states>>
    PROVE  OthersKeep(r) /\ LocalTypes /\ pc'[r] = x
<1>1. pc' \in PCs /\ pc'[r] = x /\ \A p \in Procs \ {r} : pc'[p] = pc[p]
  BY GotoFacts
<1> QED BY <1>1 DEF Types, OthersKeep, LocalTypes

LEMMA RequestMoves ==
    ASSUME Inv, NEW r \in Requesters,
           \/ Bind(r) \/ Finish(r) \/ BeginAuthenticatedRequest(r)
           \/ AnswerOK(r) \/ AnswerError(r) \/ AnswerExpired(r) \/ Released(r)
    PROVE  RequestMove(r)
<1> USE DEF files, sessionVars, requestVars, loginVars, history, shared, RequesterStates
<1>1. /\ Types /\ Informed(r) /\ r \in Procs /\ generation[r] \in Nat
      /\ sessionGeneration \in Nat /\ condemned \subseteq Nat /\ reauth \in 0..Len(states)
  BY Constants DEF Inv, Requests, Types
<1>2. CASE Bind(r)
  <2>1. creds.token \in Tokens \cup {None}
    BY <1>1, <1>2, CredentialFacts DEF Bind, Types
  <2>2. /\ OthersKeep(r) /\ LocalTypes /\ pc'[r] = "bound"
        /\ generation'[r] = sessionGeneration /\ token'[r] = creds.token
    <3>1. /\ pc' \in PCs /\ pc'[r] = "bound" /\ \A p \in Procs \ {r} : pc'[p] = pc[p]
          /\ UNCHANGED <<state, states>>
      BY <1>1, <1>2, GotoFacts DEF Bind
    <3>2. /\ generation' \in [Procs -> Nat] /\ generation'[r] = sessionGeneration
          /\ \A p \in Procs \ {r} : generation'[p] = generation[p]
      BY <1>1, <1>2, GenerationFacts DEF Bind
    <3>3. /\ token' \in [Procs -> Tokens \cup {None}] /\ token'[r] = creds.token
          /\ \A p \in Procs \ {r} : token'[p] = token[p]
      BY <1>1, <1>2, <2>1, TokenFacts DEF Bind
    <3> QED BY <1>1, <3>1, <3>2, <3>3 DEF Types, OthersKeep, LocalTypes
  <2> QED BY <1>1, <1>2, <2>2 DEF Bind, RequestMove, Informed
<1>3. CASE Finish(r)
  <2>1. OthersKeep(r) /\ LocalTypes /\ pc'[r] = "idle" /\ generation'[r] = generation[r]
    BY <1>1, <1>3, OnlyMoves DEF Finish
  <2> QED BY <1>1, <1>3, <2>1 DEF Finish, RequestMove, Informed
<1>4. CASE BeginAuthenticatedRequest(r)
  <2> DEFINE x == SessionError(r, "inflight")
             t == IF x = "inflight" THEN creds.token ELSE token[r]
  <2>1. /\ x \in {"idle", "waiting", "inflight"}
        /\ x # "idle" => generation[r] = sessionGeneration
        /\ x = "waiting" => reauth # 0
        /\ x = "inflight" => reauth = 0 /\ creds # None
    BY DEF SessionError
  <2>2. t \in Tokens \cup {None} /\ (x = "inflight" => t = creds.token)
    BY <1>1, <2>1, CredentialFacts DEF Types
  <2>3. /\ Goto(r, x) /\ generation' = generation /\ state' = [state EXCEPT ![r] = reauth]
        /\ states' = states
    BY <1>4 DEF BeginAuthenticatedRequest
  <2>4. token' = [token EXCEPT ![r] = t]
    BY <1>4 DEF BeginAuthenticatedRequest
  <2> HIDE DEF x, t
  <2>5. /\ OthersKeep(r) /\ LocalTypes /\ pc'[r] = x
        /\ generation'[r] = generation[r] /\ token'[r] = t
    <3>1. pc' \in PCs /\ pc'[r] = x /\ \A p \in Procs \ {r} : pc'[p] = pc[p]
      BY <1>1, <2>1, <2>3, GotoFacts
    <3>2. /\ token' \in [Procs -> Tokens \cup {None}] /\ token'[r] = t
          /\ \A p \in Procs \ {r} : token'[p] = token[p]
      BY <1>1, <2>2, <2>4, TokenFacts
    <3>3. /\ state' \in [Procs -> 0..Len(states')]
          /\ \A p \in Procs \ {r} : state'[p] = state[p]
      BY <1>1, <2>3 DEF Types
    <3> QED BY <1>1, <2>3, <3>1, <3>2, <3>3 DEF Types, OthersKeep, LocalTypes
  <2> QED BY <1>1, <1>4, <2>1, <2>2, <2>5 DEF BeginAuthenticatedRequest, RequestMove, Informed
<1>5. CASE AnswerOK(r)
  <2>1. /\ OthersKeep(r) /\ LocalTypes /\ pc'[r] = "bound" /\ generation'[r] = generation[r]
        /\ token'[r] = token[r]
    BY <1>1, <1>5, OnlyMoves DEF AnswerOK
  <2> QED BY <1>1, <1>5, <2>1 DEF AnswerOK, RequestMove, Informed
<1>6. CASE AnswerError(r)
  <2> DEFINE x == SessionError(r, "bound")
  <2>1. x \in {"idle", "waiting", "bound"}
    BY DEF SessionError
  <2>2. /\ Goto(r, x) /\ generation' = generation /\ state' = [state EXCEPT ![r] = reauth]
        /\ states' = states /\ token' = token
    BY <1>6 DEF AnswerError
  <2> HIDE DEF x
  <2>3. /\ OthersKeep(r) /\ LocalTypes /\ pc'[r] = x
        /\ generation'[r] = generation[r] /\ token'[r] = token[r]
    <3>1. pc' \in PCs /\ pc'[r] = x /\ \A p \in Procs \ {r} : pc'[p] = pc[p]
      BY <1>1, <2>1, <2>2, GotoFacts
    <3>2. /\ state' \in [Procs -> 0..Len(states')]
          /\ \A p \in Procs \ {r} : state'[p] = state[p]
      BY <1>1, <2>2 DEF Types
    <3> QED BY <1>1, <2>2, <3>1, <3>2 DEF Types, OthersKeep, LocalTypes
  <2> QED BY <1>1, <1>6, <2>1, <2>3 DEF AnswerError, RequestMove, Informed
<1>7. CASE AnswerExpired(r)
  <2>1. /\ OthersKeep(r) /\ LocalTypes /\ pc'[r] = "expired" /\ generation'[r] = generation[r]
        /\ token'[r] = token[r]
    BY <1>1, <1>7, OnlyMoves DEF AnswerExpired
  <2> QED BY <1>1, <1>7, <2>1 DEF AnswerExpired, RequestMove, Informed
<1>8. CASE Released(r)
  <2>1. OthersKeep(r) /\ LocalTypes /\ pc'[r] = "idle" /\ generation'[r] = generation[r]
    BY <1>1, <1>8, OnlyMoves DEF Released
  <2> QED BY <1>1, <1>8, <2>1 DEF Released, RequestMove, Informed
<1> QED BY <1>2, <1>3, <1>4, <1>5, <1>6, <1>7, <1>8

\* An answer of -14 that comes too late.
TooLate(p) == ~(reauth = 0 /\ creds # None /\ ~Stale(p))

LEMMA LateRequestMoves ==
    ASSUME Inv, NEW r \in Requesters, NEW ok \in BOOLEAN, RequireReauthentication(r, ok),
           TooLate(r)
    PROVE  RequestMove(r)
<1> DEFINE x == IF r # LoginProc /\ reauth # 0 /\ ~Stale(r) THEN "waiting" ELSE AfterCall(r)
<1>1. /\ Types /\ Informed(r) /\ r \in Procs /\ r # LoginProc /\ generation[r] \in Nat
      /\ sessionGeneration \in Nat /\ condemned \subseteq Nat
  BY Constants DEF Inv, Requests, Types
<1>2. x \in {"idle", "waiting"} /\ (x = "waiting" => reauth # 0)
  BY <1>1 DEF AfterCall
<1>3. /\ Goto(r, x) /\ state' = [state EXCEPT ![r] = reauth] /\ pc[r] = "expired"
      /\ UNCHANGED <<marker, failures, creds, reauth, states, sessionMu, givenUp, unmarked>>
  BY DEF RequireReauthentication, TooLate
<1>4. UNCHANGED <<stored, contextFile, sessionGeneration, contextVars, generation, token,
                  force, created, fresh, freshMem, condemned>>
  BY DEF RequireReauthentication, loginVars
<1> HIDE DEF x
<1>5. pc' \in PCs /\ pc'[r] = x /\ \A p \in Procs \ {r} : pc'[p] = pc[p]
  BY <1>1, <1>2, <1>3, GotoFacts DEF RequesterStates
<1>6. /\ state' \in [Procs -> 0..Len(states')]
      /\ \A p \in Procs \ {r} : state'[p] = state[p]
  BY <1>1, <1>3 DEF Types
<1>7. OthersKeep(r) /\ LocalTypes
  BY <1>1, <1>4, <1>5, <1>6 DEF Types, OthersKeep, LocalTypes
<1>8. Informed(r)'
  BY <1>1, <1>2, <1>3, <1>4, <1>5 DEF Informed
<1> QED BY <1>1, <1>2, <1>3, <1>4, <1>5, <1>7, <1>8 DEF RequestMove, shared, RequesterStates

----------------------------------------------------------------------------
(***************************************************************************)
(* A delivery writes a context token of the session itself.                *)
(***************************************************************************)
LEMMA PersistKeeps ==
    ASSUME Inv, NEW r \in Requesters, NEW ok \in BOOLEAN, PersistContextToken(r, ok)
    PROVE  Inv'
<1>1. /\ Types /\ Informed(r) /\ Blocking /\ Remembered /\ OneAccount
      /\ pc[r] = "bound" /\ MayPersist(r)
  BY DEF Inv, Requests, PersistContextToken
<1>2. creds # None /\ creds.token = token[r] /\ marker = None /\ reauth = 0
  BY <1>1 DEF Informed, MayPersist, Blocking
<1>3. creds \in Credentials /\ creds.account = contextPath /\ creds \notin invalidated
  BY <1>1, <1>2 DEF Types, OneAccount, Remembered
<1>4. UNCHANGED <<marker, stored, creds, reauth, states, sessionGeneration, configured,
                  accountID, contextPath, pc, generation, token, state, force, created,
                  fresh, freshMem, condemned, invalidated, owed, unmarked>>
  BY DEF PersistContextToken, sessionVars, requestVars, loginVars, history, givenUp
<1>5. \/ contextMem' = contextMem /\ contextFile' = contextFile
      \/ /\ contextMem' = contextMem \cup {token[r]}
         /\ contextFile' = [contextFile EXCEPT ![contextPath] = contextMem \cup {token[r]}]
  BY DEF PersistContextToken
<1>6. token[r] \in Tokens /\ contextPath \in Paths /\ contextMem \in SUBSET Tokens
  BY <1>1, <1>2, <1>3, CredentialFacts DEF Types
<1>7. Types'
  <2>1. contextMem' \in SUBSET Tokens /\ contextFile' \in [Paths -> SUBSET Tokens]
    BY <1>1, <1>5, <1>6 DEF Types
  <2> QED BY <1>1, <1>4, <2>1 DEF Types, L
<1>8. Requests' /\ Blocking' /\ Cleaners'
  BY <1>4 DEF Inv, Requests, Informed, Blocking, Cleaners, L
<1>9. Attempts' /\ OneAccount' /\ Condemned'
  BY <1>4 DEF Inv, Attempts, OneAccount, Condemned, StaysReady, L, Mine
<1>10. Progress'
  <2>1. ~(L = "publish" /\ Mine # 0)
    BY <1>2 DEF Inv, Attempts, Acquiring, Acquired
  <2> QED BY <1>4, <2>1 DEF Inv, Progress, L, Mine, MarkerOf
<1>11. Remembered'
  <2>1. ASSUME ~unmarked PROVE ~Leftover(contextPath, contextMem \cup {token[r]})
    <3>1. ~Leftover(contextPath, contextMem)
      BY <1>1, <1>2, <2>1 DEF Remembered
    <3>2. ASSUME NEW c \in invalidated, c.account = contextPath, c.token = token[r]
          PROVE  FALSE
      <4>1. c \in Credentials
        BY <1>1 DEF Types
      <4> QED BY <1>2, <1>3, <3>2, <4>1 DEF Credentials
    <3> QED BY <3>1, <3>2 DEF Leftover
  <2>2. ASSUME ~unmarked PROVE ~Leftover(contextPath, contextMem')
    BY <1>1, <1>2, <1>5, <2>1, <2>2 DEF Remembered
  <2>3. ASSUME ~unmarked, NEW x \in Paths PROVE ~Leftover(x, contextFile'[x])
    <3>1. ~Leftover(x, contextFile[x])
      BY <1>1, <1>2, <2>3 DEF Remembered
    <3> QED BY <1>1, <1>5, <2>1, <2>3, <3>1 DEF Types
  <2>4. L' = L /\ NewPath' = NewPath
    BY <1>4 DEF NewPath, ReplacesStore, NewAccount, L, Mine
  <2> QED BY <1>1, <1>4, <2>2, <2>3, <2>4 DEF Remembered, Leftover
<1> QED BY <1>7, <1>8, <1>9, <1>10, <1>11 DEF Inv

LEMMA IdleKeeps == ASSUME Inv, StopRun \/ UNCHANGED vars PROVE Inv'
<1>1. UNCHANGED <<marker, stored, contextFile, creds, reauth, states, sessionGeneration,
                  configured, accountID, contextPath, contextMem, pc, generation, token,
                  state, force, created, fresh, freshMem, condemned, invalidated, owed,
                  unmarked>>
  BY DEF StopRun, vars, files, sessionVars, contextVars, requestVars, loginVars, history, givenUp
<1>2. Types' /\ Requests' /\ Blocking' /\ Cleaners'
  BY <1>1 DEF Inv, Types, Requests, Informed, Blocking, Cleaners, L
<1>3. Attempts' /\ OneAccount' /\ Condemned' /\ Progress'
  BY <1>1 DEF Inv, Attempts, OneAccount, Condemned, Progress, StaysReady, L, Mine, MarkerOf
<1>4. Remembered'
  <2>1. L' = L /\ NewPath' = NewPath
    BY <1>1 DEF NewPath, ReplacesStore, NewAccount, L, Mine
  <2> QED BY <1>1, <2>1 DEF Inv, Remembered, Leftover
<1> QED BY <1>2, <1>3, <1>4 DEF Inv

(***************************************************************************)
(* After a crash nothing is left but the files.                            *)
(***************************************************************************)
LEMMA CrashKeeps == ASSUME Inv, Crash PROVE Inv'
<1>1. PICK account \in ConfiguredAccounts : Start(account)
  BY DEF Crash
<1>2. UNCHANGED <<marker, stored, contextFile, invalidated, owed, unmarked>>
  BY DEF Crash, files, givenUp
<1>3. \A p \in Procs : pc'[p] = "idle" /\ generation'[p] = 0 /\ state'[p] = 0
  BY <1>1 DEF Start
<1>4. /\ configured' = account /\ accountID' = account /\ contextPath' = account
      /\ creds' = None /\ reauth' = 0 /\ states' = <<>> /\ sessionGeneration' = 0
      /\ contextMem' = {} /\ fresh' = None /\ freshMem' = {} /\ condemned' = {}
  BY <1>1 DEF Start
<1>5. created' = FALSE /\ force' = FALSE
  BY <1>1 DEF Start
<1>6. L' = "idle"
  BY <1>3, Constants DEF L
<1>7. Types'
  <2>1. /\ pc' \in PCs /\ generation' \in [Procs -> Nat] /\ state' \in [Procs -> 0..0]
        /\ token' \in [Procs -> Tokens \cup {None}]
    BY <1>1 DEF Start, PCs, RequesterStates
  <2>2. \A r \in Requesters : pc'[r] \in RequesterStates \cup CleanupStates
    BY <1>3, Constants DEF RequesterStates
  <2>3. /\ states' \in Seq(ReauthStates) /\ Len(states') = 0 /\ account \in Paths
        /\ L' \in LoginStates
    BY <1>4, <1>6, Constants DEF LoginStates
  <2>4. /\ created' \in BOOLEAN /\ force' \in BOOLEAN /\ unmarked' \in BOOLEAN
    BY <1>2, <1>5 DEF Inv, Types
  <2>5. reauth' \in 0..Len(states') /\ state' \in [Procs -> 0..Len(states')]
    BY <1>4, <2>1, <2>3
  <2>6. /\ marker' \in Markers \cup {None} /\ stored' \in Credentials \cup {None}
        /\ contextFile' \in [Paths -> SUBSET Tokens]
        /\ invalidated' \subseteq Credentials /\ owed' \in Tokens \cup {None}
    BY <1>2 DEF Inv, Types
  <2> QED BY <1>4, <2>1, <2>2, <2>3, <2>4, <2>5, <2>6 DEF Types, PCs
<1>8. Requests' /\ Cleaners'
  BY <1>3, <1>4, Constants DEF Requests, Informed, Cleaners, CleanupStates
<1>9. Blocking' /\ OneAccount' /\ Progress'
  BY <1>4, <1>6 DEF Blocking, OneAccount, Progress, Acquired, Accepted
<1>10. Attempts'
  BY <1>4, <1>5, <1>6 DEF Attempts, Acquiring, Acquired, Forced
<1>11. Condemned'
  BY <1>4, <1>6 DEF Condemned, StaysReady
<1>12. Remembered'
  BY <1>2, <1>4, <1>6 DEF Inv, Remembered, Leftover
<1> QED BY <1>7, <1>8, <1>9, <1>10, <1>11, <1>12 DEF Inv

----------------------------------------------------------------------------
(***************************************************************************)
(* Publishing a reauthState.                                               *)
(***************************************************************************)
Replaces(p, st, label, ok) ==
    /\ states' = Append(states, st) /\ reauth' = Len(states) + 1
    /\ state' = [state EXCEPT ![p] = Len(states) + 1]
    /\ Goto(p, label) /\ label \in {"cancel", "clearContexts"}
    /\ creds' = None /\ st \in ReauthStates /\ st.done = FALSE
    /\ marker' = IF ok THEN MarkerOf(st) ELSE marker
    /\ unmarked' \in BOOLEAN /\ (~unmarked' => ok /\ ~unmarked)
    /\ \A q \in Procs : pc[q] \notin CleanupStates
    /\ UNCHANGED <<stored, contextFile, sessionGeneration, generation, token, force,
                   fresh, freshMem, condemned, configured>>
    /\ created' = created \/ (created' = TRUE /\ force)
    /\ p # LoginProc => creds # None
    /\ sessionGeneration \in condemned \cup {0}
    /\ accountID' \in Paths /\ contextPath' = accountID' /\ configured \in {None, accountID'}
    /\ contextMem' \in SUBSET Tokens
    /\ accountID' # None => st.account = accountID'
    /\ invalidated' \subseteq Credentials /\ owed' \in Tokens \cup {None}
    /\ ~unmarked' =>
          /\ owed' # None => st.sha = owed'
          /\ \A x \in Paths : Leftover(x, contextFile[x])' => x \in st.paths

LEMMA ReplaceFacts ==
    ASSUME Types, NEW p \in Procs, NEW st, NEW label, NEW ok, Replaces(p, st, label, ok)
    PROVE  /\ states' \in Seq(ReauthStates) /\ Len(states') = Len(states) + 1
           /\ reauth' = Len(states) + 1 /\ reauth' # 0 /\ reauth' \in 0..Len(states')
           /\ states'[reauth'] = st
           /\ state' \in [Procs -> 0..Len(states')] /\ state'[p] = reauth'
           /\ pc' \in PCs /\ pc'[p] = label /\ \A q \in Procs \ {p} : pc'[q] = pc[q]
<1>1. /\ states \in Seq(ReauthStates) /\ states' = Append(states, st)
      /\ reauth' = Len(states) + 1 /\ st \in ReauthStates
  BY DEF Types, Replaces
<1>2. /\ states' \in Seq(ReauthStates) /\ Len(states') = Len(states) + 1
      /\ states'[Len(states) + 1] = st
  BY <1>1, AppendProperties
<1>3. Len(states) \in Nat
  BY StateFacts
<1>4. state' \in [Procs -> 0..Len(states')] /\ state'[p] = reauth'
  <2>1. /\ 0..Len(states) \subseteq 0..Len(states') /\ reauth' \in 0..Len(states')
        /\ state' = [state EXCEPT ![p] = reauth'] /\ state \in [Procs -> 0..Len(states)]
    BY <1>1, <1>2, <1>3 DEF Types, Replaces
  <2> QED BY <2>1
<1>5. pc' \in PCs /\ pc'[p] = label /\ \A q \in Procs \ {p} : pc'[q] = pc[q]
  BY GotoFacts DEF Replaces, CleanupStates
<1> QED BY <1>1, <1>2, <1>3, <1>4, <1>5

\* No marker is removed and no session begins.
NoneReplaced == (marker # None => marker' # None) /\ (creds = None => creds' = None)

LEMMA ReplaceKeeps ==
    ASSUME Inv, NEW p \in Procs, NEW st, NEW label, NEW ok \in BOOLEAN,
           Replaces(p, st, label, ok)
    PROVE  Inv' /\ NoneReplaced
<1>1. /\ Types /\ st \in ReauthStates /\ st.done = FALSE
      /\ \A q \in Procs : pc[q] \notin CleanupStates
      /\ UNCHANGED <<stored, contextFile, sessionGeneration, generation, token, force,
                     fresh, freshMem, condemned, configured>>
  BY DEF Replaces, Inv
<1>2. /\ states' \in Seq(ReauthStates) /\ Len(states') = Len(states) + 1
      /\ reauth' # 0 /\ reauth' \in 0..Len(states') /\ states'[reauth'] = st
      /\ state' \in [Procs -> 0..Len(states')] /\ state'[p] = reauth'
      /\ pc' \in PCs /\ pc'[p] = label /\ label \in {"cancel", "clearContexts"}
      /\ \A q \in Procs \ {p} : pc'[q] = pc[q]
  <2>1. label \in {"cancel", "clearContexts"}
    BY DEF Replaces
  <2> QED BY <1>1, <2>1, ReplaceFacts
<1>3. creds' = None /\ MarkerOf(st) \in Markers /\ (marker' = IF ok THEN MarkerOf(st) ELSE marker)
      /\ unmarked' \in BOOLEAN /\ (~unmarked' => ok /\ ~unmarked)
  BY <1>1 DEF Replaces, MarkerOf, Markers, ReauthStates
<1>4. L' = IF p = LoginProc THEN label ELSE L
  BY <1>2, Constants DEF L
<1>5. p # LoginProc => L \notin Acquiring \cup {"retry", "prepared"}
  BY <1>1 DEF Replaces, Inv, Attempts, Blocking
<1>6. Types'
  <2>1. /\ marker' \in Markers \cup {None} /\ creds' \in Credentials \cup {None}
        /\ L' \in LoginStates \cup CleanupStates
    BY <1>1, <1>2, <1>3, <1>4 DEF Types, CleanupStates
  <2>2. \A r \in Requesters : pc'[r] \in RequesterStates \cup CleanupStates
    BY <1>1, <1>2, Constants DEF Types, CleanupStates
  <2>3. unmarked' \in BOOLEAN /\ created' \in BOOLEAN
    BY <1>1, <1>3 DEF Replaces, Types
  <2>4. /\ accountID' \in Paths /\ contextPath' \in Paths /\ contextMem' \in SUBSET Tokens
        /\ invalidated' \subseteq Credentials /\ owed' \in Tokens \cup {None}
    BY DEF Replaces
  <2> QED BY <1>1, <1>2, <2>1, <2>2, <2>3, <2>4 DEF Types, PCs
<1>7. Requests'
  <2> SUFFICES ASSUME NEW r \in Requesters PROVE Informed(r)'
    BY DEF Requests
  <2>1. r \in Procs /\ Informed(r)
    BY Constants DEF Inv, Requests
  <2> QED BY <1>1, <1>2, <2>1 DEF Informed
<1>8. Blocking'
  <2>1. L' = "adopt" => L = "adopt" /\ marker # None
    BY <1>2, <1>4 DEF Inv, Blocking
  <2> QED BY <1>2, <1>3, <2>1, Constants DEF Blocking
<1>9. Cleaners'
  BY <1>1, <1>2 DEF Cleaners
<1>10. Attempts'
  <2>1. /\ L' \notin Acquiring \cup {"retry", "prepared"} /\ (L' # L => L' \notin Forced)
        /\ L' = "clearInstall" => L = "clearInstall"
    BY <1>2, <1>4, <1>5 DEF Acquiring, Acquired, Forced
  <2>2. ~force' => ~created' /\ L' \notin Forced
    BY <1>1, <2>1 DEF Inv, Attempts, Replaces
  <2>3. L' = "clearInstall" => force'
    BY <1>1, <2>1 DEF Inv, Attempts
  <2>4. L' = "expired" => generation'[LoginProc] = sessionGeneration'
    BY <1>1, <1>2, <1>4 DEF Inv, Attempts
  <2> QED BY <1>2, <2>1, <2>2, <2>3, <2>4 DEF Attempts
<1>11. OneAccount' /\ Progress'
  <2>1. L' \notin Acquired
    BY <1>2, <1>4, <1>5 DEF Acquiring, Acquired
  <2> QED BY <1>2, <1>3, <2>1, <1>1 DEF OneAccount, Progress, Replaces, Acquired, Accepted
<1>12. Condemned'
  BY <1>1 DEF Replaces, Condemned, StaysReady
<1>13. Remembered'
  <2>1. L' # "publish"
    BY <1>2, <1>4, <1>5 DEF Acquiring, Acquired
  <2>2. CASE ~unmarked'
    <3>1. /\ marker' # None /\ marker'.sha = st.sha /\ marker'.paths = st.paths
      BY <1>3, <2>2, Constants DEF MarkerOf
    <3> QED BY <1>2, <1>3, <2>1, <2>2, <3>1 DEF Remembered, Replaces
  <2>3. CASE unmarked'
    BY <1>3, <2>3 DEF Remembered
  <2> QED BY <2>2, <2>3
<1>14. NoneReplaced
  BY <1>3, Constants DEF NoneReplaced
<1> QED BY <1>6, <1>7, <1>8, <1>9, <1>10, <1>11, <1>12, <1>13, <1>14 DEF Inv

\* RequireReauthentication, RequireWithoutCredentials and AdoptMarker.
Publishes(p, st, ok) ==
    /\ reauth = 0 /\ Block(p, st, ok) /\ st \in ReauthStates /\ st.done = FALSE
    /\ unmarked' \in BOOLEAN /\ (~unmarked' => ok /\ ~unmarked)
    /\ UNCHANGED <<stored, contextFile, sessionGeneration, generation, token, force,
                   created, fresh, freshMem, condemned, configured>>
    /\ p # LoginProc => creds # None
    /\ sessionGeneration \in condemned \cup {0}
    /\ accountID' \in Paths /\ contextPath' = accountID' /\ configured \in {None, accountID'}
    /\ contextMem' \in SUBSET Tokens
    /\ accountID' # None => st.account = accountID'
    /\ invalidated' \subseteq Credentials /\ owed' \in Tokens \cup {None}
    /\ ~unmarked' =>
          /\ owed' # None => st.sha = owed'
          /\ \A x \in Paths : Leftover(x, contextFile[x])' => x \in st.paths

LEMMA PublishesKeeps ==
    ASSUME Inv, NEW p \in Procs, NEW st, NEW ok \in BOOLEAN, Publishes(p, st, ok)
    PROVE  Inv' /\ NoneReplaced
<1> DEFINE new == [st EXCEPT !.dirty = ~ok]
<1>1. /\ st \in ReauthStates /\ st.done = FALSE /\ Block(p, st, ok)
  BY DEF Publishes
<1>2. /\ new \in ReauthStates /\ new.done = st.done /\ new.account = st.account
      /\ new.sha = st.sha /\ new.paths = st.paths /\ MarkerOf(new) = MarkerOf(st)
  BY <1>1 DEF ReauthStates, MarkerOf
<1>3. /\ states' = Append(states, new) /\ reauth' = Len(states) + 1
      /\ state' = [state EXCEPT ![p] = Len(states) + 1] /\ Goto(p, "cancel")
      /\ creds' = None /\ marker' = (IF ok THEN MarkerOf(new) ELSE marker)
  BY <1>1, <1>2 DEF Block
<1> HIDE DEF new
<1>4. \A q \in Procs : pc[q] \notin CleanupStates
  BY DEF Publishes, Inv, Cleaners
<1>5. Replaces(p, new, "cancel", ok)
  BY <1>1, <1>2, <1>3, <1>4 DEF Publishes, Replaces
<1> QED BY <1>5, ReplaceKeeps

LEMMA RequirePublishes ==
    ASSUME Inv, NEW p \in Procs, NEW ok \in BOOLEAN, RequireReauthentication(p, ok),
           ~TooLate(p)
    PROVE  Inv' /\ NoneReplaced
<1> DEFINE st == [token |-> creds.token, sha |-> creds.token,
                  account |-> creds.account, paths |-> {contextPath},
                  generation |-> generation[p], done |-> FALSE, dirty |-> FALSE]
<1>1. /\ Types /\ OneAccount /\ Condemned /\ Remembered /\ Blocking /\ pc[p] = "expired"
      /\ reauth = 0 /\ creds # None /\ ~Stale(p) /\ Block(p, st, ok) /\ MarkerOp(ok)
      /\ GiveUp(creds)
  BY DEF Inv, TooLate, RequireReauthentication
<1>2. UNCHANGED <<stored, contextFile, sessionGeneration, generation, token, force,
                  created, fresh, freshMem, condemned, configured, accountID, contextPath,
                  contextMem>>
  BY DEF RequireReauthentication, contextVars, loginVars
<1>3. creds \in Credentials /\ creds.token \in Tokens /\ creds.account \in Accounts
  BY <1>1, CredentialFacts DEF Types
<1>4. st \in ReauthStates
  BY <1>1, <1>3, Constants DEF ReauthStates, Types
<1>5. /\ st.done = FALSE /\ st.account = creds.account /\ st.sha = creds.token
      /\ st.paths = {contextPath}
  OBVIOUS
<1> HIDE DEF st
<1>6. sessionGeneration \in condemned \cup {0}
  <2>1. CASE p = LoginProc
    BY <1>1, <2>1 DEF Condemned, L
  <2>2. CASE p # LoginProc
    BY <1>1, <2>2, Constants DEF Inv, Requests, Informed, Stale
  <2> QED BY <2>1, <2>2
<1>7. /\ invalidated' \subseteq Credentials /\ owed' \in Tokens \cup {None}
      /\ owed' = creds.token /\ \A d \in invalidated' : d \in invalidated \/ d = creds
  BY <1>1, <1>3, Constants DEF GiveUp, Types
<1>8. marker = None /\ creds.account = accountID /\ contextPath = accountID
  BY <1>1 DEF Blocking, OneAccount
<1>9. ASSUME ~unmarked, NEW x \in Paths, Leftover(x, contextFile[x])' PROVE x \in st.paths
  <2>1. PICK d \in invalidated' : d.account = x /\ d.token \in contextFile[x]
    BY <1>2, <1>9 DEF Leftover
  <2>2. CASE d = creds
    BY <1>5, <1>8, <2>1, <2>2
  <2>3. CASE d \in invalidated
    BY <1>1, <1>8, <1>9, <2>1, <2>3 DEF Leftover, Remembered
  <2> QED BY <1>7, <2>2, <2>3
<1>10. Publishes(p, st, ok)
  <2>1. /\ accountID' \in Paths /\ contextPath' = accountID' /\ configured \in {None, accountID'}
        /\ contextMem' \in SUBSET Tokens /\ (accountID' # None => st.account = accountID')
    BY <1>1, <1>2, <1>5, <1>8 DEF Types, OneAccount
  <2>2. unmarked' \in BOOLEAN /\ (~unmarked' => ok /\ ~unmarked)
    BY <1>1 DEF MarkerOp, Types
  <2>3. ~unmarked' => /\ owed' # None => st.sha = owed'
                      /\ \A x \in Paths : Leftover(x, contextFile[x])' => x \in st.paths
    BY <1>5, <1>7, <1>9, <2>2
  <2> QED BY <1>1, <1>2, <1>4, <1>5, <1>6, <1>7, <2>1, <2>2, <2>3 DEF Publishes
<1> QED BY <1>10, PublishesKeeps

LEMMA WithoutPublishes ==
    ASSUME Inv, NEW readable \in BOOLEAN, NEW ok \in BOOLEAN,
           RequireWithoutCredentials(readable, ok), reauth = 0
    PROVE  Inv' /\ NoneReplaced
<1> DEFINE found   == Found(readable)
           account == IF accountID # None \/ found = None THEN accountID ELSE found.account
           t       == IF found = None THEN None ELSE found.token
           paths   == {contextPath} \cup IF found = None THEN {} ELSE {found.account}
           st == [token |-> t, sha |-> t, account |-> account, paths |-> paths,
                  generation |-> sessionGeneration, done |-> FALSE, dirty |-> FALSE]
<1>1. /\ Types /\ OneAccount /\ Condemned /\ Remembered /\ Blocking /\ L = "without"
      /\ Block(LoginProc, st, ok) /\ MarkerFrom(readable, TRUE, ok) /\ GiveUp(stored)
  BY DEF Inv, RequireWithoutCredentials, L
<1>2. UNCHANGED <<stored, contextFile, sessionGeneration, generation, token, force,
                  created, fresh, freshMem, condemned, configured, accountID, contextPath,
                  contextMem>>
  BY DEF RequireWithoutCredentials, contextVars, loginVars
<1>3. /\ stored # None =>
           stored \in Credentials /\ stored.token \in Tokens /\ stored.account \in Accounts
      /\ found \in {stored, None} /\ (readable => found = stored)
      /\ unmarked' \in BOOLEAN /\ (~unmarked' => readable /\ ok /\ ~unmarked)
  BY <1>1, CredentialFacts DEF Types, Found, MarkerFrom
<1> HIDE DEF found
<1>4. /\ st \in ReauthStates /\ st.done = FALSE /\ st.sha = t /\ st.paths = paths
      /\ accountID # None => st.account = accountID
  <2>1. account \in Paths /\ t \in Tokens \cup {None} /\ paths \subseteq Paths
    BY <1>1, <1>3, Constants DEF Types
  <2>2. accountID # None => account = accountID
    OBVIOUS
  <2>3. sessionGeneration \in Nat
    BY <1>1 DEF Types
  <2> HIDE DEF account, t, paths
  <2> QED BY <2>1, <2>2, <2>3 DEF ReauthStates
<1> HIDE DEF st
<1>6. sessionGeneration \in condemned \cup {0}
  BY <1>1 DEF Condemned
<1>7. /\ invalidated' \subseteq Credentials /\ owed' \in Tokens \cup {None}
      /\ owed' = IF stored = None THEN owed ELSE stored.token
      /\ \A d \in invalidated' : d \in invalidated \/ (stored # None /\ d = stored)
  BY <1>1, <1>3 DEF GiveUp, givenUp, Types
<1>8. ~unmarked => marker = None
  BY <1>1 DEF Blocking
<1>9. ASSUME ~unmarked', NEW x \in Paths, Leftover(x, contextFile[x])' PROVE x \in st.paths
  <2>1. PICK d \in invalidated' : d.account = x /\ d.token \in contextFile[x]
    BY <1>2, <1>9 DEF Leftover
  <2>2. CASE stored # None /\ d = stored
    BY <1>3, <1>4, <1>9, <2>1, <2>2
  <2>3. CASE d \in invalidated
    BY <1>1, <1>3, <1>8, <1>9, <2>1, <2>3 DEF Leftover, Remembered
  <2> QED BY <1>7, <2>2, <2>3
<1>10. Publishes(LoginProc, st, ok)
  <2>1. /\ accountID' \in Paths /\ contextPath' = accountID' /\ configured \in {None, accountID'}
        /\ contextMem' \in SUBSET Tokens /\ (accountID' # None => st.account = accountID')
    BY <1>1, <1>2, <1>4 DEF Types, OneAccount
  <2>2. ~unmarked' => (owed' # None => st.sha = owed')
    <3>1. ~unmarked => owed = None
      BY <1>1, <1>8 DEF Remembered
    <3> QED BY <1>3, <1>4, <1>7, <3>1
  <2>3. ~unmarked' => /\ owed' # None => st.sha = owed'
                      /\ \A x \in Paths : Leftover(x, contextFile[x])' => x \in st.paths
    BY <1>9, <2>2
  <2> HIDE DEF paths, t, account
  <2> QED BY <1>1, <1>2, <1>3, <1>4, <1>6, <1>7, <2>1, <2>3 DEF Publishes
<1> QED BY <1>10, PublishesKeeps, Constants

Adopts == reauth = 0 /\ (accountID # None => marker.account \in {None, accountID})

LEMMA AdoptPublishes ==
    ASSUME Inv, AdoptMarker(TRUE), Adopts
    PROVE  Inv' /\ NoneReplaced
<1> DEFINE account == IF marker.account # None THEN marker.account ELSE accountID
           path == IF configured = None /\ accountID = None THEN account ELSE contextPath
           st == [token |-> None, sha |-> marker.sha, account |-> account,
                  paths |-> marker.paths \cup {contextPath, path},
                  generation |-> sessionGeneration, done |-> FALSE, dirty |-> FALSE]
<1>1. /\ Types /\ OneAccount /\ Condemned /\ Remembered /\ Blocking /\ L = "adopt"
      /\ reauth = 0
  BY DEF Inv, AdoptMarker, L, Adopts
<1>2. marker \in Markers /\ marker # None
  BY <1>1, Constants DEF Blocking, Types
<1>3. /\ account \in Paths /\ path \in Paths /\ path = account
      /\ accountID # None => account = accountID
  BY <1>1, <1>2 DEF Adopts, Types, Markers, OneAccount
<1>4. Block(LoginProc, st, TRUE) /\ accountID' = account /\ contextPath' = path
      /\ unmarked' = unmarked
      /\ (contextMem' = IF path = contextPath THEN contextMem ELSE {})
      /\ UNCHANGED <<stored, contextFile, sessionGeneration, generation, token, force,
                     created, fresh, freshMem, condemned, configured, invalidated, owed>>
  BY <1>1, <1>3 DEF AdoptMarker, MarkerOp, Types, givenUp
<1>5. /\ st \in ReauthStates /\ st.done = FALSE /\ st.sha = marker.sha
      /\ marker.paths \subseteq st.paths /\ st.account = account
  BY <1>1, <1>2, <1>3 DEF Types, ReauthStates, Markers
<1> HIDE DEF st
<1>6. sessionGeneration \in condemned \cup {0}
  BY <1>1 DEF Condemned
<1>7. Publishes(LoginProc, st, TRUE)
  <2>1. /\ accountID' \in Paths /\ contextPath' = accountID' /\ configured \in {None, accountID'}
        /\ contextMem' \in SUBSET Tokens /\ (accountID' # None => st.account = accountID')
    BY <1>1, <1>3, <1>4, <1>5 DEF Types, OneAccount
  <2>2. /\ invalidated' \subseteq Credentials /\ owed' \in Tokens \cup {None}
    BY <1>1, <1>4 DEF Types
  <2>3. ~unmarked => /\ owed' # None => st.sha = owed'
                     /\ \A x \in Paths : Leftover(x, contextFile[x])' => x \in st.paths
    BY <1>1, <1>4, <1>5 DEF Remembered, Leftover
  <2>4. unmarked' \in BOOLEAN
    BY <1>1, <1>4 DEF Types
  <2> HIDE DEF path, account
  <2> QED BY <1>1, <1>4, <1>5, <1>6, <2>1, <2>2, <2>3, <2>4 DEF Publishes
<1> QED BY <1>7, PublishesKeeps, Constants

----------------------------------------------------------------------------
(***************************************************************************)
(* The cleanup for the state that b.reauth holds.                          *)
(***************************************************************************)
CleanupMove(p) ==
    /\ UNCHANGED <<marker, creds, reauth, sessionGeneration, configured, accountID,
                   contextPath, force, created, fresh, freshMem, condemned, invalidated,
                   owed, unmarked, generation, token, state>>
    /\ pc[p] \in CleanupStates /\ pc'[p] \in CleanupStates \cup {AfterCall(p)}
    /\ pc' \in PCs /\ \A q \in Procs \ {p} : pc'[q] = pc[q]
    /\ states' \in Seq(ReauthStates) /\ Len(states') = Len(states)
    /\ states'[reauth].account = states[reauth].account
    /\ states'[reauth].sha = states[reauth].sha
    /\ states'[reauth].paths = states[reauth].paths
    /\ pc'[p] \in CleanupStates => ~states'[reauth].done
    /\ stored' \in {None, stored} /\ contextMem' \in {{}, contextMem}
    /\ contextFile' \in [Paths -> SUBSET Tokens]
    /\ \A q \in Paths : contextFile'[q] \subseteq contextFile[q]

LEMMA CleanupMoveKeeps ==
    ASSUME Inv, NEW p \in Procs, CleanupMove(p)
    PROVE  Inv'
<1>1. /\ Types /\ pc[p] \in CleanupStates /\ reauth # 0 /\ ~states[reauth].done
      /\ \A q \in Procs \ {p} : pc[q] \notin CleanupStates
  <2>1. pc[p] \in CleanupStates /\ Types /\ Cleaners
    BY DEF CleanupMove, Inv
  <2> QED BY <2>1 DEF Cleaners
<1>2. UNCHANGED <<marker, creds, reauth, sessionGeneration, configured, accountID,
                  contextPath, force, created, fresh, freshMem, condemned, invalidated,
                  owed, unmarked, generation, token, state>>
  BY DEF CleanupMove
<1>3. /\ pc' \in PCs /\ \A q \in Procs \ {p} : pc'[q] = pc[q]
      /\ states' \in Seq(ReauthStates) /\ Len(states') = Len(states)
      /\ states'[reauth].account = states[reauth].account
      /\ states'[reauth].sha = states[reauth].sha
      /\ states'[reauth].paths = states[reauth].paths
  BY DEF CleanupMove
<1>4. /\ p # LoginProc => L' = L /\ pc'[p] \in CleanupStates \cup {"idle"}
      /\ p = LoginProc => /\ L \in CleanupStates
                          /\ L' \in CleanupStates \cup {"decide", "prepared"}
                          /\ L' = "prepared" => created
  <2>1. /\ p # LoginProc => L' = L /\ pc'[p] \in CleanupStates \cup {"idle"}
        /\ p = LoginProc => L \in CleanupStates /\ L' \in CleanupStates \cup {AfterCall(p)}
    BY <1>1, Constants DEF CleanupMove, L, AfterCall
  <2>2. /\ p = LoginProc => AfterCall(p) \in {"decide", "prepared"}
        /\ p = LoginProc /\ AfterCall(p) = "prepared" => created
    BY DEF AfterCall
  <2> QED BY <2>1, <2>2 DEF CleanupStates
<1>5. /\ L' \notin Acquiring \cup {"retry", "adopt"} \/ (L' = "adopt" /\ L = "adopt")
      /\ L' # "publish" /\ L' \notin Acquired
  <2>1. L \notin Acquiring \cup {"retry"}
    BY <1>1 DEF Inv, Attempts
  <2> QED BY <1>4, <2>1 DEF Acquiring, Acquired, CleanupStates
<1>6. Types'
  <2>1. /\ stored' \in Credentials \cup {None} /\ contextMem' \in SUBSET Tokens
        /\ contextFile' \in [Paths -> SUBSET Tokens]
    BY <1>1 DEF CleanupMove, Types
  <2>2. /\ \A r \in Requesters : pc'[r] \in RequesterStates \cup CleanupStates
        /\ L' \in LoginStates \cup CleanupStates
    BY <1>1, <1>3, <1>4, Constants DEF Types, LoginStates, RequesterStates
  <2> QED BY <1>1, <1>2, <1>3, <2>1, <2>2 DEF Types, PCs
<1>7. Requests'
  <2> SUFFICES ASSUME NEW r \in Requesters PROVE Informed(r)'
    BY DEF Requests
  <2>1. r \in Procs /\ Informed(r) /\ r # LoginProc
    BY Constants DEF Inv, Requests
  <2>2. pc'[r] = pc[r] \/ pc'[r] \in CleanupStates \cup {"idle"}
    BY <1>3, <1>4, <2>1
  <2> QED BY <1>1, <1>2, <2>1, <2>2 DEF Informed, CleanupStates
<1>8. Blocking'
  BY <1>1, <1>2, <1>5 DEF Inv, Blocking
<1>9. Cleaners'
  <2>1. state[p] = reauth /\ (pc'[p] \in CleanupStates => ~states'[reauth].done)
    BY <1>1 DEF Inv, Cleaners, CleanupMove
  <2> QED BY <1>1, <1>2, <1>3, <2>1 DEF Cleaners
<1>10. Attempts'
  <2>1. ~force' => ~created' /\ L' \notin Forced
    BY <1>2, <1>4 DEF Inv, Attempts, Forced, CleanupStates
  <2>2. L' = "expired" => generation'[LoginProc] = sessionGeneration'
    BY <1>2, <1>4 DEF Inv, Attempts, CleanupStates
  <2> QED BY <1>1, <1>2, <1>5, <2>1, <2>2 DEF Attempts, Acquiring, Acquired
<1>11. OneAccount' /\ Progress'
  <2>1. Accepted \subseteq Acquired /\ {"clearInstall", "publish"} \subseteq Acquired
    BY DEF Accepted, Acquired
  <2> QED BY <1>2, <1>3, <1>5, <2>1 DEF Inv, OneAccount, Progress
<1>12. Condemned'
  <2>1. L' # "idle" => L # "idle"
    BY <1>4 DEF CleanupStates
  <2> QED BY <1>2, <2>1 DEF Inv, Condemned, StaysReady
<1>13. Remembered'
  <2>1. /\ contextMem' \subseteq contextMem
        /\ \A q \in Paths : contextFile'[q] \subseteq contextFile[q]
    BY DEF CleanupMove
  <2> QED BY <1>2, <1>3, <1>5, <2>1 DEF Inv, Remembered, Leftover
<1> QED BY <1>6, <1>7, <1>8, <1>9, <1>10, <1>11, <1>12, <1>13 DEF Inv

\* A step that changes fields of the state in hand.
LEMMA StateUpdate ==
    ASSUME Types, NEW i \in 1..Len(states), NEW st \in ReauthStates,
           states' = [states EXCEPT ![i] = st]
    PROVE  /\ states' \in Seq(ReauthStates) /\ Len(states') = Len(states)
           /\ states'[i] = st /\ \A j \in 1..Len(states) \ {i} : states'[j] = states[j]
BY ExceptSeq DEF Types

LEMMA CleanupMoves ==
    ASSUME Inv, NEW p \in Procs,
           \/ CancelSession(p) \/ \E bad \in SUBSET Paths : ClearContexts(p, bad)
           \/ \E ok \in BOOLEAN : ClearCreds(p, ok)
           \/ CloseState(p)
    PROVE  CleanupMove(p)
<1>1. /\ Types /\ pc[p] \in CleanupStates /\ reauth # 0 /\ state[p] = reauth
      /\ ~states[reauth].done
  <2>1. pc[p] \in CleanupStates
    BY DEF CancelSession, ClearContexts, ClearCreds, CloseState, CleanupStates
  <2> QED BY <2>1 DEF Inv, Cleaners
<1>2. reauth \in 1..Len(states) /\ states[reauth] \in ReauthStates
  BY <1>1, StateFacts DEF Types
<1> DEFINE same == UNCHANGED <<marker, creds, reauth, sessionGeneration, configured,
                      accountID, contextPath, force, created, fresh, freshMem, condemned,
                      invalidated, owed, unmarked, generation, token, state>>
<1> USE DEF files, sessionVars, contextVars, requestVars, loginVars, history, givenUp
<1>3. ASSUME NEW d, NEW e, states' = [states EXCEPT ![reauth] = [@ EXCEPT !.dirty = d, !.done = e]],
             d \in BOOLEAN, e \in BOOLEAN
      PROVE  /\ states' \in Seq(ReauthStates) /\ Len(states') = Len(states)
             /\ states'[reauth].account = states[reauth].account
             /\ states'[reauth].sha = states[reauth].sha
             /\ states'[reauth].paths = states[reauth].paths
             /\ states'[reauth].done = e
  <2> DEFINE st == [states[reauth] EXCEPT !.dirty = d, !.done = e]
  <2>1. /\ st \in ReauthStates /\ st.account = states[reauth].account
        /\ st.sha = states[reauth].sha /\ st.paths = states[reauth].paths /\ st.done = e
    BY <1>2, <1>3 DEF ReauthStates
  <2>2. states' = [states EXCEPT ![reauth] = st]
    BY <1>3
  <2> HIDE DEF st
  <2> QED BY <1>1, <1>2, <2>1, <2>2, StateUpdate
<1>4. CASE CancelSession(p)
  <2>1. Goto(p, "clearContexts") /\ same /\ states' = states
        /\ UNCHANGED <<stored, contextFile, contextMem>>
    BY <1>4 DEF CancelSession
  <2>2. /\ pc' \in PCs /\ pc'[p] = "clearContexts" /\ \A q \in Procs \ {p} : pc'[q] = pc[q]
    BY <1>1, <2>1, GotoFacts DEF CleanupStates
  <2> QED BY <1>1, <2>1, <2>2 DEF CleanupMove, Types, CleanupStates
<1>5. CASE \E bad \in SUBSET Paths : ClearContexts(p, bad)
  <2>1. PICK bad \in SUBSET Paths : ClearContexts(p, bad)
    BY <1>5
  <2>2. /\ Goto(p, "clearCreds") /\ same /\ stored' = stored /\ contextMem' \in {{}, contextMem}
    BY <2>1 DEF ClearContexts
  <2>3. /\ pc' \in PCs /\ pc'[p] = "clearCreds" /\ \A q \in Procs \ {p} : pc'[q] = pc[q]
    BY <1>1, <2>2, GotoFacts DEF CleanupStates
  <2>4. /\ contextFile' \in [Paths -> SUBSET Tokens]
        /\ \A q \in Paths : contextFile'[q] \subseteq contextFile[q]
    BY <1>1, <2>1 DEF ClearContexts, ClearPaths, Types
  <2>5. states' = [states EXCEPT ![reauth] =
                     [@ EXCEPT !.dirty = (states[reauth].dirty \/ bad # {}), !.done = FALSE]]
    BY <1>1, <1>2, <2>1 DEF ClearContexts, ReauthStates
  <2> QED BY <1>1, <1>3, <2>2, <2>3, <2>4, <2>5 DEF CleanupMove, CleanupStates
<1>6. CASE \E ok \in BOOLEAN : ClearCreds(p, ok)
  <2>1. PICK ok \in BOOLEAN : ClearCreds(p, ok)
    BY <1>6
  <2>2. /\ Goto(p, "close") /\ same /\ stored' \in {None, stored}
        /\ UNCHANGED <<contextFile, contextMem>>
    BY <2>1 DEF ClearCreds
  <2>3. /\ pc' \in PCs /\ pc'[p] = "close" /\ \A q \in Procs \ {p} : pc'[q] = pc[q]
    BY <1>1, <2>2, GotoFacts DEF CleanupStates
  <2>4. /\ contextFile' \in [Paths -> SUBSET Tokens]
        /\ \A q \in Paths : contextFile'[q] \subseteq contextFile[q]
    BY <1>1, <2>2 DEF Types
  <2>5. states' = [states EXCEPT ![reauth] =
                     [@ EXCEPT !.dirty = (states[reauth].dirty \/ ~ok), !.done = FALSE]]
    BY <1>1, <1>2, <2>1 DEF ClearCreds, ReauthStates
  <2> QED BY <1>1, <1>3, <2>2, <2>3, <2>4, <2>5 DEF CleanupMove, CleanupStates
<1>7. CASE CloseState(p)
  <2>1. /\ Goto(p, AfterCall(p)) /\ same
        /\ UNCHANGED <<stored, contextFile, contextMem>>
    BY <1>7 DEF CloseState
  <2>2. AfterCall(p) \in {"idle", "prepared", "decide"}
    BY DEF AfterCall
  <2>3. /\ pc' \in PCs /\ pc'[p] = AfterCall(p) /\ \A q \in Procs \ {p} : pc'[q] = pc[q]
    BY <1>1, <2>1, <2>2, GotoFacts DEF RequesterStates, LoginStates
  <2>4. /\ contextFile' \in [Paths -> SUBSET Tokens]
        /\ \A q \in Paths : contextFile'[q] \subseteq contextFile[q]
    BY <1>1, <2>1 DEF Types
  <2>5. states' = [states EXCEPT ![reauth] =
                     [@ EXCEPT !.dirty = states[reauth].dirty, !.done = TRUE]]
    BY <1>1, <1>2, <1>7 DEF CloseState, ReauthStates
  <2>6. states[reauth].dirty \in BOOLEAN /\ pc'[p] \notin CleanupStates
    BY <1>2, <2>2, <2>3 DEF ReauthStates, CleanupStates
  <2> QED BY <1>1, <1>3, <2>1, <2>3, <2>4, <2>5, <2>6 DEF CleanupMove
<1> QED BY <1>4, <1>5, <1>6, <1>7

----------------------------------------------------------------------------
(***************************************************************************)
(* The login process moves on without touching files or session.           *)
(***************************************************************************)
LoginMove ==
    /\ UNCHANGED <<marker, stored, contextFile, creds, reauth, states, sessionGeneration,
                   configured, accountID, contextPath, contextMem, invalidated, owed>>
    /\ OthersKeep(LoginProc) /\ LocalTypes
    /\ L \in LoginStates /\ L' \in LoginStates \ {"publish"}
    /\ fresh' \in Credentials \cup {None} /\ freshMem' \in SUBSET Tokens
    /\ created' \in BOOLEAN /\ force' \in BOOLEAN /\ unmarked' \in BOOLEAN
    /\ unmarked => unmarked'
    /\ condemned \subseteq condemned' /\ condemned' \subseteq Nat
    /\ marker # None /\ reauth = 0 => L' \in {"idle", "restore", "load", "adopt", "without"}
    /\ L' = "adopt" => marker # None
    /\ marker # None /\ reauth = 0 /\ L' = "without" => unmarked'
    /\ L' # "idle" => sessionGeneration \in condemned' \cup {0}
    /\ L' \in Accepted => accountID \in {None, fresh'.account}
    /\ Attempts' /\ Progress'

LEMMA LoginMoveKeeps == ASSUME Inv, LoginMove PROVE Inv'
<1>1. /\ UNCHANGED <<marker, stored, contextFile, creds, reauth, states, sessionGeneration,
                     configured, accountID, contextPath, contextMem, invalidated, owed>>
      /\ OthersKeep(LoginProc) /\ LocalTypes /\ Attempts' /\ Progress'
  BY DEF LoginMove
<1>2. L \in LoginStates /\ L' \in LoginStates /\ L' # "publish" /\ (unmarked => unmarked')
  BY DEF LoginMove
<1>3. \A r \in Requesters : /\ r \in Procs /\ pc'[r] = pc[r] /\ generation'[r] = generation[r]
                            /\ token'[r] = token[r] /\ state'[r] = state[r]
  BY <1>1, Constants DEF OthersKeep
<1>4. Types'
  <2>1. /\ fresh' \in Credentials \cup {None} /\ freshMem' \in SUBSET Tokens
        /\ condemned' \subseteq Nat
    BY DEF LoginMove
  <2>2. created' \in BOOLEAN /\ force' \in BOOLEAN /\ unmarked' \in BOOLEAN
    BY DEF LoginMove
  <2>3. Types /\ \A r \in Requesters : pc'[r] \in RequesterStates \cup CleanupStates
    BY <1>3 DEF Inv, Types
  <2> QED BY <1>1, <1>2, <2>1, <2>2, <2>3 DEF Types, LocalTypes, PCs
<1>5. Requests'
  <2>1. condemned \subseteq condemned'
    BY DEF LoginMove
  <2> QED BY <1>1, <1>3, <2>1 DEF Inv, Requests, Informed
<1>6. Blocking'
  BY <1>1 DEF Inv, Blocking, LoginMove
<1>7. Cleaners'
  <2>1. pc[LoginProc] \notin CleanupStates /\ pc'[LoginProc] \notin CleanupStates
    BY <1>2 DEF L, LoginStates, CleanupStates
  <2> QED BY <1>1, <2>1 DEF Inv, Cleaners, OthersKeep
<1>8. OneAccount'
  BY <1>1 DEF Inv, OneAccount, LoginMove
<1>9. Condemned'
  BY <1>1 DEF Inv, Condemned, StaysReady, LoginMove
<1>10. Remembered'
  BY <1>1, <1>2 DEF Inv, Remembered, Leftover
<1> QED BY <1>1, <1>4, <1>5, <1>6, <1>7, <1>8, <1>9, <1>10 DEF Inv

\* What every such step leaves alone, and the types it keeps.
LoginFrame ==
    /\ UNCHANGED <<marker, stored, contextFile, creds, reauth, states, sessionGeneration,
                   configured, accountID, contextPath, contextMem, invalidated, owed,
                   force, freshMem, condemned>>
    /\ OthersKeep(LoginProc) /\ LocalTypes /\ L' \in LoginStates

StateKept == state' \in [Procs -> 0..Len(states')]
             /\ \A p \in Procs \ {LoginProc} : state'[p] = state[p]

LEMMA StateKeeping ==
    ASSUME Types, states' = states,
           \/ state' = state
           \/ \E i \in 0..Len(states) : state' = [state EXCEPT ![LoginProc] = i]
    PROVE  StateKept
BY DEF Types, StateKept

LEMMA LoginFrames ==
    ASSUME Inv, NEW x \in LoginStates, LoginMoves(x), StateKept
    PROVE  LoginFrame /\ L' = x
<1>1. /\ UNCHANGED <<marker, stored, contextFile, creds, reauth, states, sessionGeneration,
                     configured, accountID, contextPath, contextMem, invalidated, owed,
                     force, freshMem, condemned, generation, token>>
      /\ Goto(LoginProc, x)
  BY DEF LoginMoves, files, sessionVars, contextVars, givenUp
<1>2. pc' \in PCs /\ pc'[LoginProc] = x /\ \A p \in Procs \ {LoginProc} : pc'[p] = pc[p]
  BY <1>1, GotoFacts, Constants DEF Inv
<1> QED BY <1>1, <1>2 DEF LoginFrame, OthersKeep, LocalTypes, StateKept, L, Inv, Types

\* A step to a place where nothing has been acquired.
LEMMA PlainMove ==
    ASSUME Inv, LoginFrame, L \in LoginStates \ {"idle"},
           L' \in {"idle", "load", "adopt", "without", "decide", "discard"},
           marker # None /\ reauth = 0 => L' \in {"idle", "load", "adopt", "without"},
           L' = "adopt" => marker # None,
           marker # None /\ reauth = 0 /\ L' = "without" => unmarked',
           UNCHANGED <<created, fresh>>, unmarked' \in BOOLEAN, unmarked => unmarked'
    PROVE  LoginMove
<1>1. L' \notin Acquiring \cup Forced /\ L' \notin Acquired /\ L' \notin Accepted
  BY DEF Acquiring, Acquired, Accepted, Forced
<1>2. Types /\ UNCHANGED <<force, created, fresh, freshMem, condemned, sessionGeneration>>
  BY DEF Inv, LoginFrame
<1>3. Attempts'
  <2>1. ~force' => ~created'
    BY <1>2 DEF Inv, Attempts
  <2> QED BY <1>1, <2>1 DEF Attempts, Forced, Acquiring, Acquired
<1>4. Progress'
  BY <1>1 DEF Progress, Acquired, Accepted
<1>5. sessionGeneration \in condemned' \cup {0}
  BY <1>2 DEF Inv, Condemned
<1>6. created' \in BOOLEAN /\ force' \in BOOLEAN
  BY <1>2 DEF Types
<1>7. fresh' \in Credentials \cup {None} /\ freshMem' \in SUBSET Tokens /\ condemned' \subseteq Nat
      /\ condemned \subseteq condemned'
  BY <1>2 DEF Types
<1> QED BY <1>1, <1>3, <1>4, <1>5, <1>6, <1>7 DEF LoginFrame, LoginMove

LEMMA BeginMove == ASSUME Inv, NEW forced \in BOOLEAN, BeginLogin(forced) PROVE LoginMove
<1>1. Types /\ Condemned /\ L = "idle"
  BY DEF Inv, BeginLogin, L
<1>2. UNCHANGED <<marker, stored, contextFile, creds, reauth, states, sessionGeneration,
                  configured, accountID, contextPath, contextMem, invalidated, owed,
                  generation, token, unmarked>>
  BY DEF BeginLogin, files, sessionVars, contextVars, givenUp
<1>3. /\ pc' \in PCs /\ pc'[LoginProc] = "restore"
      /\ \A p \in Procs \ {LoginProc} : pc'[p] = pc[p]
  BY <1>1, GotoFacts, Constants DEF BeginLogin, LoginStates
<1>4. StateKept
  <2>1. state' = [state EXCEPT ![LoginProc] = 0] /\ 0 \in 0..Len(states)
    BY <1>1, StateFacts DEF BeginLogin
  <2> QED BY <1>1, <1>2, <2>1, StateKeeping
<1>5. OthersKeep(LoginProc) /\ LocalTypes /\ L' = "restore"
  BY <1>1, <1>2, <1>3, <1>4 DEF OthersKeep, LocalTypes, StateKept, Types, L
<1>6. created' = FALSE /\ force' = forced
  BY DEF BeginLogin
<1>7. fresh' = None /\ freshMem' = {} /\ condemned \subseteq condemned' /\ condemned' \subseteq Nat
      /\ sessionGeneration \in condemned' \cup {0}
  <2>1. CASE forced
    BY <1>1, <2>1 DEF BeginLogin, Types
  <2>2. CASE ~forced
    BY <1>1, <2>2 DEF BeginLogin, Condemned, StaysReady, Types
  <2> QED BY <2>1, <2>2
<1>8. Attempts'
  BY <1>5, <1>6 DEF Attempts, Acquiring, Acquired, Forced
<1>9. Progress'
  BY <1>5 DEF Progress, Acquired, Accepted
<1>10. created' \in BOOLEAN /\ force' \in BOOLEAN /\ unmarked' \in BOOLEAN /\ (unmarked => unmarked')
  BY <1>1, <1>2, <1>6 DEF Types
<1> QED BY <1>1, <1>2, <1>5, <1>7, <1>8, <1>9, <1>10 DEF LoginMove, LoginStates, Accepted

LEMMA RestoreMoves ==
    ASSUME Inv, NEW ok \in BOOLEAN,
           RestoreCheck \/ LoadMarker(ok) \/ (AdoptMarker(ok) /\ ~(ok /\ Adopts))
    PROVE  LoginMove
<1>1. Types /\ Blocking
  BY DEF Inv
<1>2. CASE RestoreCheck
  <2>1. LoginMoves(IF reauth # 0 THEN "decide" ELSE "load") /\ L = "restore"
        /\ UNCHANGED <<state, created, fresh, unmarked>>
    BY <1>2 DEF RestoreCheck, L
  <2>2. states' = states
    BY <2>1 DEF LoginMoves, sessionVars
  <2>3. LoginFrame /\ L' = IF reauth # 0 THEN "decide" ELSE "load"
    BY <1>1, <2>1, <2>2, StateKeeping, LoginFrames DEF LoginStates
  <2>4. unmarked' \in BOOLEAN /\ (unmarked => unmarked')
    BY <1>1, <2>1 DEF Types
  <2> QED BY <2>1, <2>3, <2>4, PlainMove DEF LoginStates
<1>3. CASE LoadMarker(ok)
  <2> DEFINE x == IF ~ok THEN "without" ELSE IF marker = None THEN "decide" ELSE "adopt"
  <2>1. LoginMoves(x) /\ L = "load" /\ UNCHANGED <<state, created, fresh>>
    BY <1>3 DEF LoadMarker, L
  <2>2. x \in {"without", "decide", "adopt"} /\ (x = "without" => ~ok)
        /\ (x = "decide" => marker = None) /\ (x = "adopt" => marker # None)
    OBVIOUS
  <2> HIDE DEF x
  <2>3. states' = states
    BY <2>1 DEF LoginMoves, sessionVars
  <2>4. LoginFrame /\ L' = x
    BY <1>1, <2>1, <2>2, <2>3, StateKeeping, LoginFrames DEF LoginStates
  <2>5. unmarked' \in BOOLEAN /\ (unmarked => unmarked') /\ (~ok => unmarked')
    BY <1>3 DEF LoadMarker, MarkerOp
  <2> QED BY <2>1, <2>2, <2>4, <2>5, PlainMove DEF LoginStates
<1>4. CASE AdoptMarker(ok) /\ ~(ok /\ Adopts)
  <2>1. /\ L = "adopt" /\ UNCHANGED <<state, created, fresh, unmarked>>
        /\ (LoginMoves("decide") /\ reauth # 0) \/ LoginMoves("idle")
    BY <1>4 DEF AdoptMarker, L, Adopts
  <2>2. states' = states
    BY <2>1 DEF LoginMoves, sessionVars
  <2>3. LoginFrame /\ (L' = "idle" \/ (L' = "decide" /\ reauth # 0))
    BY <1>1, <2>1, <2>2, StateKeeping, LoginFrames DEF LoginStates
  <2>4. unmarked' \in BOOLEAN /\ (unmarked => unmarked')
    BY <1>1, <2>1 DEF Types
  <2> QED BY <2>1, <2>3, <2>4, PlainMove DEF LoginStates
<1> QED BY <1>2, <1>3, <1>4

LEMMA DecideMove == ASSUME Inv, Decide PROVE LoginMove
<1> DEFINE x == IF force THEN "prepare"
                ELSE IF reauth # 0 \/ creds # None THEN "idle" ELSE "acquire"
<1>1. Types /\ Blocking /\ Attempts /\ Condemned
  BY DEF Inv
<1>2. LoginMoves(x) /\ L = "decide" /\ UNCHANGED <<created, fresh, unmarked>>
      /\ state' = [state EXCEPT ![LoginProc] = 0]
  BY DEF Decide, L
<1>3. /\ x \in {"prepare", "idle", "acquire"} /\ (x = "prepare" => force)
      /\ x = "acquire" => ~force /\ reauth = 0 /\ creds = None
  OBVIOUS
<1> HIDE DEF x
<1>4. states' = states /\ 0 \in 0..Len(states) /\ LoginProc \in Procs
  BY <1>1, <1>2, StateFacts, Constants DEF LoginMoves, sessionVars
<1>5. LoginFrame /\ L' = x
  BY <1>1, <1>2, <1>3, <1>4, StateKeeping, LoginFrames DEF LoginStates
<1>6. Mine' = 0
  BY <1>1, <1>2, <1>4 DEF Mine, Types
<1>7. UNCHANGED <<reauth, creds, states, force, freshMem, condemned, sessionGeneration>>
  BY <1>5 DEF LoginFrame
<1>8. ~(marker # None /\ reauth = 0)
  BY <1>1, <1>2 DEF Blocking
<1>9. Attempts'
  <2>1. ~force' => ~created' /\ L' \notin Forced
    BY <1>1, <1>2, <1>3, <1>5, <1>7 DEF Attempts, Forced
  <2>2. L' \in Acquiring \cup {"retry"} => L' = "acquire" /\ ~force'
    BY <1>3, <1>5, <1>7 DEF Acquiring, Acquired
  <2>3. L' \notin {"prepared", "clearInstall", "expired", "retry"}
    BY <1>3, <1>5
  <2> QED BY <1>3, <1>5, <1>6, <1>7, <2>1, <2>2, <2>3 DEF Attempts
<1>10. Progress' /\ L' \notin Accepted
  BY <1>3, <1>5 DEF Progress, Acquired, Accepted
<1>11. created' \in BOOLEAN /\ force' \in BOOLEAN /\ unmarked' \in BOOLEAN /\ (unmarked => unmarked')
  BY <1>1, <1>2, <1>7 DEF Types
<1>12. /\ fresh' \in Credentials \cup {None} /\ freshMem' \in SUBSET Tokens
       /\ condemned' \subseteq Nat /\ condemned \subseteq condemned'
       /\ sessionGeneration \in condemned' \cup {0}
  BY <1>1, <1>2, <1>7 DEF Types, Condemned
<1> QED BY <1>2, <1>3, <1>5, <1>8, <1>9, <1>10, <1>11, <1>12 DEF LoginFrame, LoginMove, LoginStates

LEMMA PrepareMove == ASSUME Inv, Prepare PROVE LoginMove
<1> DEFINE x == IF reauth # 0 THEN "prepared" ELSE IF creds # None THEN "expired" ELSE "without"
           t == IF creds = None THEN None ELSE creds.token
<1>1. Types /\ Blocking /\ Attempts /\ Condemned /\ LoginProc \in Procs
  BY Constants DEF Inv
<1>2. /\ Goto(LoginProc, x) /\ L = "prepare" /\ created' = (reauth = 0)
      /\ generation' = [generation EXCEPT ![LoginProc] = sessionGeneration]
      /\ token' = [token EXCEPT ![LoginProc] = t]
      /\ UNCHANGED <<marker, stored, contextFile, creds, reauth, states, sessionGeneration,
                     configured, accountID, contextPath, contextMem, invalidated, owed,
                     force, fresh, freshMem, condemned, state, unmarked>>
  BY DEF Prepare, L, files, sessionVars, contextVars, history, givenUp
<1>3. /\ x \in {"prepared", "expired", "without"} /\ (x = "prepared" => reauth # 0)
      /\ x = "expired" => creds # None /\ t = creds.token
  OBVIOUS
<1>4. t \in Tokens \cup {None}
  BY <1>1, CredentialFacts DEF Types
<1> HIDE DEF x, t
<1>5. /\ pc' \in PCs /\ pc'[LoginProc] = x /\ \A p \in Procs \ {LoginProc} : pc'[p] = pc[p]
  BY <1>1, <1>2, <1>3, GotoFacts DEF LoginStates
<1>6. /\ generation' \in [Procs -> Nat] /\ generation'[LoginProc] = sessionGeneration
      /\ \A p \in Procs \ {LoginProc} : generation'[p] = generation[p]
      /\ token' \in [Procs -> Tokens \cup {None}] /\ token'[LoginProc] = t
      /\ \A p \in Procs \ {LoginProc} : token'[p] = token[p]
  BY <1>1, <1>2, <1>4 DEF Types
<1>7. OthersKeep(LoginProc) /\ LocalTypes /\ L' = x
  BY <1>1, <1>2, <1>5, <1>6 DEF OthersKeep, LocalTypes, Types, L
<1>8. ~(marker # None /\ reauth = 0) /\ force
  BY <1>1, <1>2 DEF Blocking, Attempts, Forced
<1>9. Attempts'
  <2>1. force'
    BY <1>2, <1>8
  <2>2. L' \notin Acquiring \cup {"retry"} /\ L' # "clearInstall"
    BY <1>3, <1>7 DEF Acquiring, Acquired
  <2> QED BY <1>2, <1>3, <1>6, <1>7, <2>1, <2>2 DEF Attempts
<1>10. Progress' /\ L' \notin Accepted
  BY <1>3, <1>7 DEF Progress, Acquired, Accepted
<1>11. created' \in BOOLEAN /\ force' \in BOOLEAN /\ unmarked' \in BOOLEAN /\ (unmarked => unmarked')
  BY <1>1, <1>2 DEF Types
<1>12. /\ fresh' \in Credentials \cup {None} /\ freshMem' \in SUBSET Tokens
       /\ condemned' \subseteq Nat /\ condemned \subseteq condemned'
       /\ sessionGeneration \in condemned' \cup {0}
  BY <1>1, <1>2 DEF Types, Condemned
<1> QED BY <1>2, <1>3, <1>7, <1>8, <1>9, <1>10, <1>11, <1>12 DEF LoginMove, LoginStates

LEMMA PreparedMove == ASSUME Inv, Prepared PROVE LoginMove
<1> DEFINE x == IF ~states[reauth].dirty THEN "acquire"
                ELSE IF created THEN "idle" ELSE "retry"
<1>1. Types /\ Blocking /\ Attempts /\ Condemned /\ LoginProc \in Procs
  BY Constants DEF Inv
<1>2. LoginMoves(x) /\ L = "prepared" /\ UNCHANGED <<created, fresh, unmarked>>
      /\ state' = [state EXCEPT ![LoginProc] = reauth] /\ reauth # 0 /\ states[reauth].done
  BY DEF Prepared, L
<1>3. x \in {"acquire", "idle", "retry"}
  OBVIOUS
<1> HIDE DEF x
<1>4. states' = states /\ reauth \in 0..Len(states)
  BY <1>1, <1>2 DEF LoginMoves, sessionVars, Types
<1>5. LoginFrame /\ L' = x
  BY <1>1, <1>2, <1>3, <1>4, StateKeeping, LoginFrames DEF LoginStates
<1>6. Mine' = reauth
  BY <1>1, <1>2, <1>4 DEF Mine, Types
<1>7. UNCHANGED <<reauth, creds, states, force, freshMem, condemned, sessionGeneration>>
  BY <1>5 DEF LoginFrame
<1>8. creds = None /\ force
  BY <1>1, <1>2 DEF Blocking, Attempts, Forced
<1>9. Attempts'
  <2>1. force'
    BY <1>7, <1>8
  <2>2. L' \notin {"prepared", "clearInstall", "expired"}
    BY <1>3, <1>5
  <2> QED BY <1>2, <1>6, <1>7, <1>8, <2>1, <2>2 DEF Attempts
<1>10. Progress' /\ L' \notin Accepted
  BY <1>3, <1>5 DEF Progress, Acquired, Accepted
<1>11. created' \in BOOLEAN /\ force' \in BOOLEAN /\ unmarked' \in BOOLEAN /\ (unmarked => unmarked')
  BY <1>1, <1>2, <1>7 DEF Types
<1>12. /\ fresh' \in Credentials \cup {None} /\ freshMem' \in SUBSET Tokens
       /\ condemned' \subseteq Nat /\ condemned \subseteq condemned'
       /\ sessionGeneration \in condemned' \cup {0}
  BY <1>1, <1>2, <1>7 DEF Types, Condemned
<1> QED BY <1>2, <1>3, <1>5, <1>9, <1>10, <1>11, <1>12 DEF LoginFrame, LoginMove, LoginStates

LEMMA AcquireMoves == ASSUME Inv, AcquireStored \/ AcquireFails PROVE LoginMove
<1>1. Types /\ Blocking /\ Attempts /\ Condemned /\ L = "acquire" /\ L \in Acquiring
  BY DEF Inv, AcquireStored, AcquireFails, L, Acquiring
<1>2. CASE AcquireStored
  <2>1. LoginMoves("check") /\ UNCHANGED <<state, created, unmarked>>
        /\ ~force /\ stored # None /\ fresh' = stored
    BY <1>2 DEF AcquireStored
  <2>2. states' = states
    BY <2>1 DEF LoginMoves, sessionVars
  <2>3. LoginFrame /\ L' = "check" /\ Mine' = Mine
    BY <1>1, <2>1, <2>2, StateKeeping, LoginFrames DEF LoginStates, Mine
  <2>4. UNCHANGED <<stored, reauth, creds, states, force, freshMem, condemned, sessionGeneration>>
    BY <2>3 DEF LoginFrame
  <2>5. Attempts'
    <3>1. reauth = Mine /\ creds = None /\ Mine = 0 /\ ~created
      BY <1>1, <2>1 DEF Attempts
    <3>2. ~force' /\ ~created'
      BY <2>1, <2>4, <3>1
    <3> QED BY <2>3, <2>4, <3>1, <3>2 DEF Attempts, Forced
  <2>6. Progress' /\ L' \notin Accepted
    BY <2>1, <2>3, <2>4 DEF Progress, Accepted
  <2>7. created' \in BOOLEAN /\ force' \in BOOLEAN /\ unmarked' \in BOOLEAN
        /\ (unmarked => unmarked')
    BY <1>1, <2>1, <2>4 DEF Types
  <2>8. /\ fresh' \in Credentials \cup {None} /\ freshMem' \in SUBSET Tokens
        /\ condemned' \subseteq Nat /\ condemned \subseteq condemned'
        /\ sessionGeneration \in condemned' \cup {0}
    BY <1>1, <2>1, <2>4 DEF Types, Condemned
  <2>9. ~(marker # None /\ reauth = 0)
    BY <1>1 DEF Blocking
  <2> QED BY <1>1, <2>3, <2>5, <2>6, <2>7, <2>8, <2>9 DEF LoginFrame, LoginMove, LoginStates
<1>3. CASE AcquireFails
  <2>1. LoginMoves("idle") /\ UNCHANGED <<state, created, fresh, unmarked>>
    BY <1>3 DEF AcquireFails
  <2>2. states' = states
    BY <2>1 DEF LoginMoves, sessionVars
  <2>3. LoginFrame /\ L' = "idle"
    BY <1>1, <2>1, <2>2, StateKeeping, LoginFrames DEF LoginStates
  <2>4. unmarked' \in BOOLEAN /\ (unmarked => unmarked')
    BY <1>1, <2>1 DEF Types
  <2> QED BY <1>1, <2>1, <2>3, <2>4, PlainMove DEF LoginStates
<1> QED BY <1>2, <1>3

LEMMA CheckMove == ASSUME Inv, CheckFresh PROVE LoginMove
<1> DEFINE reject == \/ RejectsToken(fresh.token)
                     \/ ExpectedAccount \notin {None, fresh.account}
<1>1. Types /\ Blocking /\ Attempts /\ Condemned /\ Progress /\ OneAccount
      /\ L = "check" /\ L \in Acquiring /\ L \in Acquired
  BY DEF Inv, CheckFresh, L, Acquiring, Acquired
<1>2. LoginMoves(IF reject THEN "discard" ELSE "install")
      /\ UNCHANGED <<state, created, fresh, unmarked>>
  BY DEF CheckFresh
<1>3. states' = states
  BY <1>2 DEF LoginMoves, sessionVars
<1>4. StateKept
  BY <1>1, <1>2, <1>3, StateKeeping
<1>5. ~(marker # None /\ reauth = 0)
  BY <1>1 DEF Blocking
<1>6. unmarked' \in BOOLEAN /\ (unmarked => unmarked')
  BY <1>1, <1>2 DEF Types
<1>7. CASE reject
  <2>1. LoginFrame /\ L' = "discard"
    BY <1>2, <1>4, <1>7, LoginFrames DEF LoginStates
  <2> QED BY <1>1, <1>2, <1>5, <1>6, <2>1, PlainMove DEF LoginStates
<1>8. CASE ~reject
  <2>1. LoginFrame /\ L' = "install" /\ Mine' = Mine
    BY <1>2, <1>4, <1>8, LoginFrames DEF LoginStates, Mine
  <2>2. UNCHANGED <<stored, reauth, creds, states, force, freshMem, condemned,
                    sessionGeneration, marker, accountID>>
    BY <2>1 DEF LoginFrame
  <2>3. Attempts'
    <3>1. /\ reauth = Mine /\ creds = None /\ (Mine # 0 => states[Mine].done)
      BY <1>1 DEF Attempts
    <3>2. (force' => Mine # 0) /\ (~force' => ~created' /\ Mine = 0)
      BY <1>1, <1>2, <2>2 DEF Attempts
    <3> QED BY <2>1, <2>2, <3>1, <3>2 DEF Attempts, Forced
  <2>4. Progress'
    <3>1. Mine # 0 => fresh.token \notin {states[Mine].token, states[Mine].sha}
      BY <1>8 DEF RejectsToken
    <3>2. fresh # None /\ stored = fresh
      BY <1>1 DEF Progress
    <3> QED BY <1>2, <2>1, <2>2, <3>1, <3>2 DEF Progress
  <2>5. accountID \in {None, fresh'.account}
    <3>1. reauth = Mine
      BY <1>1 DEF Attempts
    <3>2. ExpectedAccount \in {None, fresh.account}
      BY <1>8
    <3>3. accountID # None => ExpectedAccount = accountID
      BY <1>1, <3>1 DEF ExpectedAccount, OneAccount
    <3> QED BY <1>2, <3>2, <3>3
  <2>6. created' \in BOOLEAN /\ force' \in BOOLEAN
    BY <1>1, <1>2, <2>2 DEF Types
  <2>7. /\ fresh' \in Credentials \cup {None} /\ freshMem' \in SUBSET Tokens
        /\ condemned' \subseteq Nat /\ condemned \subseteq condemned'
        /\ sessionGeneration \in condemned' \cup {0}
    BY <1>1, <1>2, <2>2 DEF Types, Condemned
  <2> QED BY <1>1, <1>5, <1>6, <2>1, <2>3, <2>4, <2>5, <2>6, <2>7
          DEF LoginFrame, LoginMove, LoginStates
<1> QED BY <1>7, <1>8

LEMMA LateLoginMoves ==
    ASSUME Inv, NEW readable \in BOOLEAN, NEW ok \in BOOLEAN,
           \/ RequireReauthentication(LoginProc, ok) /\ TooLate(LoginProc)
           \/ RequireWithoutCredentials(readable, ok) /\ reauth # 0
    PROVE  LoginMove
<1> DEFINE x == AfterCall(LoginProc)
<1>1. Types /\ Blocking /\ Attempts /\ Condemned /\ LoginProc \in Procs
  BY Constants DEF Inv
<1>2. /\ Goto(LoginProc, x) /\ L \in {"expired", "without"}
      /\ state' = [state EXCEPT ![LoginProc] = reauth]
      /\ UNCHANGED <<marker, creds, reauth, states, givenUp, unmarked>>
  BY DEF RequireReauthentication, TooLate, RequireWithoutCredentials, L
<1>3. UNCHANGED <<stored, contextFile, sessionGeneration, contextVars, generation, token,
                  loginVars, condemned>>
  BY DEF RequireReauthentication, RequireWithoutCredentials
<1>4. reauth # 0
  BY <1>1 DEF RequireReauthentication, TooLate, Stale, Attempts, L
<1>5. x \in {"prepared", "decide"}
  BY DEF AfterCall
<1>6. x = "prepared" => created
  BY DEF AfterCall
<1> HIDE DEF x
<1>7. /\ pc' \in PCs /\ pc'[LoginProc] = x /\ \A p \in Procs \ {LoginProc} : pc'[p] = pc[p]
  BY <1>1, <1>2, <1>5, GotoFacts DEF LoginStates
<1>8. states' = states /\ reauth \in 0..Len(states)
  BY <1>1, <1>2 DEF Types
<1>9. StateKept
  BY <1>1, <1>2, <1>8, StateKeeping
<1>10. OthersKeep(LoginProc) /\ LocalTypes /\ L' = x
  BY <1>1, <1>3, <1>7, <1>9 DEF OthersKeep, LocalTypes, Types, L, StateKept
<1>11. Attempts'
  <2>1. ~force' => ~created' /\ L' \notin Forced
    BY <1>1, <1>3, <1>5, <1>6, <1>10 DEF Attempts, Forced, loginVars
  <2>2. L' \notin Acquiring \cup {"retry", "clearInstall", "expired"}
    BY <1>5, <1>10 DEF Acquiring, Acquired
  <2> QED BY <1>2, <1>4, <2>1, <2>2 DEF Attempts, Acquiring
<1>12. Progress' /\ L' \notin Accepted
  BY <1>5, <1>10 DEF Progress, Acquired, Accepted
<1>13. created' \in BOOLEAN /\ force' \in BOOLEAN /\ unmarked' \in BOOLEAN /\ (unmarked => unmarked')
  BY <1>1, <1>2, <1>3 DEF Types, loginVars
<1>14. /\ fresh' \in Credentials \cup {None} /\ freshMem' \in SUBSET Tokens
       /\ condemned' \subseteq Nat /\ condemned \subseteq condemned'
       /\ sessionGeneration \in condemned' \cup {0}
  BY <1>1, <1>2, <1>3 DEF Types, Condemned, loginVars
<1>15. UNCHANGED <<configured, accountID, contextPath, contextMem, invalidated, owed>>
  BY <1>2, <1>3 DEF contextVars, givenUp
<1> QED BY <1>2, <1>3, <1>4, <1>5, <1>10, <1>11, <1>12, <1>13, <1>14, <1>15
        DEF LoginMove, LoginStates

----------------------------------------------------------------------------
(***************************************************************************)
(* A login that works on the files of its attempt.                         *)
(***************************************************************************)
AttemptMove ==
    /\ UNCHANGED <<creds, reauth, sessionGeneration, configured, accountID, contextPath,
                   generation, token, state, force, created, condemned, invalidated, owed,
                   unmarked>>
    /\ L \in Acquiring \cup {"discard"} /\ L' \in Acquired \cup {"idle", "discard"}
    /\ L = "discard" => L' = "idle"
    /\ L' = "clearInstall" => force
    /\ L' \in Accepted => L \in Accepted /\ fresh' = fresh
    /\ pc' \in PCs /\ \A q \in Procs \ {LoginProc} : pc'[q] = pc[q]
    /\ marker' \in Markers \cup {None} /\ stored' \in Credentials \cup {None}
    /\ fresh' \in Credentials \cup {None} /\ freshMem' \in SUBSET Tokens
    /\ contextFile' \in [Paths -> SUBSET Tokens] /\ contextMem' \in SUBSET Tokens
    /\ states' \in Seq(ReauthStates) /\ Len(states') = Len(states)
    /\ reauth = 0 => marker' = marker
    /\ reauth # 0 => /\ states'[reauth].account = states[reauth].account
                     /\ states'[reauth].done = states[reauth].done
    /\ Progress' /\ Remembered'

LEMMA AttemptMoveKeeps == ASSUME Inv, AttemptMove PROVE Inv'
<1>1. /\ Types /\ Attempts /\ Progress' /\ Remembered'
      /\ UNCHANGED <<creds, reauth, sessionGeneration, configured, accountID, contextPath,
                     generation, token, state, force, created, condemned, invalidated, owed,
                     unmarked>>
  BY DEF Inv, AttemptMove
<1>2. /\ L \in Acquiring \cup {"discard"} /\ L' \in Acquired \cup {"idle", "discard"}
      /\ L = "discard" => L' = "idle"
      /\ L' \in Accepted => L \in Accepted /\ fresh' = fresh
      /\ pc' \in PCs /\ \A q \in Procs \ {LoginProc} : pc'[q] = pc[q]
  BY DEF AttemptMove
<1>3. L \notin CleanupStates /\ L' \notin CleanupStates /\ L' \in LoginStates /\ L # "idle"
  BY <1>2 DEF Acquiring, Acquired, CleanupStates, LoginStates
<1>4. \A r \in Requesters : r \in Procs /\ pc'[r] = pc[r]
  BY <1>2, Constants
<1>5. states' \in Seq(ReauthStates) /\ Len(states') = Len(states)
      /\ (reauth # 0 => /\ states'[reauth].account = states[reauth].account
                        /\ states'[reauth].done = states[reauth].done)
  BY DEF AttemptMove
<1>6. Types'
  <2>1. /\ marker' \in Markers \cup {None} /\ stored' \in Credentials \cup {None}
        /\ fresh' \in Credentials \cup {None} /\ freshMem' \in SUBSET Tokens
        /\ contextFile' \in [Paths -> SUBSET Tokens] /\ contextMem' \in SUBSET Tokens
    BY DEF AttemptMove
  <2>2. \A r \in Requesters : pc'[r] \in RequesterStates \cup CleanupStates
    BY <1>1, <1>4 DEF Types
  <2> QED BY <1>1, <1>2, <1>3, <1>5, <2>1, <2>2 DEF Types, PCs
<1>7. Requests'
  BY <1>1, <1>4 DEF Inv, Requests, Informed
<1>8. Blocking'
  <2>1. L' # "adopt" /\ L' # "without"
    BY <1>2 DEF Acquired
  <2>2. L \notin {"idle", "restore", "load", "adopt", "without"}
    BY <1>2 DEF Acquiring, Acquired
  <2>3. reauth = 0 => marker' = None
    BY <2>2 DEF Inv, Blocking, AttemptMove
  <2> QED BY <1>1, <2>1, <2>3 DEF Inv, Blocking
<1>9. Cleaners'
  <2>1. pc[LoginProc] \notin CleanupStates /\ pc'[LoginProc] \notin CleanupStates
    BY <1>3 DEF L
  <2> QED BY <1>1, <1>2, <1>5, <2>1 DEF Inv, Cleaners
<1>10. Attempts'
  <2>1. L' \in Acquiring \cup {"retry"} => L \in Acquiring /\ L' \in Acquired
    BY <1>2 DEF Acquiring, Acquired
  <2>2. Mine' = Mine /\ (L \in Acquiring => reauth = Mine /\ creds = None /\ (Mine # 0 => states[Mine].done))
    BY <1>1 DEF Mine, Attempts
  <2>3. L' \in Acquiring \cup {"retry"} =>
           reauth' = Mine' /\ creds' = None /\ (Mine' # 0 => states'[Mine'].done)
    BY <1>1, <1>5, <2>1, <2>2
  <2>4. L' \in Acquiring => (force' => Mine' # 0)
    BY <1>1, <2>1, <2>2 DEF Attempts
  <2>5. ~force' => ~created' /\ (L' \in Acquiring => Mine' = 0)
    BY <1>1, <2>1, <2>2 DEF Attempts
  <2>6. L' \notin Forced /\ L' # "retry" /\ L' # "expired" /\ L' # "prepared"
    BY <1>2 DEF Acquired, Forced
  <2>7. L' = "clearInstall" => force'
    BY <1>1 DEF AttemptMove
  <2> QED BY <2>3, <2>4, <2>5, <2>6, <2>7 DEF Attempts
<1>11. OneAccount'
  BY <1>1, <1>2, <1>5 DEF Inv, OneAccount
<1>12. Condemned'
  BY <1>1, <1>3 DEF Inv, Condemned, StaysReady
<1> QED BY <1>1, <1>6, <1>7, <1>8, <1>9, <1>10, <1>11, <1>12 DEF Inv

\* The parts that these steps have in common.
AttemptSame ==
    UNCHANGED <<creds, reauth, sessionGeneration, configured, accountID, contextPath,
                generation, token, state, force, created, condemned, invalidated, owed,
                unmarked>>

LEMMA ConfirmedKeeps ==
    ASSUME Inv, NEW c \in Credentials, NEW readable \in BOOLEAN, NEW saved \in BOOLEAN,
           AcquireConfirmed(c, readable, saved)
    PROVE  Inv'
<1> DEFINE x == IF saved THEN "check" ELSE "idle"
<1>1. Types /\ Remembered /\ L = "acquire"
  BY DEF Inv, AcquireConfirmed, L
<1>2. /\ AttemptSame /\ UNCHANGED <<marker, contextFile, contextMem, states, freshMem>>
      /\ Goto(LoginProc, x) /\ fresh' = c /\ stored' = IF saved THEN c ELSE stored
  BY DEF AcquireConfirmed, AttemptSame, sessionVars, contextVars, requestVars, history, givenUp
<1>3. x \in {"check", "idle"} /\ (x = "check" => stored' = c) /\ c # None
  BY <1>2, CredentialFacts
<1> HIDE DEF x
<1>4. /\ pc' \in PCs /\ pc'[LoginProc] = x /\ \A q \in Procs \ {LoginProc} : pc'[q] = pc[q]
  BY <1>1, <1>2, <1>3, GotoFacts, Constants DEF LoginStates
<1>5. L' = x
  BY <1>4 DEF L
<1>6. Progress'
  BY <1>2, <1>3, <1>5 DEF Progress, Acquired, Accepted
<1>7. Remembered'
  BY <1>1, <1>2, <1>3, <1>5 DEF Remembered, Leftover, AttemptSame
<1>8. AttemptMove
  BY <1>1, <1>2, <1>3, <1>4, <1>5, <1>6, <1>7
     DEF AttemptMove, AttemptSame, Types, Acquiring, Acquired, Accepted
<1> QED BY <1>8, AttemptMoveKeeps

LEMMA DiscardKeeps == ASSUME Inv, NEW ok \in BOOLEAN, Discard(ok) PROVE Inv'
<1>1. Types /\ Remembered /\ L = "discard"
  BY DEF Inv, Discard, L
<1>2. /\ AttemptSame /\ UNCHANGED <<marker, contextFile, contextMem, states, fresh, freshMem>>
      /\ Goto(LoginProc, "idle") /\ stored' \in {None, stored}
  BY DEF Discard, AttemptSame, sessionVars, contextVars, requestVars, loginVars, history, givenUp
<1>3. /\ pc' \in PCs /\ pc'[LoginProc] = "idle"
      /\ \A q \in Procs \ {LoginProc} : pc'[q] = pc[q]
  BY <1>1, <1>2, GotoFacts, Constants DEF LoginStates
<1>4. L' = "idle"
  BY <1>3 DEF L
<1>5. Progress' /\ Remembered'
  BY <1>1, <1>2, <1>4 DEF Progress, Acquired, Accepted, Remembered, Leftover, AttemptSame
<1>6. AttemptMove
  BY <1>1, <1>2, <1>3, <1>4, <1>5
     DEF AttemptMove, AttemptSame, Types, Acquiring, Acquired, Accepted
<1> QED BY <1>6, AttemptMoveKeeps

\* The path of the store that login installs.
LEMMA PathFacts ==
    ASSUME Inv, L \in Accepted
    PROVE  /\ NewPath \in Paths /\ NewPath = NewAccount /\ NewAccount = fresh.account
           /\ fresh \in Credentials /\ (~ReplacesStore => NewPath = contextPath)
           /\ configured \in {None, NewAccount}
<1>1. Types /\ OneAccount /\ Progress /\ L \in Acquired
  BY DEF Inv, Accepted, Acquired
<1>2. fresh \in Credentials /\ fresh.account \in Accounts
  BY <1>1, CredentialFacts DEF Progress, Types
<1>3. NewAccount = fresh.account
  BY <1>1 DEF NewAccount, OneAccount
<1>4. NewPath = NewAccount
  BY <1>1 DEF NewPath, NewAccount, ReplacesStore, OneAccount
<1> QED BY <1>1, <1>2, <1>3, <1>4, Constants DEF NewPath, NewAccount, OneAccount

LEMMA LoadsKeeps == ASSUME Inv, NEW ok \in BOOLEAN, InstallLoads(ok) PROVE Inv'
<1>1. /\ Types /\ Remembered /\ Progress /\ Attempts /\ Blocking /\ L = "install"
      /\ L \in Acquiring /\ L \in Acquired /\ L \in Accepted
  BY DEF Inv, InstallLoads, L, Acquiring, Acquired, Accepted
<1>2. /\ AttemptSame /\ UNCHANGED <<marker, stored, contextFile, states, fresh>>
      /\ Goto(LoginProc, "publish") /\ ~force
      /\ (freshMem' = IF ok THEN contextFile[NewPath]
                      ELSE IF ReplacesStore THEN {} ELSE contextMem)
      /\ (contextMem' = IF ReplacesStore THEN contextMem ELSE freshMem')
  BY DEF InstallLoads, AttemptSame, files, sessionVars, requestVars, history, givenUp
<1>3. /\ pc' \in PCs /\ pc'[LoginProc] = "publish"
      /\ \A q \in Procs \ {LoginProc} : pc'[q] = pc[q]
  BY <1>1, <1>2, GotoFacts, Constants DEF LoginStates
<1>4. L' = "publish" /\ Mine' = Mine /\ NewPath' = NewPath
  BY <1>2, <1>3 DEF L, Mine, NewPath, NewAccount, ReplacesStore, AttemptSame
<1>5. Mine = 0 /\ reauth = 0 /\ marker = None /\ creds = None
  BY <1>1, <1>2 DEF Attempts, Blocking
<1>6. NewPath \in Paths /\ (~ReplacesStore => NewPath = contextPath)
  BY <1>1, PathFacts
<1>7. freshMem' \in SUBSET Tokens /\ contextMem' \in SUBSET Tokens
  BY <1>1, <1>2, <1>6 DEF Types
<1>8. Progress'
  BY <1>1, <1>2, <1>4, <1>5 DEF Progress
<1>9. Remembered'
  <2>1. ASSUME ~unmarked
        PROVE  ~Leftover(NewPath, freshMem') /\ ~Leftover(contextPath, contextMem')
    <3>1. /\ ~Leftover(NewPath, contextFile[NewPath])
          /\ ~Leftover(contextPath, contextMem) /\ ~Leftover(NewPath, {})
      BY <1>1, <1>5, <1>6, <2>1 DEF Remembered, Leftover
    <3>2. ~Leftover(NewPath, freshMem')
      BY <1>2, <1>6, <3>1
    <3> QED BY <1>2, <1>6, <3>1, <3>2
  <2> QED BY <1>1, <1>2, <1>4, <1>5, <2>1 DEF Remembered, Leftover, AttemptSame
<1>10. AttemptMove
  <2>1. /\ L' \in Acquired /\ L # "discard" /\ L' # "clearInstall"
    BY <1>1, <1>4 DEF Acquired
  <2> QED BY <1>1, <1>2, <1>3, <1>5, <1>7, <1>8, <1>9, <2>1 DEF AttemptMove, AttemptSame, Types
<1> QED BY <1>10, AttemptMoveKeeps

LEMMA MarksKeeps == ASSUME Inv, NEW ok \in BOOLEAN, InstallMarks(ok) PROVE Inv' /\ NoneReplaced
<1> DEFINE st == [states[Mine] EXCEPT !.paths = @ \cup {NewPath}]
           x == IF ok THEN "clearInstall" ELSE "discard"
<1>1. /\ Types /\ Remembered /\ Progress /\ Attempts /\ L = "install"
      /\ L \in Acquiring /\ L \in Acquired /\ L \in Accepted
  BY DEF Inv, InstallMarks, L, Acquiring, Acquired, Accepted
<1>2. /\ AttemptSame /\ UNCHANGED <<stored, contextFile, contextMem, fresh, freshMem>>
      /\ Goto(LoginProc, x) /\ force
      /\ (marker' = IF ok THEN MarkerOf(st) ELSE marker)
      /\ states' = [states EXCEPT ![Mine] = st]
  BY DEF InstallMarks, AttemptSame, contextVars, requestVars, loginVars, history, givenUp
<1>3. reauth = Mine /\ Mine # 0 /\ creds = None
  BY <1>1, <1>2 DEF Attempts
<1>4. Mine \in 1..Len(states) /\ states[Mine] \in ReauthStates
  BY <1>1, <1>3, StateFacts DEF Types
<1>5. NewPath \in Paths
  BY <1>1, PathFacts
<1>6. /\ st \in ReauthStates /\ st.token = states[Mine].token /\ st.sha = states[Mine].sha
      /\ st.account = states[Mine].account /\ st.done = states[Mine].done
      /\ st.paths = states[Mine].paths \cup {NewPath}
  BY <1>4, <1>5 DEF ReauthStates
<1>7. x \in {"clearInstall", "discard"} /\ (x = "clearInstall" => ok)
  OBVIOUS
<1> HIDE DEF st, x
<1>8. states' \in Seq(ReauthStates) /\ Len(states') = Len(states) /\ states'[Mine] = st
  BY <1>1, <1>2, <1>4, <1>6, StateUpdate
<1>9. /\ pc' \in PCs /\ pc'[LoginProc] = x /\ \A q \in Procs \ {LoginProc} : pc'[q] = pc[q]
  BY <1>1, <1>2, <1>7, GotoFacts, Constants DEF LoginStates
<1>10. L' = x /\ Mine' = Mine
  BY <1>2, <1>9 DEF L, Mine, AttemptSame
<1>11. MarkerOf(st) \in Markers /\ MarkerOf(st) # None
       /\ MarkerOf(st).sha = st.sha /\ MarkerOf(st).paths = st.paths
  BY <1>6, Constants DEF MarkerOf, Markers, ReauthStates
<1>12. Progress'
  <2>1. fresh # None /\ stored = fresh /\ fresh.token \notin {st.token, st.sha}
    BY <1>1, <1>3, <1>6 DEF Progress
  <2>2. x = "clearInstall" => marker' = MarkerOf(st)
    BY <1>2, <1>7
  <2> QED BY <1>2, <1>7, <1>8, <1>10, <2>1, <2>2 DEF Progress
<1>13. Remembered'
  <2>1. L' # "publish" /\ reauth' = reauth /\ creds' = creds
    BY <1>2, <1>7, <1>10 DEF AttemptSame
  <2>2. ASSUME ~unmarked
        PROVE  /\ marker' # None /\ marker'.sha = marker.sha /\ marker # None
               /\ marker'.sha = st.sha /\ marker'.paths \subseteq st.paths
               /\ marker.paths \subseteq marker'.paths
    <3>1. /\ marker # None /\ marker.sha = states[Mine].sha
          /\ marker.paths \subseteq states[Mine].paths
      BY <1>1, <1>3, <2>2 DEF Remembered
    <3> QED BY <1>2, <1>6, <1>11, <3>1
  <2> QED BY <1>1, <1>2, <1>3, <1>8, <2>1, <2>2 DEF Remembered, Leftover, AttemptSame
<1>14. AttemptMove
  <2>1. L' \in Acquired \cup {"discard"} /\ L # "discard" /\ marker' \in Markers \cup {None}
    BY <1>1, <1>2, <1>7, <1>10, <1>11 DEF Acquired, Types
  <2> QED BY <1>1, <1>2, <1>3, <1>6, <1>8, <1>9, <1>12, <1>13, <2>1
          DEF AttemptMove, AttemptSame, Types
<1>15. NoneReplaced
  BY <1>2, <1>11 DEF NoneReplaced, AttemptSame
<1> QED BY <1>14, <1>15, AttemptMoveKeeps

LEMMA ClearsKeeps == ASSUME Inv, NEW bad \in SUBSET Paths, InstallClears(bad) PROVE Inv'
<1> DEFINE x == IF bad = {} THEN "publish" ELSE "discard"
<1>1. /\ Types /\ Remembered /\ Progress /\ Attempts /\ L = "clearInstall"
      /\ L \in Acquiring /\ L \in Acquired /\ L \in Accepted
  BY DEF Inv, InstallClears, L, Acquiring, Acquired, Accepted
<1>2. /\ AttemptSame /\ UNCHANGED <<marker, stored, states, fresh>>
      /\ Goto(LoginProc, x) /\ freshMem' = {} /\ contextMem' \in {{}, contextMem}
      /\ contextFile' = [q \in Paths |-> IF q \in states[Mine].paths \ bad THEN {}
                                         ELSE contextFile[q]]
  BY DEF InstallClears, ClearPaths, AttemptSame, sessionVars, requestVars, history, givenUp
<1>3. x \in {"publish", "discard"} /\ (x = "publish" => bad = {})
  OBVIOUS
<1> HIDE DEF x
<1>4. /\ pc' \in PCs /\ pc'[LoginProc] = x /\ \A q \in Procs \ {LoginProc} : pc'[q] = pc[q]
  BY <1>1, <1>2, <1>3, GotoFacts, Constants DEF LoginStates
<1>5. L' = x /\ Mine' = Mine
  BY <1>2, <1>4 DEF L, Mine, AttemptSame
<1>6. force /\ Mine # 0 /\ reauth = Mine
  BY <1>1 DEF Attempts
<1>7. /\ contextFile' \in [Paths -> SUBSET Tokens] /\ contextMem' \in SUBSET Tokens
      /\ contextMem' \subseteq contextMem
      /\ \A q \in Paths : contextFile'[q] \subseteq contextFile[q]
      /\ bad = {} => \A q \in states[Mine].paths \cap Paths : contextFile'[q] = {}
  BY <1>1, <1>2 DEF Types
<1>8. states[Mine].paths \subseteq Paths
  <2>1. Mine \in 1..Len(states)
    BY <1>1, <1>6, StateFacts DEF Types
  <2> QED BY <1>1, <2>1, StateFacts DEF ReauthStates
<1>9. Progress'
  <2>1. /\ fresh # None /\ stored = fresh /\ marker = MarkerOf(states[Mine])
        /\ fresh.token \notin {states[Mine].token, states[Mine].sha}
    BY <1>1, <1>6 DEF Progress
  <2> QED BY <1>2, <1>3, <1>5, <1>7, <1>8, <2>1 DEF Progress, MarkerOf
<1>10. Remembered'
  BY <1>1, <1>2, <1>7 DEF Remembered, Leftover, AttemptSame
<1>11. AttemptMove
  <2>1. L' \in Acquired \cup {"discard"} /\ L # "discard" /\ L' # "clearInstall"
    BY <1>1, <1>3, <1>5 DEF Acquired
  <2> QED BY <1>1, <1>2, <1>4, <1>7, <1>9, <1>10, <2>1 DEF AttemptMove, AttemptSame, Types
<1> QED BY <1>11, AttemptMoveKeeps

LEMMA NobodyCleans ==
    ASSUME Inv, reauth # 0 => states[reauth].done
    PROVE  \A p \in Procs : pc[p] \notin CleanupStates
BY DEF Inv, Cleaners

LEMMA RetryKeeps ==
    ASSUME Inv, NEW readable \in BOOLEAN, NEW ok \in BOOLEAN, Retry(readable, ok)
    PROVE  Inv' /\ NoneReplaced
<1> DEFINE previous == states[state[LoginProc]]
           found == Found(readable)
           learns == previous.sha = None /\ found # None
           t == IF learns THEN found.token ELSE previous.sha
           tok == IF learns THEN found.token ELSE previous.token
           account == IF previous.account = None /\ found # None THEN found.account
                      ELSE previous.account
           paths == previous.paths \cup {contextPath} \cup
                    IF found = None THEN {} ELSE {found.account}
           st == [previous EXCEPT !.token = tok, !.sha = t, !.account = account,
                                  !.paths = paths, !.done = FALSE, !.dirty = ~ok]
           gone == IF previous.sha = None THEN stored ELSE None
<1>1. /\ Types /\ Remembered /\ Attempts /\ Blocking /\ OneAccount /\ Condemned /\ L = "retry"
      /\ LoginProc \in Procs
  BY Constants DEF Inv, Retry, L
<1>2. /\ reauth = Mine /\ Mine # 0 /\ creds = None /\ states[Mine].done /\ force
  BY <1>1 DEF Attempts, Forced
<1>3. previous = states[reauth] /\ previous \in ReauthStates
  BY <1>1, <1>2, StateFacts DEF Mine, Types
<1>4. /\ states' = Append(states, st) /\ reauth' = Len(states) + 1
      /\ state' = [state EXCEPT ![LoginProc] = Len(states) + 1]
      /\ Goto(LoginProc, "clearContexts") /\ GiveUp(gone)
      /\ (marker' = IF ok THEN MarkerOf(st) ELSE marker) /\ creds' = creds
  <2>1. st = [previous EXCEPT
                  !.token = IF learns THEN found.token ELSE @,
                  !.sha = IF learns THEN found.token ELSE @,
                  !.account = IF @ = None /\ found # None THEN found.account ELSE @,
                  !.paths = @ \cup {contextPath} \cup
                            IF found = None THEN {} ELSE {found.account},
                  !.done = FALSE, !.dirty = ~ok]
    BY <1>3 DEF ReauthStates
  <2> QED BY <2>1 DEF Retry
<1>5. /\ UNCHANGED <<stored, contextFile, sessionGeneration, generation, token, force,
                     fresh, freshMem, condemned, configured, accountID, contextPath,
                     contextMem>>
      /\ created' = TRUE
  BY DEF Retry, contextVars
<1>6. /\ stored # None =>
           stored \in Credentials /\ stored.token \in Tokens /\ stored.account \in Accounts
      /\ found \in {stored, None} /\ (readable => found = stored)
      /\ unmarked' \in BOOLEAN /\ (~unmarked' => ok /\ ~unmarked)
      /\ ~unmarked' /\ previous.sha = None => found = stored
  <2>1. MarkerFrom(readable, previous.sha = None, ok)
    BY DEF Retry
  <2> QED BY <1>1, <2>1, CredentialFacts DEF Types, Found, MarkerFrom
<1> HIDE DEF found
<1>7. /\ t \in Tokens \cup {None} /\ tok \in Tokens \cup {None} /\ account \in Paths
      /\ paths \subseteq Paths /\ previous.paths \subseteq paths
      /\ gone \in Credentials \cup {None}
      /\ ~unmarked' /\ gone = None => t = previous.sha
      /\ ~unmarked' /\ gone # None =>
           gone = stored /\ t = stored.token /\ stored.account \in paths
      /\ accountID # None => account = accountID
  <2>1. /\ previous.sha \in Tokens \cup {None} /\ previous.token \in Tokens \cup {None}
        /\ previous.account \in Paths /\ previous.paths \subseteq Paths
        /\ contextPath \in Paths /\ (accountID # None => previous.account = accountID)
    BY <1>1, <1>2, <1>3 DEF ReauthStates, Types, OneAccount
  <2> HIDE DEF previous
  <2>2. t \in Tokens \cup {None} /\ tok \in Tokens \cup {None} /\ account \in Paths
    BY <1>6, <2>1, Constants
  <2>3. paths \subseteq Paths /\ previous.paths \subseteq paths
    BY <1>6, <2>1, Constants
  <2>4. /\ ~unmarked' /\ gone = None => t = previous.sha
        /\ ~unmarked' /\ gone # None =>
             gone = stored /\ t = stored.token /\ stored.account \in paths
    BY <1>6
  <2>5. gone \in Credentials \cup {None}
    BY <1>6
  <2> QED BY <2>1, <2>2, <2>3, <2>4, <2>5
<1>8. /\ st \in ReauthStates /\ st.done = FALSE /\ st.sha = t /\ st.paths = paths
      /\ st.account = account
  <2> HIDE DEF t, tok, account, paths, previous
  <2> QED BY <1>3, <1>7 DEF ReauthStates
<1> HIDE DEF st, learns, t, tok, account, paths, previous, gone
<1>9. /\ invalidated' \subseteq Credentials /\ owed' \in Tokens \cup {None}
      /\ owed' = IF gone = None THEN owed ELSE gone.token
      /\ \A d \in invalidated' : d \in invalidated \/ (gone # None /\ d = gone)
  <2>1. gone # None => gone \in Credentials /\ gone.token \in Tokens
    BY <1>7, CredentialFacts
  <2> QED BY <1>1, <1>4, <2>1 DEF GiveUp, givenUp, Types
<1>10. ASSUME ~unmarked'
       PROVE  /\ owed' # None => st.sha = owed'
              /\ \A x \in Paths : Leftover(x, contextFile[x])' => x \in st.paths
  <2>1. /\ marker # None /\ marker.sha = previous.sha /\ marker.paths \subseteq previous.paths
        /\ owed # None => marker.sha = owed
    BY <1>1, <1>2, <1>3, <1>6, <1>10 DEF Remembered
  <2>2. owed' # None => st.sha = owed'
    BY <1>7, <1>8, <1>9, <1>10, <2>1
  <2>3. ASSUME NEW x \in Paths, Leftover(x, contextFile[x])' PROVE x \in st.paths
    <3>1. PICK d \in invalidated' : d.account = x /\ d.token \in contextFile[x]
      BY <1>5, <2>3 DEF Leftover
    <3>2. CASE gone # None /\ d = gone
      BY <1>7, <1>8, <1>10, <3>1, <3>2
    <3>3. CASE d \in invalidated
      <4>1. x \in marker.paths
        BY <1>1, <1>6, <1>10, <3>1, <3>3 DEF Leftover, Remembered
      <4> QED BY <1>7, <1>8, <2>1, <4>1
    <3> QED BY <1>9, <3>2, <3>3
  <2> QED BY <2>2, <2>3
<1>11. \A q \in Procs : pc[q] \notin CleanupStates
  BY <1>2, NobodyCleans
<1>12. /\ accountID' \in Paths /\ contextPath' = accountID' /\ configured \in {None, accountID'}
       /\ contextMem' \in SUBSET Tokens /\ (accountID' # None => st.account = accountID')
       /\ sessionGeneration \in condemned \cup {0}
  BY <1>1, <1>5, <1>7, <1>8 DEF Types, OneAccount, Condemned
<1>13. created' = created \/ (created' = TRUE /\ force)
  BY <1>2, <1>5
<1>14. Replaces(LoginProc, st, "clearContexts", ok)
  BY <1>2, <1>4, <1>5, <1>6, <1>8, <1>9, <1>10, <1>11, <1>12, <1>13 DEF Replaces
<1> QED BY <1>1, <1>14, ReplaceKeeps

----------------------------------------------------------------------------
(***************************************************************************)
(* Installing the new session.                                             *)
(***************************************************************************)
LEMMA PublishFacts ==
    ASSUME Inv, L = "publish", reauth = Mine
    PROVE  /\ fresh \in Credentials /\ stored = fresh
           /\ Mine = 0 => marker = None
           /\ Mine # 0 => /\ marker = MarkerOf(states[Mine])
                          /\ fresh.token \notin {states[Mine].token, states[Mine].sha}
                          /\ \A q \in states[Mine].paths : contextFile[q] = {}
<1>1. Types /\ Progress /\ Blocking /\ L \in Acquired /\ L \in Accepted
  BY DEF Inv, Acquired, Accepted
<1> QED BY <1>1 DEF Progress, Types, Blocking

LEMMA PublishKeeps == ASSUME Inv, NEW ok \in BOOLEAN, Publish(ok) PROVE Inv'
<1>1. /\ Types /\ Attempts /\ L = "publish" /\ L \in Acquiring /\ L \in Accepted
      /\ reauth = Mine /\ creds = None /\ (Mine # 0 => states[Mine].done)
      /\ LoginProc \in Procs /\ OneAccount /\ Remembered /\ Blocking
  <2>1. L = "publish" /\ Inv
    BY DEF Publish, L
  <2> QED BY <2>1, Constants DEF Inv, Acquiring, Acquired, Accepted, Attempts
<1>2. UNCHANGED <<stored, contextFile, states, configured, generation, token, state, force,
                  created, fresh, freshMem, condemned, unmarked>>
  BY DEF Publish, requestVars, loginVars
<1>3. ~(marker # None /\ reauth = 0)
  BY <1>1 DEF Blocking
<1>4. CASE ~ok
  <2>1. /\ Goto(LoginProc, "discard")
        /\ UNCHANGED <<marker, creds, contextPath, contextMem, accountID,
                       sessionGeneration, reauth, invalidated, owed>>
    BY <1>4 DEF Publish, givenUp
  <2>2. /\ pc' \in PCs /\ pc'[LoginProc] = "discard"
        /\ \A q \in Procs \ {LoginProc} : pc'[q] = pc[q]
    BY <1>1, <2>1, GotoFacts DEF LoginStates
  <2>3. LoginFrame /\ L' = "discard"
    BY <1>1, <1>2, <2>1, <2>2 DEF LoginFrame, OthersKeep, LocalTypes, LoginStates, L, Types
  <2>4. unmarked' \in BOOLEAN /\ (unmarked => unmarked')
    BY <1>1, <1>2 DEF Types
  <2> QED BY <1>1, <1>2, <1>3, <2>3, <2>4, PlainMove, LoginMoveKeeps DEF LoginStates
<1>5. CASE ok
  <2>1. /\ Goto(LoginProc, "idle") /\ RequestsDrained
        /\ (marker' = IF Mine = 0 THEN marker ELSE None)
        /\ creds' = fresh /\ contextPath' = NewPath /\ contextMem' = freshMem
        /\ accountID' = NewAccount /\ sessionGeneration' = sessionGeneration + 1
        /\ reauth' = 0 /\ owed' = None /\ invalidated' = invalidated \ {fresh}
    BY <1>1, <1>5 DEF Publish
  <2>2. /\ pc' \in PCs /\ pc'[LoginProc] = "idle"
        /\ \A q \in Procs \ {LoginProc} : pc'[q] = pc[q]
    BY <1>1, <2>1, GotoFacts DEF LoginStates
  <2>3. L' = "idle" /\ marker' = None
    BY <1>1, <1>3, <2>1, <2>2 DEF L
  <2>4. /\ NewPath \in Paths /\ NewPath = NewAccount /\ NewAccount = fresh.account
        /\ fresh \in Credentials /\ configured \in {None, NewAccount} /\ fresh # None
    BY <1>1, PathFacts, CredentialFacts
  <2>5. \A r \in Requesters : r \in Procs /\ pc'[r] = pc[r]
    BY <2>2, Constants
  <2>6. Types'
    <3>1. /\ reauth' \in 0..Len(states') /\ sessionGeneration' \in Nat
          /\ \A r \in Requesters : pc'[r] \in RequesterStates \cup CleanupStates
      BY <1>1, <1>2, <2>1, <2>5, StateFacts DEF Types
    <3>2. /\ marker' \in Markers \cup {None} /\ L' \in LoginStates
          /\ invalidated' \subseteq Credentials /\ owed' \in Tokens \cup {None}
      BY <1>1, <2>1, <2>3 DEF Types, LoginStates
    <3> QED BY <1>1, <1>2, <2>1, <2>2, <2>4, <3>1, <3>2 DEF Types, PCs
  <2>7. Requests'
    <3> SUFFICES ASSUME NEW r \in Requesters PROVE Informed(r)'
      BY DEF Requests
    <3>1. Informed(r) /\ generation[r] \in Nat /\ sessionGeneration \in Nat
          /\ pc'[r] = pc[r] /\ pc[r] # "inflight"
      BY <1>1, <2>1, <2>5 DEF Inv, Requests, Types, RequestsDrained
    <3> QED BY <1>2, <2>1, <3>1 DEF Informed
  <2>8. Blocking' /\ Progress' /\ OneAccount' /\ Condemned'
    BY <1>2, <2>1, <2>3, <2>4 DEF Blocking, Progress, Acquired, Accepted, OneAccount,
                                  Condemned, StaysReady
  <2>9. Cleaners'
    <3>1. \A q \in Procs : pc[q] \notin CleanupStates
      BY <1>1, NobodyCleans
    <3>2. \A q \in Procs : pc'[q] \notin CleanupStates
      BY <2>2, <3>1 DEF CleanupStates
    <3> QED BY <3>2 DEF Cleaners
  <2>10. Attempts'
    <3>1. ~force' => ~created'
      BY <1>1, <1>2 DEF Attempts
    <3> QED BY <2>3, <3>1 DEF Attempts, Acquiring, Acquired, Forced
  <2>11. Remembered'
    <3>1. creds' # None => creds' \notin invalidated'
      BY <2>1
    <3>2. ASSUME ~unmarked, NEW x \in Paths PROVE ~Leftover(x, contextFile[x])'
      <4>1. SUFFICES ASSUME NEW c \in invalidated, c.account = x, c.token \in contextFile[x]
                     PROVE  FALSE
        BY <1>2, <2>1 DEF Leftover
      <4>2. marker # None /\ x \in marker.paths
        BY <1>1, <3>2, <4>1 DEF Remembered, Leftover
      <4>3. Mine # 0 /\ x \in states[Mine].paths
        BY <1>1, <4>2, PublishFacts DEF MarkerOf
      <4> QED BY <1>1, <4>1, <4>3, PublishFacts
    <3>3. ASSUME ~unmarked PROVE ~Leftover(contextPath, contextMem)'
      BY <1>1, <2>1, <3>3 DEF Remembered, Leftover
    <3> QED BY <1>2, <2>1, <2>3, <3>1, <3>2, <3>3 DEF Remembered
  <2> QED BY <2>6, <2>7, <2>8, <2>9, <2>10, <2>11 DEF Inv
<1> QED BY <1>4, <1>5

----------------------------------------------------------------------------
LEMMA InvNext == ASSUME Inv, [Next]_vars PROVE Inv'
<1>1. CASE \E r \in Requesters : Request(r)
  <2>1. PICK r \in Requesters : Request(r)
    BY <1>1
  <2>2. CASE \/ Bind(r) \/ Finish(r) \/ BeginAuthenticatedRequest(r)
             \/ AnswerOK(r) \/ AnswerError(r) \/ AnswerExpired(r) \/ Released(r)
    BY <2>2, RequestMoves, RequestMoveKeeps
  <2>3. CASE \E ok \in BOOLEAN : PersistContextToken(r, ok)
    BY <2>3, PersistKeeps
  <2> QED BY <2>1, <2>2, <2>3 DEF Request
<1>2. CASE \E p \in Procs : Cleanup(p)
  <2>1. PICK p \in Procs : Cleanup(p)
    BY <1>2
  <2>2. CASE \E ok \in BOOLEAN : RequireReauthentication(p, ok)
    <3>1. PICK ok \in BOOLEAN : RequireReauthentication(p, ok)
      BY <2>2
    <3>2. CASE ~TooLate(p)
      BY <3>1, <3>2, RequirePublishes
    <3>3. CASE TooLate(p) /\ p = LoginProc
      BY <3>1, <3>3, LateLoginMoves, LoginMoveKeeps
    <3>4. CASE TooLate(p) /\ p # LoginProc
      BY <3>1, <3>4, LateRequestMoves, RequestMoveKeeps, Constants
    <3> QED BY <3>2, <3>3, <3>4
  <2>3. CASE \/ CancelSession(p) \/ \E bad \in SUBSET Paths : ClearContexts(p, bad)
             \/ \E ok \in BOOLEAN : ClearCreds(p, ok)
             \/ CloseState(p)
    BY <2>3, CleanupMoves, CleanupMoveKeeps
  <2> QED BY <2>1, <2>2, <2>3 DEF Cleanup
<1>3. CASE \E forced \in BOOLEAN : BeginLogin(forced)
  BY <1>3, BeginMove, LoginMoveKeeps
<1>4. CASE Restore
  <2>1. CASE RestoreCheck
    BY <2>1, RestoreMoves, LoginMoveKeeps
  <2>2. CASE \E ok \in BOOLEAN : LoadMarker(ok)
    BY <2>2, RestoreMoves, LoginMoveKeeps
  <2>3. CASE \E ok \in BOOLEAN : AdoptMarker(ok)
    <3>1. PICK ok \in BOOLEAN : AdoptMarker(ok)
      BY <2>3
    <3>2. CASE ok /\ Adopts
      <4>1. ok = TRUE
        BY <3>2
      <4> QED BY <3>1, <3>2, <4>1, AdoptPublishes
    <3>3. CASE ~(ok /\ Adopts)
      BY <3>1, <3>3, RestoreMoves, LoginMoveKeeps
    <3> QED BY <3>2, <3>3
  <2>4. CASE \E readable, ok \in BOOLEAN : RequireWithoutCredentials(readable, ok)
    BY <2>4, WithoutPublishes, LateLoginMoves, LoginMoveKeeps
  <2> QED BY <1>4, <2>1, <2>2, <2>3, <2>4 DEF Restore
<1>5. CASE Attempt
  <2>1. CASE Decide \/ Prepare \/ Prepared \/ AcquireStored \/ AcquireFails \/ CheckFresh
    BY <2>1, DecideMove, PrepareMove, PreparedMove, AcquireMoves, CheckMove, LoginMoveKeeps
  <2>2. CASE \E c \in Credentials, readable, saved \in BOOLEAN :
                AcquireConfirmed(c, readable, saved)
    BY <2>2, ConfirmedKeeps
  <2>3. CASE \E ok \in BOOLEAN : InstallLoads(ok) \/ InstallMarks(ok)
                                 \/ Publish(ok) \/ Discard(ok)
    BY <2>3, LoadsKeeps, MarksKeeps, PublishKeeps, DiscardKeeps
  <2>4. CASE \E bad \in SUBSET Paths : InstallClears(bad)
    BY <2>4, ClearsKeeps
  <2>5. CASE \E readable, ok \in BOOLEAN : Retry(readable, ok)
    BY <2>5, RetryKeeps
  <2> QED BY <1>5, <2>1, <2>2, <2>3, <2>4, <2>5 DEF Attempt
<1>6. CASE StopRun \/ UNCHANGED vars
  BY <1>6, IdleKeeps
<1>7. CASE Crash
  BY <1>7, CrashKeeps
<1> QED BY <1>1, <1>2, <1>3, <1>4, <1>5, <1>6, <1>7 DEF Next

LEMMA Invariance == Spec => []Inv
<1>1. Init => Inv
  BY InvInit
<1>2. Inv /\ [Next]_vars => Inv'
  BY InvNext
<1> QED BY <1>1, <1>2, PTL DEF Spec

(***************************************************************************)
(* The theorems.                                                           *)
(***************************************************************************)

\* A published session stays usable until its own generation was answered with
\* -14 or the user asked for a new login: a late answer to an older session
\* never takes it down (requireReauthenticationForSession).
THEOREM LateAnswersHarmless == Spec => []StaysReady
<1>1. Inv => StaysReady
  BY DEF Inv, Condemned
<1> QED BY <1>1, Invariance, PTL

\* While the marker is on disk there is no session, whatever was interrupted.
THEOREM FailsClosed == Spec => []MarkerBlocks
<1>1. Inv => MarkerBlocks
  BY DEF Inv, Blocking, MarkerBlocks
<1> QED BY <1>1, Invariance, PTL

\* A session holds no context token of a session of its account that was given
\* up, as long as every marker could be written and read, and with it the
\* credentials of which only the file knew (auth.LoadCredentials in
\* requireReauthenticationWithoutCredentials and retryReauthenticationCleanup).
THEOREM ContextsFresh == Spec => []FreshContexts
<1>1. ASSUME Inv, creds # None, ~unmarked, NEW c \in invalidated, c.account = creds.account
      PROVE  c.token \notin contextMem
  <2>1. marker = None /\ creds.account = contextPath
    BY <1>1 DEF Inv, Blocking, OneAccount
  <2> QED BY <1>1, <2>1 DEF Inv, Remembered, Leftover
<1>2. Inv => FreshContexts
  BY <1>1 DEF FreshContexts
<1> QED BY <1>2, Invariance, PTL

\* Installing credentials waits for the requests of the session before.
THEOREM RequestsDrain == Spec => []InFlightCurrent
<1>1. Inv => InFlightCurrent
  BY DEF Inv, Requests, Informed, InFlightCurrent
<1> QED BY <1>1, Invariance, PTL

\* Reauthenticate works on the state that b.reauth holds until it returns.
THEOREM StateStays == Spec => []ReauthenticateHasState
<1>1. Inv => ReauthenticateHasState
  BY DEF Inv, Attempts, ReauthenticateHasState, Acquiring, Acquired, L
<1> QED BY <1>1, Invariance, PTL

\* Only Publish removes a marker or installs credentials.
LEMMA OnlyPublish ==
    ASSUME Inv, [Next]_vars, ~NoneReplaced
    PROVE  /\ L = "publish" /\ reauth = Mine /\ creds' = fresh
           /\ (marker' = IF Mine = 0 THEN marker ELSE None)
<1> SUFFICES \/ NoneReplaced \/ \E ok \in BOOLEAN : Publish(ok) /\ reauth = Mine /\ ok
  BY DEF Publish, L
<1> USE DEF files, sessionVars, NoneReplaced
<1>1. CASE \E r \in Requesters : Request(r)
  <2>1. PICK r \in Requesters : Request(r)
    BY <1>1
  <2>2. CASE \E ok \in BOOLEAN : PersistContextToken(r, ok)
    BY <2>2 DEF PersistContextToken
  <2>3. CASE ~\E ok \in BOOLEAN : PersistContextToken(r, ok)
    BY <2>1, <2>3, RequestMoves DEF Request, RequestMove, shared
  <2> QED BY <2>2, <2>3
<1>2. CASE \E p \in Procs : Cleanup(p)
  <2>1. PICK p \in Procs : Cleanup(p)
    BY <1>2
  <2>2. CASE \E ok \in BOOLEAN : RequireReauthentication(p, ok)
    <3>1. PICK ok \in BOOLEAN : RequireReauthentication(p, ok)
      BY <2>2
    <3>2. CASE ~TooLate(p)
      BY <3>1, <3>2, RequirePublishes
    <3>3. CASE TooLate(p)
      BY <3>1, <3>3 DEF RequireReauthentication, TooLate
    <3> QED BY <3>2, <3>3
  <2>3. CASE ~\E ok \in BOOLEAN : RequireReauthentication(p, ok)
    BY <2>1, <2>3, CleanupMoves DEF Cleanup, CleanupMove
  <2> QED BY <2>2, <2>3
<1>3. CASE \E forced \in BOOLEAN : BeginLogin(forced)
  BY <1>3 DEF BeginLogin
<1>4. CASE Restore
  <2>1. CASE RestoreCheck \/ \E ok \in BOOLEAN : LoadMarker(ok)
    BY <2>1 DEF RestoreCheck, LoadMarker, LoginMoves
  <2>2. CASE \E ok \in BOOLEAN : AdoptMarker(ok)
    <3>1. PICK ok \in BOOLEAN : AdoptMarker(ok)
      BY <2>2
    <3>2. CASE ok /\ Adopts
      <4>1. ok = TRUE
        BY <3>2
      <4> QED BY <3>1, <3>2, <4>1, AdoptPublishes
    <3>3. CASE ~(ok /\ Adopts)
      BY <3>1, <3>3, RestoreMoves DEF LoginMove
    <3> QED BY <3>2, <3>3
  <2>3. CASE \E readable, ok \in BOOLEAN : RequireWithoutCredentials(readable, ok)
    <3>1. PICK readable \in BOOLEAN, ok \in BOOLEAN : RequireWithoutCredentials(readable, ok)
      BY <2>3
    <3>2. CASE reauth = 0
      BY <3>1, <3>2, WithoutPublishes
    <3>3. CASE reauth # 0
      BY <3>1, <3>3, LateLoginMoves DEF LoginMove
    <3> QED BY <3>2, <3>3
  <2> QED BY <1>4, <2>1, <2>2, <2>3 DEF Restore
<1>5. CASE Attempt
  <2>1. CASE Decide \/ Prepare \/ Prepared \/ AcquireStored \/ AcquireFails \/ CheckFresh
    BY <2>1, DecideMove, PrepareMove, PreparedMove, AcquireMoves, CheckMove DEF LoginMove
  <2>2. CASE \E c \in Credentials, readable, saved \in BOOLEAN :
                AcquireConfirmed(c, readable, saved)
    BY <2>2 DEF AcquireConfirmed
  <2>3. CASE \/ \E readable, ok \in BOOLEAN : Retry(readable, ok)
             \/ \E ok \in BOOLEAN : InstallMarks(ok)
    BY <2>3, RetryKeeps, MarksKeeps
  <2>4. CASE \E ok \in BOOLEAN : InstallLoads(ok) \/ Discard(ok)
    BY <2>4 DEF InstallLoads, Discard
  <2>5. CASE \E ok \in BOOLEAN : Publish(ok)
    BY <2>5 DEF Publish
  <2>6. CASE \E bad \in SUBSET Paths : InstallClears(bad)
    BY <2>6 DEF InstallClears
  <2> QED BY <1>5, <2>1, <2>2, <2>3, <2>4, <2>5, <2>6 DEF Attempt
<1>6. CASE StopRun \/ UNCHANGED vars
  BY <1>6 DEF StopRun, vars
<1>7. CASE Crash
  BY <1>7 DEF Crash, Start
<1> QED BY <1>1, <1>2, <1>3, <1>4, <1>5, <1>6, <1>7 DEF Next

\* The marker goes last: a login removes it only with other credentials on disk
\* and every context file it names empty.
THEOREM MarkerLast == Spec => MarkerRemovedLast
<1>1. ASSUME Inv, [Next]_vars, marker # None, marker' = None
      PROVE  /\ stored # None /\ stored.token # marker.sha
             /\ \A q \in marker.paths : contextFile[q] = {}
  <2>1. L = "publish" /\ reauth = Mine /\ Mine # 0
    BY <1>1, OnlyPublish DEF NoneReplaced
  <2> QED BY <1>1, <2>1, PublishFacts, CredentialFacts DEF MarkerOf
<1>2. Inv /\ [Next]_vars =>
         [marker # None /\ marker' = None
          => /\ stored # None /\ stored.token # marker.sha
             /\ \A q \in marker.paths : contextFile[q] = {}]_vars
  BY <1>1
<1> QED BY <1>2, Invariance, PTL DEF Spec, MarkerRemovedLast

\* A session that was given up is not followed by one with the same token, as
\* long as every marker could be written and read, and with it the credentials
\* of which only the file knew.
THEOREM TokensReplaced == Spec => RejectedNotReused
<1>1. ASSUME Inv, [Next]_vars, creds = None, creds' # None, ~unmarked
      PROVE  creds'.token # owed
  <2>1. L = "publish" /\ reauth = Mine /\ creds' = fresh
    BY <1>1, OnlyPublish DEF NoneReplaced
  <2>2. fresh.token \in Tokens
    BY <1>1, <2>1, PublishFacts, CredentialFacts
  <2>3. owed # None => marker # None /\ marker.sha = owed
    BY <1>1 DEF Inv, Remembered
  <2> QED BY <1>1, <2>1, <2>2, <2>3, PublishFacts, Constants DEF MarkerOf
<1>2. Inv /\ [Next]_vars =>
         [creds = None /\ creds' # None /\ ~unmarked => creds'.token # owed]_vars
  BY <1>1
<1> QED BY <1>2, Invariance, PTL DEF Spec, RejectedNotReused

(***************************************************************************)
(* The lock.  b.sessionMu is held exactly by the goroutine that is between *)
(* publishing a reauthState and the end of its cleanup, or that installs a *)
(* session.                                                                *)
(***************************************************************************)
Locked == {"cancel", "clearContexts", "clearCreds", "clearInstall", "publish"}

MuHeld == /\ sessionMu \in Procs \cup {None}
          /\ \A p \in Procs : sessionMu = p <=> pc[p] \in Locked

\* p goes to x, and takes or releases the lock if that is what its place says.
MuMove(p, x) ==
    /\ Goto(p, x)
    /\ \/ sessionMu' = sessionMu /\ (pc[p] \in Locked <=> x \in Locked)
       \/ sessionMu = None /\ sessionMu' = p /\ x \in Locked
       \/ sessionMu' = None /\ pc[p] \in Locked /\ x \notin Locked

LEMMA MuMoveKeeps ==
    ASSUME Types, MuHeld, NEW p \in Procs, NEW x, MuMove(p, x)
    PROVE  MuHeld'
<1>1. /\ pc' = [pc EXCEPT ![p] = x] /\ pc'[p] = x
      /\ \A q \in Procs \ {p} : pc'[q] = pc[q]
  BY DEF MuMove, Goto, Types
<1>2. CASE sessionMu' = sessionMu /\ (pc[p] \in Locked <=> x \in Locked)
  BY <1>1, <1>2 DEF MuHeld
<1>3. CASE sessionMu = None /\ sessionMu' = p /\ x \in Locked
  BY <1>1, <1>3, Constants DEF MuHeld
<1>4. CASE sessionMu' = None /\ pc[p] \in Locked /\ x \notin Locked
  BY <1>1, <1>4, Constants DEF MuHeld
<1> QED BY <1>2, <1>3, <1>4 DEF MuMove

\* A reauthState is published with the lock free, and held from then on.
LEMMA BlockMoves ==
    ASSUME sessionMu = None, NEW p \in Procs, NEW st, NEW ok, Block(p, st, ok)
    PROVE  MuMove(p, "cancel")
BY DEF Block, MuMove, Locked

LEMMA RequestMu ==
    ASSUME Types, MuHeld, NEW r \in Requesters, Request(r)
    PROVE  MuHeld'
<1> USE DEF Locked, MuMove
<1>1. r \in Procs
  BY Constants
<1>2. CASE Bind(r)
  <2>1. MuMove(r, "bound")
    BY <1>2 DEF Bind
  <2> QED BY <1>1, <2>1, MuMoveKeeps
<1>3. CASE Finish(r)
  <2>1. MuMove(r, "idle")
    BY <1>3 DEF Finish
  <2> QED BY <1>1, <2>1, MuMoveKeeps
<1>4. CASE BeginAuthenticatedRequest(r)
  <2>1. SessionError(r, "inflight") \notin Locked
    BY DEF SessionError
  <2>2. MuMove(r, SessionError(r, "inflight"))
    BY <1>4, <2>1 DEF BeginAuthenticatedRequest
  <2> QED BY <1>1, <2>2, MuMoveKeeps
<1>5. CASE AnswerOK(r)
  <2>1. MuMove(r, "bound")
    BY <1>5 DEF AnswerOK
  <2> QED BY <1>1, <2>1, MuMoveKeeps
<1>6. CASE AnswerError(r)
  <2>1. SessionError(r, "bound") \notin Locked
    BY DEF SessionError
  <2>2. MuMove(r, SessionError(r, "bound"))
    BY <1>6, <2>1 DEF AnswerError
  <2> QED BY <1>1, <2>2, MuMoveKeeps
<1>7. CASE AnswerExpired(r)
  <2>1. MuMove(r, "expired")
    BY <1>7 DEF AnswerExpired
  <2> QED BY <1>1, <2>1, MuMoveKeeps
<1>8. CASE Released(r)
  <2>1. MuMove(r, "idle")
    BY <1>8 DEF Released
  <2> QED BY <1>1, <2>1, MuMoveKeeps
<1>9. CASE \E ok \in BOOLEAN : PersistContextToken(r, ok)
  BY <1>9 DEF PersistContextToken, MuHeld
<1> QED BY <1>2, <1>3, <1>4, <1>5, <1>6, <1>7, <1>8, <1>9 DEF Request

LEMMA CleanupMu ==
    ASSUME Types, MuHeld, NEW p \in Procs, Cleanup(p)
    PROVE  MuHeld'
<1>0. AfterCall(p) \notin Locked
  BY DEF AfterCall, Locked
<1>1. CASE \E ok \in BOOLEAN : RequireReauthentication(p, ok)
  <2>1. PICK ok \in BOOLEAN : RequireReauthentication(p, ok)
    BY <1>1
  <2>2. CASE ~TooLate(p)
    <3>1. PICK st : Block(p, st, ok)
      BY <2>1, <2>2 DEF RequireReauthentication, TooLate
    <3>2. MuMove(p, "cancel")
      BY <2>1, <3>1, BlockMoves DEF RequireReauthentication
    <3> QED BY <3>2, MuMoveKeeps
  <2>3. CASE TooLate(p)
    <3> DEFINE x == IF p # LoginProc /\ reauth # 0 /\ ~Stale(p)
                    THEN "waiting" ELSE AfterCall(p)
    <3>1. x \notin Locked
      BY <1>0 DEF Locked
    <3>2. pc[p] = "expired" /\ Goto(p, x) /\ sessionMu' = sessionMu
      BY <2>1, <2>3 DEF RequireReauthentication, TooLate
    <3>3. MuMove(p, x)
      BY <3>1, <3>2 DEF MuMove, Locked
    <3> QED BY <3>3, MuMoveKeeps
  <2> QED BY <2>2, <2>3
<1>2. CASE CancelSession(p)
  <2>1. MuMove(p, "clearContexts")
    BY <1>2 DEF CancelSession, MuMove, Locked
  <2> QED BY <2>1, MuMoveKeeps
<1>3. CASE \E bad \in SUBSET Paths : ClearContexts(p, bad)
  <2>1. MuMove(p, "clearCreds")
    BY <1>3 DEF ClearContexts, MuMove, Locked
  <2> QED BY <2>1, MuMoveKeeps
<1>4. CASE \E ok \in BOOLEAN : ClearCreds(p, ok)
  <2>1. MuMove(p, "close")
    BY <1>4 DEF ClearCreds, MuMove, Locked
  <2> QED BY <2>1, MuMoveKeeps
<1>5. CASE CloseState(p)
  <2>1. MuMove(p, AfterCall(p))
    BY <1>0, <1>5 DEF CloseState, MuMove, Locked
  <2> QED BY <2>1, MuMoveKeeps
<1> QED BY <1>1, <1>2, <1>3, <1>4, <1>5 DEF Cleanup

\* A step of LoginMoves leaves the lock alone.
LEMMA LoginMovesMu ==
    ASSUME Types, MuHeld, L \notin Locked, NEW x, x \notin Locked, LoginMoves(x)
    PROVE  MuHeld'
<1>1. MuMove(LoginProc, x)
  BY DEF LoginMoves, MuMove, L
<1> QED BY <1>1, MuMoveKeeps, Constants

LEMMA RestoreMu ==
    ASSUME Types, MuHeld, Restore
    PROVE  MuHeld'
<1>1. CASE RestoreCheck
  BY <1>1, LoginMovesMu DEF RestoreCheck, L, Locked
<1>2. CASE \E ok \in BOOLEAN : LoadMarker(ok)
  BY <1>2, LoginMovesMu DEF LoadMarker, L, Locked
<1>3. CASE \E ok \in BOOLEAN : AdoptMarker(ok)
  <2>1. PICK ok \in BOOLEAN : AdoptMarker(ok)
    BY <1>3
  <2>2. L \notin Locked /\ sessionMu = None
    BY <2>1 DEF AdoptMarker, L, Locked
  <2>3. LoginMoves("decide") \/ LoginMoves("idle") \/ \E st : Block(LoginProc, st, TRUE)
    BY <2>1 DEF AdoptMarker
  <2>4. CASE LoginMoves("decide") \/ LoginMoves("idle")
    BY <2>2, <2>4, LoginMovesMu DEF Locked
  <2>5. CASE \E st : Block(LoginProc, st, TRUE)
    BY <2>2, <2>5, BlockMoves, MuMoveKeeps, Constants
  <2> QED BY <2>3, <2>4, <2>5
<1>4. CASE \E readable, ok \in BOOLEAN : RequireWithoutCredentials(readable, ok)
  <2>1. PICK readable \in BOOLEAN, ok \in BOOLEAN : RequireWithoutCredentials(readable, ok)
    BY <1>4
  <2>2. L \notin Locked /\ sessionMu = None
    BY <2>1 DEF RequireWithoutCredentials, L, Locked
  <2>3. CASE reauth = 0
    <3>1. PICK st : Block(LoginProc, st, ok)
      BY <2>1, <2>3 DEF RequireWithoutCredentials
    <3> QED BY <2>2, <3>1, BlockMoves, MuMoveKeeps, Constants
  <2>4. CASE reauth # 0
    <3>1. MuMove(LoginProc, AfterCall(LoginProc))
      BY <2>1, <2>2, <2>4 DEF RequireWithoutCredentials, MuMove, AfterCall, L, Locked
    <3> QED BY <3>1, MuMoveKeeps, Constants
  <2> QED BY <2>3, <2>4
<1> QED BY <1>1, <1>2, <1>3, <1>4 DEF Restore

LEMMA AttemptMu ==
    ASSUME Types, MuHeld, Attempt
    PROVE  MuHeld'
<1> USE DEF Locked
<1>1. CASE Decide
  <2>1. L \notin Locked
    BY <1>1 DEF Decide, L
  <2>2. PICK x \in {"prepare", "idle", "acquire"} : LoginMoves(x)
    BY <1>1 DEF Decide
  <2> QED BY <2>1, <2>2, LoginMovesMu
<1>2. CASE Prepare
  <2>1. PICK x \in {"prepared", "expired", "without"} : Goto(LoginProc, x)
    BY <1>2 DEF Prepare
  <2>2. MuMove(LoginProc, x)
    BY <1>2, <2>1 DEF Prepare, MuMove
  <2> QED BY <2>2, MuMoveKeeps, Constants
<1>3. CASE Prepared
  <2>1. L \notin Locked
    BY <1>3 DEF Prepared, L
  <2>2. PICK x \in {"acquire", "idle", "retry"} : LoginMoves(x)
    BY <1>3 DEF Prepared
  <2> QED BY <2>1, <2>2, LoginMovesMu
<1>4. CASE AcquireStored \/ AcquireFails
  <2>1. L \notin Locked
    BY <1>4 DEF AcquireStored, AcquireFails, L
  <2>2. LoginMoves("check") \/ LoginMoves("idle")
    BY <1>4 DEF AcquireStored, AcquireFails
  <2> QED BY <2>1, <2>2, LoginMovesMu
<1>5. CASE CheckFresh
  <2>1. L \notin Locked
    BY <1>5 DEF CheckFresh, L
  <2>2. PICK x \in {"discard", "install"} : LoginMoves(x)
    BY <1>5 DEF CheckFresh
  <2> QED BY <2>1, <2>2, LoginMovesMu
<1>6. CASE \E c \in Credentials, readable, saved \in BOOLEAN :
              AcquireConfirmed(c, readable, saved)
  <2>1. PICK x \in {"check", "idle"} : Goto(LoginProc, x)
    BY <1>6 DEF AcquireConfirmed
  <2>2. MuMove(LoginProc, x)
    BY <1>6, <2>1 DEF AcquireConfirmed, MuMove
  <2> QED BY <2>2, MuMoveKeeps, Constants
<1>7. CASE \E readable, ok \in BOOLEAN : Retry(readable, ok)
  <2>1. MuMove(LoginProc, "clearContexts")
    BY <1>7 DEF Retry, MuMove
  <2> QED BY <2>1, MuMoveKeeps, Constants
<1>8. CASE \E ok \in BOOLEAN : InstallLoads(ok)
  <2>1. MuMove(LoginProc, "publish")
    BY <1>8 DEF InstallLoads, MuMove
  <2> QED BY <2>1, MuMoveKeeps, Constants
<1>9. CASE \E ok \in BOOLEAN : InstallMarks(ok)
  <2>1. PICK ok \in BOOLEAN : InstallMarks(ok)
    BY <1>9
  <2>2. MuMove(LoginProc, IF ok THEN "clearInstall" ELSE "discard")
    BY <2>1 DEF InstallMarks, MuMove
  <2> QED BY <2>2, MuMoveKeeps, Constants
<1>10. CASE \E bad \in SUBSET Paths : InstallClears(bad)
  <2>1. PICK bad \in SUBSET Paths : InstallClears(bad)
    BY <1>10
  <2>2. sessionMu = LoginProc
    BY <2>1, Constants DEF InstallClears, MuHeld
  <2>3. MuMove(LoginProc, IF bad = {} THEN "publish" ELSE "discard")
    BY <2>1, <2>2 DEF InstallClears, MuMove
  <2> QED BY <2>3, MuMoveKeeps, Constants
<1>11. CASE \E ok \in BOOLEAN : Publish(ok)
  <2>1. PICK x \in {"idle", "discard"} : Goto(LoginProc, x)
    BY <1>11 DEF Publish
  <2>2. MuMove(LoginProc, x)
    BY <1>11, <2>1 DEF Publish, MuMove
  <2> QED BY <2>2, MuMoveKeeps, Constants
<1>12. CASE \E ok \in BOOLEAN : Discard(ok)
  <2>1. MuMove(LoginProc, "idle")
    BY <1>12 DEF Discard, MuMove
  <2> QED BY <2>1, MuMoveKeeps, Constants
<1> QED BY <1>1, <1>2, <1>3, <1>4, <1>5, <1>6, <1>7, <1>8, <1>9, <1>10, <1>11, <1>12
        DEF Attempt

LEMMA MuNext == ASSUME Inv, MuHeld, [Next]_vars PROVE MuHeld'
<1> USE DEF Inv
<1>1. CASE \E r \in Requesters : Request(r)
  BY <1>1, RequestMu
<1>2. CASE \E p \in Procs : Cleanup(p)
  BY <1>2, CleanupMu
<1>3. CASE \E forced \in BOOLEAN : BeginLogin(forced)
  <2>1. MuMove(LoginProc, "restore")
    BY <1>3 DEF BeginLogin, MuMove, Locked
  <2> QED BY <2>1, MuMoveKeeps, Constants
<1>4. CASE Restore
  BY <1>4, RestoreMu
<1>5. CASE Attempt
  BY <1>5, AttemptMu
<1>6. CASE StopRun \/ UNCHANGED vars
  BY <1>6 DEF StopRun, vars, MuHeld
<1>7. CASE Crash
  BY <1>7, Constants DEF Crash, Start, MuHeld, Locked
<1> QED BY <1>1, <1>2, <1>3, <1>4, <1>5, <1>6, <1>7 DEF Next

\* b.sessionMu is held exactly while a goroutine cleans up for a reauthState or
\* installs a session: no early return of requireReauthenticationForSession, of
\* the cleanup or of login keeps it locked or unlocks it twice, whichever file
\* operation fails, and two goroutines are never inside at once.
THEOREM LockDiscipline == Spec => []MuHeld
<1>1. Init => MuHeld
  BY Constants DEF Init, MuHeld, Locked
<1>2. Inv /\ MuHeld /\ [Next]_vars => MuHeld'
  BY MuNext
<1> QED BY <1>1, <1>2, Invariance, PTL DEF Spec

(***************************************************************************)
(* The type invariant.  A login counts at most one new generation, so the  *)
(* generations stay below the number of logins.                            *)
(***************************************************************************)
Quota ==
    /\ logins \in 0..MaxLogins /\ crashes \in 0..MaxCrashes
    /\ failures \in 0..MaxFailures
    /\ sessionGeneration <= logins
    /\ L # "idle" => sessionGeneration < logins
    /\ generation[LoginProc] \in 0..MaxLogins
    /\ condemned \in SUBSET (0..MaxLogins)
    /\ configured \in ConfiguredAccounts
    /\ sessionCancelled \in BOOLEAN /\ pollCancelled \in BOOLEAN

\* A step that counts no login and no session.
SameCount ==
    /\ UNCHANGED <<logins, crashes, sessionGeneration, configured>>
    /\ failures' \in 0..MaxFailures
    /\ L = "idle" => L' = "idle"
    /\ generation'[LoginProc] \in {generation[LoginProc], sessionGeneration}
    /\ condemned' \in {condemned} \cup
          {condemned \cup {generation[p]} : p \in Procs}
    /\ sessionCancelled' \in BOOLEAN /\ pollCancelled' \in BOOLEAN

LEMMA SameCountKeeps ==
    ASSUME Types, Requests, Quota, SameCount
    PROVE  Quota'
<1>1. MaxLogins \in Nat /\ sessionGeneration \in 0..MaxLogins
  BY SessionAssumption DEF Types, Quota
<1>2. \A p \in Procs : generation[p] \in 0..MaxLogins
  BY <1>1, Constants, SMTT(30) DEF Types, Quota, Requests, Informed
<1>3. condemned' \in SUBSET (0..MaxLogins)
  BY <1>2 DEF Quota, SameCount
<1>4. generation'[LoginProc] \in 0..MaxLogins
  BY <1>1 DEF Quota, SameCount
<1> QED BY <1>3, <1>4 DEF Quota, SameCount

\* A set of paths can be counted.
LEMMA PathsCounted == \A bad \in SUBSET Paths : Cardinality(bad) \in Nat
<1>1. IsFiniteSet(Paths)
  BY SessionAssumption, FS_AddElement DEF Paths
<1> QED BY <1>1, FS_Subset, FS_CardinalityType

LEMMA FailuresCounted ==
    ASSUME Quota, NEW n \in Nat, FilesFail(n)
    PROVE  failures' \in 0..MaxFailures
BY SessionAssumption DEF Quota, FilesFail

LEMMA FileOpCounted ==
    ASSUME Quota, NEW ok, FileOp(ok)
    PROVE  failures' \in 0..MaxFailures
<1>1. CASE ok
  BY <1>1, FailuresCounted DEF FileOp
<1>2. CASE ~ok
  BY <1>2, FailuresCounted DEF FileOp
<1> QED BY <1>1, <1>2

LEMMA MarkerFromCounted ==
    ASSUME Quota, NEW readable, NEW needed, NEW ok, MarkerFrom(readable, needed, ok)
    PROVE  failures' \in 0..MaxFailures
<1>1. (IF readable THEN 0 ELSE 1) + (IF ok THEN 0 ELSE 1) \in Nat
  OBVIOUS
<1> QED BY <1>1, FailuresCounted DEF MarkerFrom

LEMMA RequestCounts ==
    ASSUME Types, Quota, NEW r \in Requesters, Request(r)
    PROVE  SameCount
<1> USE DEF files, sessionVars, contextVars, requestVars, loginVars, history, givenUp
<1>1. r \in Procs /\ r # LoginProc /\ LoginProc \in Procs
  BY Constants
<1>2. CASE \/ Bind(r) \/ Finish(r) \/ BeginAuthenticatedRequest(r)
           \/ AnswerOK(r) \/ AnswerError(r) \/ AnswerExpired(r) \/ Released(r)
  <2>1. L' = L
    BY <1>1, <1>2 DEF Bind, Finish, BeginAuthenticatedRequest, AnswerOK, AnswerError,
                      AnswerExpired, Released, Goto, L, Types
  <2>2. generation'[LoginProc] = generation[LoginProc]
    BY <1>1, <1>2 DEF Bind, Finish, BeginAuthenticatedRequest, AnswerOK, AnswerError,
                      AnswerExpired, Released, Types
  <2>3. condemned' \in {condemned, condemned \cup {generation[r]}}
    BY <1>2 DEF Bind, Finish, BeginAuthenticatedRequest, AnswerOK, AnswerError,
                AnswerExpired, Released
  <2>4. /\ UNCHANGED <<logins, crashes, sessionGeneration, configured, failures>>
        /\ sessionCancelled' = sessionCancelled
    BY <1>2 DEF Bind, Finish, BeginAuthenticatedRequest, AnswerOK, AnswerError,
                AnswerExpired, Released
  <2>5. pollCancelled' \in BOOLEAN
    BY <1>2 DEF Bind, Finish, BeginAuthenticatedRequest, AnswerOK, AnswerError,
                AnswerExpired, Released, Quota
  <2> QED BY <1>1, <2>1, <2>2, <2>3, <2>4, <2>5 DEF SameCount, Quota
<1>3. CASE \E ok \in BOOLEAN : PersistContextToken(r, ok)
  BY <1>3, FileOpCounted DEF PersistContextToken, SameCount, L, Quota
<1> QED BY <1>2, <1>3 DEF Request

LEMMA CleanupCounts ==
    ASSUME Types, Quota, NEW p \in Procs, Cleanup(p)
    PROVE  SameCount
<1> USE DEF sessionVars, contextVars, requestVars, loginVars, history, givenUp
<1>1. CASE \E ok \in BOOLEAN : RequireReauthentication(p, ok)
  <2>1. PICK ok \in BOOLEAN : RequireReauthentication(p, ok)
    BY <1>1
  <2>2. failures' \in 0..MaxFailures
    BY <2>1, FileOpCounted DEF RequireReauthentication, MarkerOp, Quota
  <2>3. L = "idle" => L' = "idle"
    BY <2>1, Constants DEF RequireReauthentication, Block, Goto, L, Types
  <2> QED BY <2>1, <2>2, <2>3 DEF RequireReauthentication, SameCount, Quota
<1>2. CASE CancelSession(p)
  <2>1. L = "idle" => L' = "idle"
    BY <1>2, Constants DEF CancelSession, Goto, L, Types
  <2> QED BY <1>2, <2>1 DEF CancelSession, SameCount, Quota
<1>3. CASE \E bad \in SUBSET Paths : ClearContexts(p, bad)
  <2>1. PICK bad \in SUBSET Paths : ClearContexts(p, bad)
    BY <1>3
  <2>2. failures' \in 0..MaxFailures
    BY <2>1, PathsCounted, FailuresCounted DEF ClearContexts, ClearPaths
  <2>3. L = "idle" => L' = "idle"
    BY <2>1, Constants DEF ClearContexts, Goto, L, Types
  <2> QED BY <2>1, <2>2, <2>3 DEF ClearContexts, SameCount, Quota
<1>4. CASE \E ok \in BOOLEAN : ClearCreds(p, ok)
  <2>1. PICK ok \in BOOLEAN : ClearCreds(p, ok)
    BY <1>4
  <2>2. failures' \in 0..MaxFailures
    BY <2>1, FileOpCounted DEF ClearCreds
  <2>3. L = "idle" => L' = "idle"
    BY <2>1, Constants DEF ClearCreds, Goto, L, Types
  <2> QED BY <2>1, <2>2, <2>3 DEF ClearCreds, SameCount, Quota
<1>5. CASE CloseState(p)
  <2>1. L = "idle" => L' = "idle"
    BY <1>5, Constants DEF CloseState, Goto, L, Types
  <2> QED BY <1>5, <2>1 DEF CloseState, SameCount, Quota
<1> QED BY <1>1, <1>2, <1>3, <1>4, <1>5 DEF Cleanup

LEMMA LoginMovesCount ==
    ASSUME Quota, L # "idle", NEW x, LoginMoves(x), failures' \in 0..MaxFailures
    PROVE  SameCount
BY DEF LoginMoves, SameCount, Quota, sessionVars, contextVars, givenUp

LEMMA RestoreCounts ==
    ASSUME Types, Quota, Restore
    PROVE  SameCount
<1>1. CASE RestoreCheck
  BY <1>1, LoginMovesCount DEF RestoreCheck, L, Quota
<1>2. CASE \E ok \in BOOLEAN : LoadMarker(ok)
  <2>1. PICK ok \in BOOLEAN : LoadMarker(ok)
    BY <1>2
  <2>2. failures' \in 0..MaxFailures
    BY <2>1, FileOpCounted DEF LoadMarker, MarkerOp
  <2> QED BY <2>1, <2>2, LoginMovesCount DEF LoadMarker, L
<1>3. CASE \E ok \in BOOLEAN : AdoptMarker(ok)
  <2>1. PICK ok \in BOOLEAN : AdoptMarker(ok)
    BY <1>3
  <2>2. L # "idle"
    BY <2>1 DEF AdoptMarker, L
  <2>3. failures' \in 0..MaxFailures
    BY <2>1, FileOpCounted DEF AdoptMarker, MarkerOp, Quota
  <2>4. CASE LoginMoves("decide") \/ LoginMoves("idle")
    BY <2>2, <2>3, <2>4, LoginMovesCount
  <2>5. CASE ~(LoginMoves("decide") \/ LoginMoves("idle"))
    <3>1. UNCHANGED <<stored, contextFile, sessionGeneration, sessionCancelled,
                      configured, generation, token, pollCancelled, force, freshMem,
                      logins, crashes, condemned, givenUp>>
      BY <2>1, <2>5 DEF AdoptMarker
    <3> QED BY <2>2, <2>3, <3>1 DEF SameCount, Quota, givenUp
  <2> QED BY <2>4, <2>5
<1>4. CASE \E readable, ok \in BOOLEAN : RequireWithoutCredentials(readable, ok)
  <2>1. PICK readable \in BOOLEAN, ok \in BOOLEAN : RequireWithoutCredentials(readable, ok)
    BY <1>4
  <2>2. failures' \in 0..MaxFailures
    BY <2>1, MarkerFromCounted DEF RequireWithoutCredentials, Quota
  <2> QED BY <2>1, <2>2 DEF RequireWithoutCredentials, SameCount, Quota, L, contextVars,
                            loginVars
<1> QED BY <1>1, <1>2, <1>3, <1>4 DEF Restore

LEMMA AttemptCounts ==
    ASSUME Types, Quota, Attempt, ~\E ok \in BOOLEAN : Publish(ok)
    PROVE  SameCount
<1> USE DEF sessionVars, contextVars, requestVars, loginVars, history, givenUp
<1>1. CASE Decide \/ Prepared \/ AcquireStored \/ AcquireFails \/ CheckFresh
  <2>1. L # "idle" /\ failures' = failures
    BY <1>1 DEF Decide, Prepared, AcquireStored, AcquireFails, CheckFresh, L
  <2>2. PICK x : LoginMoves(x)
    BY <1>1 DEF Decide, Prepared, AcquireStored, AcquireFails, CheckFresh
  <2> QED BY <2>1, <2>2, LoginMovesCount DEF Quota
<1>2. CASE Prepare
  <2>1. generation'[LoginProc] = sessionGeneration
    BY <1>2, Constants DEF Prepare, Types
  <2> QED BY <1>2, <2>1 DEF Prepare, SameCount, Quota, L
<1>3. CASE \E c \in Credentials, readable, saved \in BOOLEAN :
              AcquireConfirmed(c, readable, saved)
  <2>1. PICK c \in Credentials, readable \in BOOLEAN, saved \in BOOLEAN :
             AcquireConfirmed(c, readable, saved)
    BY <1>3
  <2>2. (IF readable THEN 0 ELSE 1) + (IF saved THEN 0 ELSE 1) \in Nat
    OBVIOUS
  <2>3. failures' \in 0..MaxFailures
    BY <2>1, <2>2, FailuresCounted DEF AcquireConfirmed
  <2> QED BY <2>1, <2>3 DEF AcquireConfirmed, SameCount, Quota, L
<1>4. CASE \E readable, ok \in BOOLEAN : Retry(readable, ok)
  <2>1. PICK readable \in BOOLEAN, ok \in BOOLEAN : Retry(readable, ok)
    BY <1>4
  <2>2. failures' \in 0..MaxFailures
    BY <2>1, MarkerFromCounted DEF Retry
  <2> QED BY <2>1, <2>2 DEF Retry, SameCount, Quota, L
<1>5. CASE \E ok \in BOOLEAN : InstallLoads(ok) \/ InstallMarks(ok) \/ Discard(ok)
  <2>1. PICK ok \in BOOLEAN : InstallLoads(ok) \/ InstallMarks(ok) \/ Discard(ok)
    BY <1>5
  <2>2. failures' \in 0..MaxFailures
    BY <2>1, FileOpCounted DEF InstallLoads, InstallMarks, Discard
  <2> QED BY <2>1, <2>2 DEF InstallLoads, InstallMarks, Discard, SameCount, Quota, L
<1>6. CASE \E bad \in SUBSET Paths : InstallClears(bad)
  <2>1. PICK bad \in SUBSET Paths : InstallClears(bad)
    BY <1>6
  <2>2. failures' \in 0..MaxFailures
    BY <2>1, PathsCounted, FailuresCounted DEF InstallClears, ClearPaths
  <2> QED BY <2>1, <2>2 DEF InstallClears, SameCount, Quota, L
<1> QED BY <1>1, <1>2, <1>3, <1>4, <1>5, <1>6 DEF Attempt

LEMMA QuotaNext == ASSUME Inv, Quota, [Next]_vars PROVE Quota'
<1> USE DEF sessionVars, contextVars, requestVars, loginVars, history, givenUp
<1>1. Types /\ Requests /\ MaxLogins \in Nat /\ sessionGeneration \in Nat
  BY SessionAssumption DEF Inv, Types
<1>2. CASE \E r \in Requesters : Request(r)
  BY <1>1, <1>2, RequestCounts, SameCountKeeps
<1>3. CASE \E p \in Procs : Cleanup(p)
  BY <1>1, <1>3, CleanupCounts, SameCountKeeps
<1>4. CASE \E forced \in BOOLEAN : BeginLogin(forced)
  <2>1. /\ logins' = logins + 1 /\ logins < MaxLogins
        /\ condemned' \subseteq condemned \cup {sessionGeneration}
        /\ UNCHANGED <<crashes, failures, sessionGeneration, generation, configured,
                       sessionCancelled, pollCancelled>>
    BY <1>4 DEF BeginLogin
  <2>2. sessionGeneration \in 0..MaxLogins
    BY <1>1 DEF Quota
  <2> QED BY <1>1, <2>1, <2>2 DEF Quota
<1>5. CASE Restore
  BY <1>1, <1>5, RestoreCounts, SameCountKeeps
<1>6. CASE \E ok \in BOOLEAN : Publish(ok)
  <2>1. PICK ok \in BOOLEAN : Publish(ok)
    BY <1>6
  <2>2. failures' \in 0..MaxFailures
    BY <2>1, FileOpCounted DEF Publish
  <2>3. UNCHANGED <<logins, crashes, generation, condemned, configured, pollCancelled>>
    BY <2>1 DEF Publish
  <2>4. sessionGeneration < logins
    BY <2>1 DEF Publish, Quota, L
  <2>5. \/ sessionGeneration' = sessionGeneration
        \/ sessionGeneration' = sessionGeneration + 1 /\ L' = "idle"
    BY <1>1, <2>1, Constants DEF Publish, Goto, L, Types
  <2>6. sessionCancelled' \in BOOLEAN
    BY <2>1 DEF Publish, Quota
  <2>7. logins \in Nat
    BY DEF Quota
  <2> QED BY <1>1, <2>2, <2>3, <2>4, <2>5, <2>6, <2>7 DEF Quota
<1>7. CASE Attempt /\ ~\E ok \in BOOLEAN : Publish(ok)
  BY <1>1, <1>7, AttemptCounts, SameCountKeeps
<1>8. CASE StopRun \/ UNCHANGED vars
  BY <1>8 DEF StopRun, vars, Quota, L
<1>9. CASE Crash
  <2>1. PICK account \in ConfiguredAccounts : Start(account)
    BY <1>9 DEF Crash
  <2>2. L' = "idle" /\ generation'[LoginProc] = 0 /\ sessionGeneration' = 0
    BY <2>1, Constants DEF Start, L
  <2>3. /\ configured' = account /\ condemned' = {}
        /\ sessionCancelled' = FALSE /\ pollCancelled' = FALSE
    BY <2>1 DEF Start
  <2>4. /\ crashes < MaxCrashes /\ crashes' = crashes + 1
        /\ UNCHANGED <<logins, failures>>
    BY <1>9 DEF Crash
  <2>5. /\ logins' \in 0..MaxLogins /\ crashes' \in 0..MaxCrashes
        /\ failures' \in 0..MaxFailures /\ 0 \in 0..MaxLogins /\ 0 <= logins'
    BY <1>1, <2>4, SessionAssumption DEF Quota
  <2> QED BY <2>1, <2>2, <2>3, <2>4, <2>5 DEF Quota
<1> QED BY <1>2, <1>3, <1>4, <1>5, <1>6, <1>7, <1>8, <1>9 DEF Next

\* Every variable keeps its range through crashes and failed file operations; in
\* particular a reauthState that a goroutine holds exists, and a generation never
\* exceeds the number of logins.
THEOREM TypeInvariant == Spec => []TypeOK
<1>1. Init => Quota
  <2> SUFFICES ASSUME Init PROVE Quota
    OBVIOUS
  <2>1. L = "idle" /\ generation[LoginProc] = 0 /\ sessionGeneration = 0
    BY Constants DEF Init, L
  <2>2. /\ logins \in 0..MaxLogins /\ crashes \in 0..MaxCrashes
        /\ failures \in 0..MaxFailures /\ 0 \in 0..MaxLogins /\ 0 <= logins
    BY SessionAssumption DEF Init
  <2>3. /\ condemned = {} /\ configured \in ConfiguredAccounts
        /\ sessionCancelled = FALSE /\ pollCancelled = FALSE
    BY DEF Init
  <2> QED BY <2>1, <2>2, <2>3 DEF Quota
<1>2. Inv /\ Quota /\ [Next]_vars => Quota'
  BY QuotaNext
<1>3. Inv /\ Quota /\ MuHeld => TypeOK
  <2> SUFFICES ASSUME Inv, Quota, MuHeld PROVE TypeOK
    OBVIOUS
  <2>1. sessionGeneration \in 0..MaxLogins
    BY SessionAssumption DEF Inv, Types, Quota
  <2>2. \A p \in Procs : generation[p] \in 0..MaxLogins
    BY <2>1, SessionAssumption, Constants, SMTT(30) DEF Inv, Types, Quota, Requests, Informed
  <2>3. generation \in [Procs -> 0..MaxLogins]
    BY <2>2 DEF Inv, Types
  <2> QED BY <2>1, <2>3 DEF TypeOK, Inv, Types, Quota, MuHeld, L
<1> QED BY <1>1, <1>2, <1>3, Invariance, LockDiscipline, PTL DEF Spec
============================================================================
