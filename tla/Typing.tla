------------------------------- MODULE Typing -------------------------------
(***************************************************************************)
(* The typing indicator (SendTyping and StopTyping in content.go) and the  *)
(* cache of typing tickets (internal/config/cache.go).  A session has a    *)
(* cache of its own, with an entry per user that is refetched at a random  *)
(* time within the TTL, and after a failure not before a delay that        *)
(* doubles.  Calls run concurrently, while the session is lost and         *)
(* replaced by Login, which waits for the requests in flight.              *)
(*                                                                         *)
(* A ticket is named by the session and the user that it was fetched for.  *)
(***************************************************************************)
EXTENDS Integers, Sequences, FiniteSetsExt

CONSTANTS
    Callers,            \* goroutines that call SendTyping and StopTyping, each for
                        \* a user of its own choice, as often as they like
    Users,
    InitialRetryDelay, MaxRetryDelay, TTL,  \* initialRetryDelayMS, ... in ticks
    RetryDelays,        \* for the properties: the first delay doubled up to the largest
    MaxTime,            \* bound: ticks of the clock
    MaxGeneration       \* bound: sessions

ASSUME TypingAssumption ==
    /\ {InitialRetryDelay, MaxRetryDelay, TTL, MaxGeneration} \subseteq Nat \ {0}
    /\ InitialRetryDelay <= MaxRetryDelay /\ MaxTime \in Nat

ASSUME DelaysAssumption ==
    /\ RetryDelays \in Seq(Nat) /\ RetryDelays # <<>>
    /\ RetryDelays[1] = InitialRetryDelay
    /\ \A n \in 2..Len(RetryDelays) :
          RetryDelays[n] = 2 * RetryDelays[n - 1] /\ RetryDelays[n] <= MaxRetryDelay
    /\ 2 * RetryDelays[Len(RetryDelays)] > MaxRetryDelay

Never == -1             \* before every time of the clock
Keys == (1..MaxGeneration) \X Users
NoTicket == <<0>>       \* TypingTicket = ""
NoCaller == [caller |-> FALSE]

ASSUME CallersAssumption == NoCaller \notin Callers

VARIABLES
    generation, ready,  \* b.sessionGeneration; b.reauth = nil
    login,              \* Login holds sessionMu and waits for requestMu
    known,              \* the users with a context token
    now,
    entry,              \* by session and user: config, nextFetchAt, retryDelay, mu
    pc, gen, user,      \* of each call: where it is, in which session, for whom
    start,              \* its local variable now
    ticket, err,
    tried               \* history of each entry: see FetchesPaced

vars == <<generation, ready, login, known, now, entry, pc, gen, user, start,
          ticket, err, tried>>
sessionVars == <<generation, ready, login, known>>
argVars == <<gen, user>>
returnVars == <<gen, ticket, err, entry, tried>>    \* what Return changes

Tickets == Keys \cup {NoTicket}
Places == {"idle", "token", "cache", "fetch", "fetching", "fetched", "send",
           "sending", "sent"}
InFlight == {"fetching", "sending"}     \* places at which requestMu is held

TypeOK ==
    /\ generation \in 1..MaxGeneration /\ {ready, login} \subseteq BOOLEAN
    /\ known \subseteq Users /\ now \in 0..MaxTime
    /\ entry \in [Keys -> [ticket : Tickets, nextFetchAt : Int,
                           retryDelay : 0..MaxRetryDelay, mu : Callers \cup {NoCaller}]]
    /\ pc \in [Callers -> Places]
    /\ gen \in [Callers -> 1..generation] /\ user \in [Callers -> Users]
    /\ start \in [Callers -> 0..now] /\ ticket \in [Callers -> Tickets]
    /\ err \in [Callers -> {"nil", "error", "expired"}]
    /\ tried \in [Keys -> [last : Int, failures : Nat, good : Int]]

NewEntry == [ticket |-> NoTicket, nextFetchAt |-> Never, retryDelay |-> 0, mu |-> NoCaller]
Untried == [last |-> Never, failures |-> 0, good |-> Never]

Init ==
    /\ generation = 1 /\ ready = TRUE /\ login = FALSE /\ known = {} /\ now = 0
    /\ entry = [k \in Keys |-> NewEntry]
    /\ pc = [c \in Callers |-> "idle"]
    /\ gen = [c \in Callers |-> 1] /\ user \in [Callers -> Users]
    /\ start = [c \in Callers |-> 0] /\ ticket = [c \in Callers |-> NoTicket]
    /\ err = [c \in Callers |-> "nil"]
    /\ tried = [k \in Keys |-> Untried]

----------------------------------------------------------------------------
SessionReady(c) == ready /\ generation = gen[c]         \* readySession

Goto(c, place) == pc' = [pc EXCEPT ![c] = place]

Active == {c \in Callers : pc[c] # "idle"}

\* A cache that neither the bot nor one of these calls refers to is gone.
Collect(current, calls) ==
    LET alive == {current} \cup {gen[c] : c \in calls}
    IN  /\ entry' = [k \in Keys |-> IF k[1] \in alive THEN entry[k] ELSE NewEntry]
        /\ tried' = [k \in Keys |-> IF k[1] \in alive THEN tried[k] ELSE Untried]

\* A finished call forgets its locals; the goroutine may call again.
Return(c) ==
    /\ Goto(c, "idle")
    /\ gen' = [gen EXCEPT ![c] = 1] /\ ticket' = [ticket EXCEPT ![c] = NoTicket]
    /\ err' = [err EXCEPT ![c] = "nil"]
    /\ Collect(generation, Active \ {c})

\* Fault: one cache for all sessions.
SharedKey(c) == <<1, user[c]>>

\* The cache was taken together with the generation, so it is that session's.
Key(c) == <<gen[c], user[c]>>

\* readyConfig: the credentials, the cache and the generation, under b.mu.
Call(c) ==
    /\ pc[c] = "idle" /\ ready
    /\ gen' = [gen EXCEPT ![c] = generation]
    /\ Goto(c, "token")
    /\ UNCHANGED <<sessionVars, now, entry, user, start, ticket, err, tried>>

\* Without a context token SendTyping returns an error and StopTyping nil; in
\* all else they differ only in the status that they send.
LookUpToken(c) ==
    /\ pc[c] = "token"
    /\ IF user[c] \in known
       THEN Goto(c, "cache") /\ UNCHANGED returnVars
       ELSE Return(c)
    /\ UNCHANGED <<sessionVars, now, user, start>>

\* GetForUser locks the entry and returns what it holds before nextFetchAt.
CacheHit(c) ==
    LET e == entry[Key(c)]
    IN  /\ pc[c] = "cache" /\ e.mu = NoCaller /\ now < e.nextFetchAt
        /\ ticket' = [ticket EXCEPT ![c] = e.ticket]
        /\ Goto(c, "fetched")
        /\ UNCHANGED <<sessionVars, now, entry, argVars, start, err, tried>>

\* Otherwise it keeps the lock and fetches.
CacheMiss(c) ==
    LET k == Key(c)
    IN  /\ pc[c] = "cache" /\ entry[k].mu = NoCaller /\ now >= entry[k].nextFetchAt
        /\ entry' = [entry EXCEPT ![k].mu = c]
        /\ start' = [start EXCEPT ![c] = now]
        /\ tried' = [tried EXCEPT ![k].last = now]
        /\ Goto(c, "fetch")
        /\ UNCHANGED <<sessionVars, now, argVars, ticket, err>>

\* Fault: the delay does not grow.
SameDelay(delay) == InitialRetryDelay

NextDelay(delay) ==
    IF delay = 0 THEN InitialRetryDelay ELSE Min({2 * delay, MaxRetryDelay})

\* Fault: the error path leaves the entry locked.
FetchFailsLocked(c, e) ==
    /\ err' = [err EXCEPT ![c] = e] /\ Goto(c, "fetched")
    /\ UNCHANGED <<entry, tried, start>>

\* The error path of GetForUser; the deferred unlock releases the entry.
FetchFails(c, e) ==
    LET k == Key(c)
        delay == NextDelay(entry[k].retryDelay)
    IN  /\ entry' = [entry EXCEPT ![k] = [ticket |-> @.ticket, mu |-> NoCaller,
                        nextFetchAt |-> start[c] + delay, retryDelay |-> delay]]
        /\ tried' = [tried EXCEPT ![k].failures = @ + 1]
        /\ err' = [err EXCEPT ![c] = e]
        /\ start' = [start EXCEPT ![c] = 0]
        /\ Goto(c, "fetched")

\* generationConfigProvider: a request of another session is refused, which the
\* cache takes for a failure.  A Login that waits makes new requests wait.
BeginFetch(c) ==
    /\ pc[c] = "fetch" /\ ~login
    /\ IF SessionReady(c) THEN Goto(c, "fetching") /\ UNCHANGED <<entry, err, start, tried>>
       ELSE FetchFails(c, "error")
    /\ UNCHANGED <<sessionVars, now, argVars, ticket>>

\* The answer holds a ticket or none; it is refetched at a random time before
\* the TTL ends, counted from before the request.
FetchOK(c, t, lifetime) ==
    LET k == Key(c)
    IN  /\ pc[c] = "fetching"
        /\ entry' = [entry EXCEPT ![k] = [ticket |-> t, mu |-> NoCaller,
                        nextFetchAt |-> start[c] + lifetime,
                        retryDelay |-> InitialRetryDelay]]
        /\ tried' = [tried EXCEPT ![k].failures = 0, ![k].good = start[c]]
        /\ ticket' = [ticket EXCEPT ![c] = t]
        /\ start' = [start EXCEPT ![c] = 0]
        /\ Goto(c, "fetched")
        /\ UNCHANGED <<sessionVars, now, argVars, err>>

\* The server, the transport, the time-out or the end of the session.
FetchError(c, e) ==
    /\ pc[c] = "fetching"
    /\ FetchFails(c, e)
    /\ UNCHANGED <<sessionVars, now, argVars, ticket>>

\* handleAuthenticatedErrorForSession takes sessionMu; -14 ends the session that
\* the request was made in, and no other.
HandleError(c) ==
    /\ err[c] # "nil" /\ ~login
    /\ ready' = (ready /\ ~(err[c] = "expired" /\ generation = gen[c]))
    /\ Return(c)
    /\ UNCHANGED <<generation, login, known, now, user, start>>

\* After the cache: an error is handled; else the session is checked again, and
\* without a ticket there is nothing to do.
AfterCache(c) ==
    /\ pc[c] = "fetched"
    /\ \/ HandleError(c)
       \/ /\ err[c] = "nil"
          /\ IF SessionReady(c) /\ ticket[c] # NoTicket
             THEN Goto(c, "send") /\ UNCHANGED returnVars
             ELSE Return(c)
          /\ UNCHANGED <<sessionVars, now, user, start>>

\* sendTypingForSession.
BeginSend(c) ==
    /\ pc[c] = "send" /\ ~login
    /\ IF SessionReady(c) THEN Goto(c, "sending") /\ UNCHANGED returnVars
       ELSE Return(c)
    /\ UNCHANGED <<sessionVars, now, user, start>>

AnswerSend(c, e) ==
    /\ pc[c] = "sending"
    /\ err' = [err EXCEPT ![c] = e]
    /\ Goto(c, "sent")
    /\ UNCHANGED <<sessionVars, now, entry, argVars, start, ticket, tried>>

\* Also a call that succeeded returns the state of the session.
AfterSend(c) ==
    /\ pc[c] = "sent"
    /\ \/ HandleError(c)
       \/ /\ err[c] = "nil" /\ Return(c)
          /\ UNCHANGED <<sessionVars, now, user, start>>

Step(c) ==
    \/ LookUpToken(c) \/ CacheHit(c) \/ CacheMiss(c) \/ BeginFetch(c)
    \/ \E t \in {NoTicket, <<gen[c], user[c]>>}, l \in 0..(TTL - 1) : FetchOK(c, t, l)
    \/ \E e \in {"error", "expired"} : FetchError(c, e)
    \/ AfterCache(c) \/ BeginSend(c) \/ AfterSend(c)
    \/ \E e \in {"nil", "error", "expired"} : AnswerSend(c, e)

----------------------------------------------------------------------------
(***************************************************************************)
(* The session, as module Session has it, and the clock.                   *)
(***************************************************************************)
callVars == <<now, entry, pc, argVars, start, ticket, err, tried>>

\* A delivery of the current session stores a context token.
Receive(u) ==
    /\ ready /\ known' = known \cup {u}
    /\ UNCHANGED <<generation, ready, login, callVars>>

\* The poll or a send gets -14, or Reauthenticate is called.
LoseSession ==
    /\ ready /\ ~login /\ ready' = FALSE
    /\ UNCHANGED <<generation, login, known, callVars>>

ClearContexts ==
    /\ ~ready /\ known' = {}
    /\ UNCHANGED <<generation, ready, login, callVars>>

\* Login has its credentials and takes sessionMu; a forced one clears the
\* context tokens, another one loads those of its account.
BeginLogin ==
    /\ ~login /\ generation < MaxGeneration
    /\ login' = TRUE /\ known' = IF ready THEN known ELSE {}
    /\ UNCHANGED <<generation, ready, callVars>>

\* requestMu is free: no request is in flight.
InstallSession ==
    /\ login /\ \A c \in Callers : pc[c] \notin InFlight
    /\ generation' = generation + 1 /\ ready' = TRUE /\ login' = FALSE
    /\ Collect(generation + 1, Active)
    /\ UNCHANGED <<known, now, pc, argVars, start, ticket, err>>

Tick ==
    /\ now < MaxTime /\ now' = now + 1
    /\ UNCHANGED <<sessionVars, entry, pc, argVars, start, ticket, err, tried>>

Next ==
    \/ \E c \in Callers : Call(c) \/ Step(c)
    \/ \E u \in Users : Receive(u)
    \/ LoseSession \/ ClearContexts \/ BeginLogin \/ InstallSession \/ Tick

Spec == Init /\ [][Next]_vars

\* A goroutine that can run does, every request returns (it has a time-out of 15
\* seconds), and a sync.Mutex is given to each goroutine that waits for it.
FairSpec ==
    /\ Spec
    /\ \A c \in Callers : WF_vars(Step(c)) /\ SF_vars(CacheHit(c) \/ CacheMiss(c))
    /\ WF_vars(InstallSession)

----------------------------------------------------------------------------
(***************************************************************************)
(* Properties.                                                             *)
(***************************************************************************)

\* A sendtyping request carries a ticket that was fetched for its user in the
\* session it is sent in, however long the ticket lay in the cache or in a
\* local variable while the session was replaced.
TicketOfSession ==
    \A c \in Callers :
        pc[c] = "sending" => ticket[c] = <<generation, user[c]>>

Fetching(k) == {c \in Callers : pc[c] \in {"fetch", "fetching"} /\ Key(c) = k}

\* How long n failures in a row keep a user's config from being fetched again.
BackOff(n) ==
    IF n = 0 THEN 0 ELSE IF n <= Len(RetryDelays) THEN RetryDelays[n] ELSE MaxRetryDelay

\* What the cache holds is younger than the TTL, or a fetch has just failed.
Fresh(k) ==
    \/ now < tried[k].good + TTL
    \/ tried[k].failures > 0 /\ now < tried[k].last + MaxRetryDelay

\* Callers that miss together do not fetch together, and whatever their order, a
\* fetch after n failures in a row begins no sooner than the n-th delay after
\* the last one began; but a ticket older than the TTL is handed out only during
\* the delay that follows a failed attempt to replace it.
FetchesPaced ==
    [][\A c \in Callers :
        LET k == Key(c)
        IN  /\ CacheMiss(c) => /\ Fetching(k) = {}
                               /\ tried[k].last # Never =>
                                    now >= tried[k].last + BackOff(tried[k].failures)
            /\ CacheHit(c) => Fresh(k)]_vars

\* Every call returns, also one that waits for an entry whose fetch fails, for a
\* Login, or for the lock that Login holds while it waits for this very request.
TypingReturns == \A c \in Callers : pc[c] # "idle" ~> pc[c] = "idle"
=============================================================================
