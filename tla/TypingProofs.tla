---------------------------- MODULE TypingProofs ----------------------------
(***************************************************************************)
(* Proofs about Typing for any number of callers, users, sessions, and any *)
(* delays and lifetimes.                                                   *)
(***************************************************************************)
EXTENDS Typing, TLAPS

LEMMA Constants ==
    /\ InitialRetryDelay \in Nat \ {0} /\ MaxRetryDelay \in Nat \ {0}
    /\ TTL \in Nat \ {0} /\ MaxGeneration \in Nat \ {0} /\ MaxTime \in Nat
    /\ InitialRetryDelay <= MaxRetryDelay
BY TypingAssumption

Entries == [ticket : Tickets, nextFetchAt : Int, retryDelay : 0..MaxRetryDelay,
            mu : Callers \cup {NoCaller}]
Trials == [last : Int, failures : Nat, good : Int]

LEMMA NewFacts == NewEntry \in Entries /\ Untried \in Trials
<1>1. 0 \in 0..MaxRetryDelay /\ Never \in Int
  BY Constants DEF Never
<1> QED BY <1>1 DEF NewEntry, Untried, Entries, Trials, Tickets

LEMMA NextDelayFacts ==
    ASSUME NEW delay \in 0..MaxRetryDelay
    PROVE  /\ NextDelay(delay) \in 1..MaxRetryDelay
           /\ delay = 0 \/ delay >= InitialRetryDelay => NextDelay(delay) >= InitialRetryDelay
BY Constants DEF NextDelay, Min

\* A caller names the entry of its session and user.
LEMMA KeyFacts ==
    ASSUME TypeOK, NEW c \in Callers
    PROVE  /\ Key(c) \in Keys /\ Key(c) = <<gen[c], user[c]>> /\ Key(c)[1] = gen[c]
           /\ gen[c] \in 1..generation /\ user[c] \in Users
BY Constants DEF TypeOK, Key, Keys

LEMMA CollectFacts ==
    ASSUME TypeOK, NEW current, NEW calls \in SUBSET Callers, Collect(current, calls)
    PROVE  /\ entry' \in [Keys -> Entries] /\ tried' \in [Keys -> Trials]
           /\ \A c \in calls : entry'[Key(c)] = entry[Key(c)] /\ tried'[Key(c)] = tried[Key(c)]
<1>1. \A c \in calls : Key(c) \in Keys /\ Key(c)[1] = gen[c]
  BY KeyFacts
<1> QED BY <1>1, NewFacts DEF Collect, TypeOK, Entries, Trials

LEMMA CollectCases ==
    ASSUME NEW current, NEW calls \in SUBSET Callers, Collect(current, calls)
    PROVE  \A k \in Keys : \/ entry'[k] = entry[k] /\ tried'[k] = tried[k]
                           \/ entry'[k] = NewEntry /\ tried'[k] = Untried
BY DEF Collect

----------------------------------------------------------------------------
\* A Login begins only below the bound on sessions.
Bounded == login => generation < MaxGeneration

LEMMA TypeInit == Init => TypeOK /\ Bounded
<1> SUFFICES ASSUME Init PROVE TypeOK /\ Bounded
  OBVIOUS
<1>1. entry \in [Keys -> Entries] /\ tried \in [Keys -> Trials]
  BY NewFacts DEF Init
<1>2. generation \in 1..MaxGeneration /\ now \in 0..MaxTime /\ known \subseteq Users
  BY Constants DEF Init
<1>3. {ready, login} \subseteq BOOLEAN
  BY DEF Init
<1>4. /\ pc \in [Callers -> Places] /\ user \in [Callers -> Users]
      /\ err \in [Callers -> {"nil", "error", "expired"}]
      /\ ticket \in [Callers -> Tickets]
  BY DEF Init, Places, Tickets
<1>5. gen \in [Callers -> 1..generation] /\ start \in [Callers -> 0..now]
  BY DEF Init
<1>6. Bounded
  BY DEF Init, Bounded
<1> QED BY <1>1, <1>2, <1>3, <1>4, <1>5, <1>6 DEF TypeOK, Entries, Trials

LEMMA ReturnType ==
    ASSUME TypeOK, NEW c \in Callers, Return(c), generation' = generation
    PROVE  /\ pc' \in [Callers -> Places] /\ gen' \in [Callers -> 1..generation']
           /\ ticket' \in [Callers -> Tickets]
           /\ err' \in [Callers -> {"nil", "error", "expired"}]
           /\ entry' \in [Keys -> Entries] /\ tried' \in [Keys -> Trials]
<1>1. Active \ {c} \in SUBSET Callers
  BY DEF Active
<1>2. entry' \in [Keys -> Entries] /\ tried' \in [Keys -> Trials]
  BY <1>1, CollectFacts DEF Return
<1>3. pc' \in [Callers -> Places] /\ gen' \in [Callers -> 1..generation']
  BY DEF TypeOK, Return, Goto, Places
<1> QED BY <1>2, <1>3 DEF TypeOK, Return, Tickets

LEMMA FetchFailsType ==
    ASSUME TypeOK, NEW c \in Callers, NEW e \in {"error", "expired"}, FetchFails(c, e)
    PROVE  /\ pc' \in [Callers -> Places]
           /\ err' \in [Callers -> {"nil", "error", "expired"}]
           /\ start' \in [Callers -> 0..now]
           /\ entry' \in [Keys -> Entries] /\ tried' \in [Keys -> Trials]
<1>1. Key(c) \in Keys /\ entry[Key(c)] \in Entries /\ tried[Key(c)] \in Trials
  BY KeyFacts DEF TypeOK, Entries, Trials
<1>2. NextDelay(entry[Key(c)].retryDelay) \in 0..MaxRetryDelay
  BY <1>1, NextDelayFacts, Constants DEF Entries
<1>3. start[c] \in Int /\ now \in Nat
  BY DEF TypeOK
<1>4. entry' \in [Keys -> Entries]
  BY <1>1, <1>2, <1>3, Constants DEF FetchFails, TypeOK, Entries
<1>5. tried' \in [Keys -> Trials]
  BY <1>1 DEF FetchFails, TypeOK, Trials
<1>6. start' \in [Callers -> 0..now]
  BY <1>3 DEF FetchFails, TypeOK
<1>7. pc' \in [Callers -> Places] /\ err' \in [Callers -> {"nil", "error", "expired"}]
  BY DEF FetchFails, TypeOK, Goto, Places
<1> QED BY <1>4, <1>5, <1>6, <1>7

LEMMA BoundedNext == ASSUME TypeOK, Bounded, [Next]_vars PROVE Bounded'
<1> USE DEF sessionVars, argVars, returnVars, callVars, Bounded
<1>1. ASSUME NEW c \in Callers, Call(c) \/ Step(c) PROVE Bounded'
  BY <1>1 DEF Call, Step, LookUpToken, CacheHit, CacheMiss, BeginFetch, FetchOK, FetchError,
              AfterCache, HandleError, BeginSend, AfterSend, AnswerSend
<1>2. CASE BeginLogin
  BY <1>2 DEF BeginLogin
<1>3. CASE InstallSession
  BY <1>3 DEF InstallSession
<1>4. CASE LoseSession \/ ClearContexts \/ Tick \/ UNCHANGED vars
  BY <1>4 DEF LoseSession, ClearContexts, Tick, vars
<1>5. ASSUME NEW u \in Users, Receive(u) PROVE Bounded'
  BY <1>5 DEF Receive
<1> QED BY <1>1, <1>2, <1>3, <1>4, <1>5 DEF Next

LEMMA TypeNext == ASSUME TypeOK, Bounded, [Next]_vars PROVE TypeOK'
<1> USE DEF sessionVars, argVars, returnVars, callVars
<1>1. ASSUME NEW c \in Callers, Call(c) PROVE TypeOK'
  BY <1>1 DEF Call, Goto, TypeOK, Places
<1>2. ASSUME NEW c \in Callers, Return(c), UNCHANGED <<generation, login, known, now, user, start>>,
             ready' \in BOOLEAN
      PROVE  TypeOK'
  BY <1>2, ReturnType DEF TypeOK, Entries, Trials
<1>3. ASSUME NEW c \in Callers, LookUpToken(c) PROVE TypeOK'
  <2>1. CASE user[c] \in known
    BY <1>3, <2>1 DEF LookUpToken, Goto, TypeOK, Places
  <2>2. CASE user[c] \notin known
    BY <1>2, <1>3, <2>2 DEF LookUpToken, TypeOK
  <2> QED BY <2>1, <2>2
<1>4. ASSUME NEW c \in Callers, CacheHit(c) PROVE TypeOK'
  <2>1. entry[Key(c)].ticket \in Tickets
    BY KeyFacts DEF TypeOK
  <2> QED BY <1>4, <2>1 DEF CacheHit, Goto, TypeOK, Places
<1>5. ASSUME NEW c \in Callers, CacheMiss(c) PROVE TypeOK'
  <2>1. Key(c) \in Keys /\ now \in Int
    BY KeyFacts DEF TypeOK
  <2>2. entry' \in [Keys -> Entries] /\ tried' \in [Keys -> Trials]
    BY <1>5, <2>1, SMTT(30) DEF CacheMiss, TypeOK, Entries, Trials
  <2> QED BY <1>5, <2>2 DEF CacheMiss, Goto, TypeOK, Places, Entries, Trials
<1>6. ASSUME NEW c \in Callers, NEW e \in {"error", "expired"}, FetchFails(c, e),
             UNCHANGED <<sessionVars, now, argVars, ticket>>
      PROVE  TypeOK'
  BY <1>6, FetchFailsType DEF TypeOK, Entries, Trials
<1>7. ASSUME NEW c \in Callers, BeginFetch(c) PROVE TypeOK'
  <2>1. CASE SessionReady(c)
    BY <1>7, <2>1 DEF BeginFetch, Goto, TypeOK, Places
  <2>2. CASE ~SessionReady(c)
    BY <1>6, <1>7, <2>2 DEF BeginFetch
  <2> QED BY <2>1, <2>2
<1>8. ASSUME NEW c \in Callers, NEW t \in {NoTicket, <<gen[c], user[c]>>},
             NEW l \in 0..(TTL - 1), FetchOK(c, t, l)
      PROVE  TypeOK'
  <2>1. Key(c) \in Keys /\ t \in Tickets /\ start[c] + l \in Int /\ start[c] \in Int
    <3>1. start[c] \in Int /\ l \in Int
      BY Constants DEF TypeOK
    <3> QED BY <3>1, KeyFacts DEF Tickets
  <2>2. InitialRetryDelay \in 0..MaxRetryDelay /\ NoCaller \in Callers \cup {NoCaller}
    BY Constants
  <2>3. entry' \in [Keys -> Entries]
    BY <1>8, <2>1, <2>2 DEF FetchOK, TypeOK, Entries
  <2>4. tried' \in [Keys -> Trials]
    BY <1>8, <2>1 DEF FetchOK, TypeOK, Trials
  <2> QED BY <1>8, <2>1, <2>3, <2>4 DEF FetchOK, Goto, TypeOK, Places, Entries, Trials
<1>9. ASSUME NEW c \in Callers, NEW e \in {"error", "expired"}, FetchError(c, e) PROVE TypeOK'
  BY <1>6, <1>9 DEF FetchError
<1>10. ASSUME NEW c \in Callers, HandleError(c) PROVE TypeOK'
  BY <1>2, <1>10 DEF HandleError
<1>11. ASSUME NEW c \in Callers, AfterCache(c) PROVE TypeOK'
  <2>1. CASE err[c] = "nil" /\ SessionReady(c) /\ ticket[c] # NoTicket
    BY <1>11, <2>1 DEF AfterCache, HandleError, Goto, TypeOK, Places
  <2>2. CASE err[c] = "nil" /\ ~(SessionReady(c) /\ ticket[c] # NoTicket)
    BY <1>2, <1>11, <2>2 DEF AfterCache, HandleError, TypeOK
  <2> QED BY <1>10, <1>11, <2>1, <2>2 DEF AfterCache
<1>12. ASSUME NEW c \in Callers, BeginSend(c) PROVE TypeOK'
  <2>1. CASE SessionReady(c)
    BY <1>12, <2>1 DEF BeginSend, Goto, TypeOK, Places
  <2>2. CASE ~SessionReady(c)
    BY <1>2, <1>12, <2>2 DEF BeginSend, TypeOK
  <2> QED BY <2>1, <2>2
<1>13. ASSUME NEW c \in Callers, NEW e \in {"nil", "error", "expired"}, AnswerSend(c, e)
       PROVE  TypeOK'
  BY <1>13 DEF AnswerSend, Goto, TypeOK, Places
<1>14. ASSUME NEW c \in Callers, AfterSend(c) PROVE TypeOK'
  BY <1>2, <1>10, <1>14 DEF AfterSend, TypeOK
<1>15. ASSUME NEW u \in Users, Receive(u) PROVE TypeOK'
  BY <1>15 DEF Receive, TypeOK
<1>16. CASE LoseSession \/ ClearContexts \/ BeginLogin \/ UNCHANGED vars
  <2>1. {ready, login}' \subseteq BOOLEAN
    BY <1>16 DEF LoseSession, ClearContexts, BeginLogin, vars, TypeOK
  <2>2. known' \subseteq Users
    BY <1>16 DEF LoseSession, ClearContexts, BeginLogin, vars, TypeOK
  <2>3. UNCHANGED <<generation, callVars>>
    BY <1>16 DEF LoseSession, ClearContexts, BeginLogin, vars
  <2> QED BY <2>1, <2>2, <2>3 DEF TypeOK
<1>17. CASE InstallSession
  <2>1. Active \in SUBSET Callers
    BY DEF Active
  <2>2. entry' \in [Keys -> Entries] /\ tried' \in [Keys -> Trials]
    BY <1>17, <2>1, CollectFacts DEF InstallSession
  <2>3. generation' \in 1..MaxGeneration /\ gen' \in [Callers -> 1..generation']
    <3>1. generation \in 1..MaxGeneration /\ generation' = generation + 1
          /\ generation < MaxGeneration
      BY <1>17 DEF InstallSession, TypeOK, Bounded
    <3>2. 1..generation \subseteq 1..generation'
      BY <3>1, Constants
    <3> QED BY <1>17, <3>1, <3>2, Constants DEF InstallSession, TypeOK
  <2>4. {ready, login}' \subseteq BOOLEAN
    BY <1>17 DEF InstallSession
  <2>5. UNCHANGED <<known, now, pc, user, start, ticket, err>>
    BY <1>17 DEF InstallSession
  <2> QED BY <2>2, <2>3, <2>4, <2>5 DEF TypeOK, Entries, Trials
<1>18. CASE Tick
  <2>1. now' \in 0..MaxTime /\ now \in 0..now' /\ now \in Nat
    BY <1>18, Constants DEF Tick, TypeOK
  <2>2. 0..now \subseteq 0..now'
    BY <2>1
  <2>3. start' \in [Callers -> 0..now']
    BY <1>18, <2>2 DEF Tick, TypeOK
  <2> QED BY <1>18, <2>1, <2>3 DEF Tick, TypeOK
<1> QED BY <1>1, <1>3, <1>4, <1>5, <1>7, <1>8, <1>9, <1>11, <1>12, <1>13, <1>14, <1>15,
           <1>16, <1>17, <1>18 DEF Next, Step

----------------------------------------------------------------------------
(***************************************************************************)
(* The lock of an entry is held by the call that fetches for it, and only  *)
(* by that one.  A ticket, in the cache or in a local variable, is the one *)
(* of the entry's or the call's session and user.  What is known of the    *)
(* last fetch of an entry agrees with the time at which it may be fetched  *)
(* again.                                                                  *)
(***************************************************************************)
FetchPlaces == {"fetch", "fetching"}
BeforeFetch == {"idle", "token", "cache"}

Locked ==
    /\ \A c \in Callers : pc[c] \in FetchPlaces => entry[Key(c)].mu = c
    /\ \A k \in Keys, c \in Callers : entry[k].mu = c => pc[c] \in FetchPlaces /\ Key(c) = k

EntryTickets == \A k \in Keys : entry[k].ticket \in {k, NoTicket}

CallTickets ==
    \A c \in Callers :
        /\ ticket[c] \in {Key(c), NoTicket}
        /\ pc[c] \in BeforeFetch => ticket[c] = NoTicket
        /\ pc[c] \in {"send", "sending"} => ticket[c] # NoTicket

RequestsCurrent == \A c \in Callers : pc[c] \in InFlight => gen[c] = generation

\* An entry at rest may be fetched again after the delay counted from the start
\* of the last fetch; a lock holder remembers that start.
PacedEntry(e, h) ==
    /\ h.last <= now
    /\ e.retryDelay = 0 \/ e.retryDelay >= InitialRetryDelay
    /\ e.nextFetchAt = Never \/ h.failures > 0 \/ e.nextFetchAt <= h.good + TTL
    /\ h.failures > 0 =>
          /\ e.nextFetchAt <= h.last + MaxRetryDelay /\ e.retryDelay > 0
          /\ e.mu = NoCaller => e.nextFetchAt = h.last + e.retryDelay
    /\ \A c \in Callers : e.mu = c => h.last = start[c]

Paced == \A k \in Keys : PacedEntry(entry[k], tried[k])

Inv == TypeOK /\ Bounded /\ Locked /\ EntryTickets /\ CallTickets /\ RequestsCurrent /\ Paced

LEMMA InvInit == Init => Inv
<1> SUFFICES ASSUME Init PROVE Inv
  OBVIOUS
<1>1. TypeOK /\ Bounded
  BY TypeInit
<1>2. \A k \in Keys : entry[k] = NewEntry /\ tried[k] = Untried
  BY DEF Init
<1>3. \A c \in Callers : pc[c] = "idle" /\ ticket[c] = NoTicket
  BY DEF Init
<1>4. Locked /\ EntryTickets
  BY <1>2, <1>3, CallersAssumption DEF Locked, EntryTickets, FetchPlaces, NewEntry
<1>5. CallTickets /\ RequestsCurrent
  BY <1>3 DEF CallTickets, RequestsCurrent, InFlight
<1>6. Paced
  BY <1>1, <1>2, Constants, CallersAssumption DEF Paced, PacedEntry, NewEntry, Untried, Never, TypeOK
<1> QED BY <1>1, <1>4, <1>5, <1>6 DEF Inv

----------------------------------------------------------------------------
(***************************************************************************)
(* What the steps do to the calls and the entries: most only move a call   *)
(* or end it.                                                              *)
(***************************************************************************)
Move(c, place) ==
    /\ <<pc[c], place>> \in {<<"token", "cache">>, <<"fetch", "fetching">>,
                             <<"fetched", "send">>, <<"send", "sending">>,
                             <<"sending", "sent">>}
    /\ place \in InFlight => gen[c] = generation
    /\ place = "send" => ticket[c] # NoTicket
    /\ Goto(c, place)
    /\ UNCHANGED <<generation, now, entry, tried, gen, user, ticket, start>>

End(c) ==
    /\ pc[c] \notin FetchPlaces /\ Return(c)
    /\ UNCHANGED <<generation, now, user, start>>

FetchEnds(c) ==
    /\ pc[c] \in FetchPlaces
    /\ \E e \in {"error", "expired"} : FetchFails(c, e)
    /\ UNCHANGED <<generation, now, gen, user, ticket>>

FetchAnswered(c) ==
    \E t \in {NoTicket, Key(c)}, l \in 0..(TTL - 1) : FetchOK(c, t, l)

Elsewhere == UNCHANGED <<generation, callVars>>

LEMMA StepShapes ==
    ASSUME NEW c \in Callers, Step(c)
    PROVE  \/ \E place \in Places : Move(c, place)
           \/ End(c) \/ CacheHit(c) \/ CacheMiss(c) \/ FetchEnds(c) \/ FetchAnswered(c)
<1> USE DEF sessionVars, argVars, returnVars, Places, FetchPlaces, InFlight
<1>1. CASE LookUpToken(c)
  BY <1>1 DEF LookUpToken, Move, End
<1>2. CASE BeginFetch(c)
  BY <1>2 DEF BeginFetch, SessionReady, Move, FetchEnds
<1>3. CASE \E t \in {NoTicket, <<gen[c], user[c]>>}, l \in 0..(TTL - 1) : FetchOK(c, t, l)
  BY <1>3 DEF FetchAnswered, Key
<1>4. CASE \E e \in {"error", "expired"} : FetchError(c, e)
  BY <1>4 DEF FetchError, FetchEnds
<1>5. CASE AfterCache(c)
  BY <1>5 DEF AfterCache, HandleError, Move, End
<1>6. CASE BeginSend(c)
  BY <1>6 DEF BeginSend, SessionReady, Move, End
<1>7. CASE AfterSend(c)
  BY <1>7 DEF AfterSend, HandleError, End
<1>8. CASE \E e \in {"nil", "error", "expired"} : AnswerSend(c, e)
  BY <1>8 DEF AnswerSend, Move
<1> QED BY <1>1, <1>2, <1>3, <1>4, <1>5, <1>6, <1>7, <1>8 DEF Step

LEMMA Shapes ==
    ASSUME [Next]_vars
    PROVE  \/ \E c \in Callers :
                \/ \E place \in Places : Move(c, place)
                \/ Call(c) \/ End(c) \/ CacheHit(c) \/ CacheMiss(c)
                \/ FetchEnds(c) \/ FetchAnswered(c)
           \/ Elsewhere \/ InstallSession \/ Tick
<1>1. ASSUME NEW u \in Users, Receive(u) PROVE Elsewhere
  BY <1>1 DEF Receive, Elsewhere, callVars
<1>2. LoseSession \/ ClearContexts \/ BeginLogin \/ UNCHANGED vars => Elsewhere
  BY DEF LoseSession, ClearContexts, BeginLogin, vars, Elsewhere, callVars, sessionVars, argVars
<1> QED BY <1>1, <1>2, StepShapes DEF Next

\* Only the moving call's place changes.
LEMMA GotoFacts ==
    ASSUME TypeOK, NEW c \in Callers, NEW place, Goto(c, place)
    PROVE  pc'[c] = place /\ \A d \in Callers \ {c} : pc'[d] = pc[d]
BY DEF TypeOK, Goto

\* The calls other than c keep their keys and, if they are active, their entries.
LEMMA EndFacts ==
    ASSUME TypeOK, NEW c \in Callers, End(c)
    PROVE  /\ pc'[c] = "idle" /\ ticket'[c] = NoTicket
           /\ \A d \in Callers \ {c} : pc'[d] = pc[d] /\ gen'[d] = gen[d] /\ ticket'[d] = ticket[d]
           /\ \A d \in Callers \ {c} : Key(d)' = Key(d)
           /\ UNCHANGED <<user, start, now, generation>>
           /\ \A k \in Keys : \/ entry'[k] = entry[k] /\ tried'[k] = tried[k]
                              \/ entry'[k] = NewEntry /\ tried'[k] = Untried
           /\ \A d \in Callers \ {c} : pc[d] # "idle" => entry'[Key(d)] = entry[Key(d)]
<1>1. Active \ {c} \in SUBSET Callers /\ Collect(generation, Active \ {c})
  BY DEF Active, End, Return
<1>2. \A k \in Keys : \/ entry'[k] = entry[k] /\ tried'[k] = tried[k]
                      \/ entry'[k] = NewEntry /\ tried'[k] = Untried
  BY <1>1, CollectCases
<1>3. \A d \in Callers \ {c} : pc[d] # "idle" => entry'[Key(d)] = entry[Key(d)]
  BY <1>1, CollectFacts DEF Active
<1>4. /\ pc'[c] = "idle" /\ ticket'[c] = NoTicket
      /\ \A d \in Callers \ {c} : pc'[d] = pc[d] /\ gen'[d] = gen[d] /\ ticket'[d] = ticket[d]
      /\ UNCHANGED <<user, start, now, generation>>
  BY DEF End, Return, Goto, TypeOK
<1>5. \A d \in Callers \ {c} : Key(d)' = Key(d)
  BY <1>4 DEF Key
<1> QED BY <1>2, <1>3, <1>4, <1>5

LEMMA InstallFacts ==
    ASSUME TypeOK, InstallSession
    PROVE  /\ UNCHANGED <<pc, gen, user, ticket, start, now>>
           /\ \A c \in Callers : pc[c] \notin InFlight
           /\ \A k \in Keys : \/ entry'[k] = entry[k] /\ tried'[k] = tried[k]
                              \/ entry'[k] = NewEntry /\ tried'[k] = Untried
           /\ \A d \in Callers : pc[d] # "idle" => entry'[Key(d)] = entry[Key(d)]
<1>1. Active \in SUBSET Callers /\ Collect(generation + 1, Active)
  BY DEF Active, InstallSession
<1>2. \A k \in Keys : \/ entry'[k] = entry[k] /\ tried'[k] = tried[k]
                      \/ entry'[k] = NewEntry /\ tried'[k] = Untried
  BY <1>1, CollectCases
<1>3. \A d \in Callers : pc[d] # "idle" => entry'[Key(d)] = entry[Key(d)]
  BY <1>1, CollectFacts DEF Active
<1> QED BY <1>2, <1>3 DEF InstallSession, argVars

\* One entry changes when a fetch begins or ends.
LEMMA MissFacts ==
    ASSUME TypeOK, NEW c \in Callers, CacheMiss(c)
    PROVE  /\ pc[c] = "cache" /\ pc'[c] = "fetch" /\ \A d \in Callers \ {c} : pc'[d] = pc[d]
           /\ entry[Key(c)].mu = NoCaller /\ now >= entry[Key(c)].nextFetchAt
           /\ entry'[Key(c)] = [entry[Key(c)] EXCEPT !.mu = c]
           /\ tried'[Key(c)] = [tried[Key(c)] EXCEPT !.last = now]
           /\ \A k \in Keys \ {Key(c)} : entry'[k] = entry[k] /\ tried'[k] = tried[k]
           /\ start'[c] = now /\ \A d \in Callers \ {c} : start'[d] = start[d]
           /\ UNCHANGED <<generation, now, gen, user, ticket>>
BY KeyFacts, GotoFacts DEF CacheMiss, TypeOK, sessionVars, argVars

LEMMA EndsFacts ==
    ASSUME TypeOK, NEW c \in Callers, FetchEnds(c)
    PROVE  /\ pc[c] \in FetchPlaces /\ pc'[c] = "fetched"
           /\ \A d \in Callers \ {c} : pc'[d] = pc[d] /\ start'[d] = start[d]
           /\ entry'[Key(c)] = [ticket |-> entry[Key(c)].ticket, mu |-> NoCaller,
                                nextFetchAt |-> start[c] + NextDelay(entry[Key(c)].retryDelay),
                                retryDelay |-> NextDelay(entry[Key(c)].retryDelay)]
           /\ tried'[Key(c)] = [tried[Key(c)] EXCEPT !.failures = @ + 1]
           /\ \A k \in Keys \ {Key(c)} : entry'[k] = entry[k] /\ tried'[k] = tried[k]
           /\ UNCHANGED <<generation, now, gen, user, ticket>>
BY KeyFacts, GotoFacts DEF FetchEnds, FetchFails, TypeOK

LEMMA AnsweredFacts ==
    ASSUME TypeOK, NEW c \in Callers, FetchAnswered(c)
    PROVE  \E t \in {NoTicket, Key(c)}, l \in 0..(TTL - 1) :
           /\ pc[c] = "fetching" /\ pc'[c] = "fetched"
           /\ \A d \in Callers \ {c} :
                 pc'[d] = pc[d] /\ start'[d] = start[d] /\ ticket'[d] = ticket[d]
           /\ ticket'[c] = t
           /\ entry'[Key(c)] = [ticket |-> t, mu |-> NoCaller,
                                nextFetchAt |-> start[c] + l,
                                retryDelay |-> InitialRetryDelay]
           /\ tried'[Key(c)] = [tried[Key(c)] EXCEPT !.failures = 0, !.good = start[c]]
           /\ \A k \in Keys \ {Key(c)} : entry'[k] = entry[k] /\ tried'[k] = tried[k]
           /\ UNCHANGED <<generation, now, gen, user>>
<1> PICK t \in {NoTicket, Key(c)}, l \in 0..(TTL - 1) : FetchOK(c, t, l)
  BY DEF FetchAnswered
<1> QED BY KeyFacts, GotoFacts DEF FetchOK, TypeOK, sessionVars, argVars

----------------------------------------------------------------------------
LEMMA LockedNext == ASSUME Inv, [Next]_vars PROVE Locked'
<1> USE DEF FetchPlaces
<1>1. /\ TypeOK /\ Locked
      /\ \A c \in Callers : Key(c) \in Keys /\ c # NoCaller
  BY KeyFacts, CallersAssumption DEF Inv
<1>2. ASSUME NEW c \in Callers, NEW place \in Places, Move(c, place) PROVE Locked'
  <2>1. /\ pc'[c] = place /\ \A d \in Callers \ {c} : pc'[d] = pc[d]
        /\ entry' = entry /\ \A d \in Callers : Key(d)' = Key(d)
    BY <1>1, <1>2, GotoFacts DEF Move, Key
  <2>2. pc[c] \in FetchPlaces <=> place \in FetchPlaces
    BY <1>2 DEF Move
  <2> QED BY <1>1, <2>1, <2>2 DEF Locked
<1>3. ASSUME NEW c \in Callers, Call(c) PROVE Locked'
  <2>1. /\ pc[c] = "idle" /\ pc'[c] = "token" /\ \A d \in Callers \ {c} : pc'[d] = pc[d]
        /\ entry' = entry /\ \A d \in Callers \ {c} : Key(d)' = Key(d)
    BY <1>1, <1>3, GotoFacts DEF Call, Key, TypeOK
  <2> QED BY <1>1, <2>1 DEF Locked
<1>4. ASSUME NEW c \in Callers, End(c) PROVE Locked'
  BY <1>1, <1>4, EndFacts DEF Locked, End, NewEntry
<1>5. ASSUME NEW c \in Callers, CacheHit(c) PROVE Locked'
  <2>1. /\ pc[c] = "cache" /\ pc'[c] = "fetched" /\ \A d \in Callers \ {c} : pc'[d] = pc[d]
        /\ entry' = entry /\ \A d \in Callers : Key(d)' = Key(d)
    BY <1>1, <1>5, GotoFacts DEF CacheHit, Key, argVars
  <2> QED BY <1>1, <2>1 DEF Locked
<1>6. ASSUME NEW c \in Callers, CacheMiss(c) PROVE Locked'
  <2>1. \A d \in Callers : Key(d)' = Key(d)
    BY <1>6 DEF CacheMiss, Key, argVars
  <2>2. /\ pc[c] = "cache" /\ pc'[c] = "fetch" /\ \A d \in Callers \ {c} : pc'[d] = pc[d]
        /\ entry[Key(c)].mu = NoCaller
        /\ \A k \in Keys \ {Key(c)} : entry'[k] = entry[k]
    BY <1>1, <1>6, MissFacts
  <2>3. entry'[Key(c)].mu = c
    <3>1. entry'[Key(c)] = [entry[Key(c)] EXCEPT !.mu = c]
      BY <1>1, <1>6, MissFacts
    <3> QED BY <1>1, <3>1 DEF TypeOK
  <2>4. \A d \in Callers \ {c} : pc[d] \in FetchPlaces => Key(d) # Key(c)
    BY <1>1, <2>2 DEF Locked
  <2>5. (\A d \in Callers : pc[d] \in FetchPlaces => entry[Key(d)].mu = d)'
    BY <1>1, <2>1, <2>2, <2>3, <2>4 DEF Locked
  <2>6. (\A k \in Keys, d \in Callers : entry[k].mu = d => pc[d] \in FetchPlaces /\ Key(d) = k)'
    BY <1>1, <2>1, <2>2, <2>3, <2>4 DEF Locked
  <2> QED BY <2>5, <2>6 DEF Locked
<1>7. ASSUME NEW c \in Callers, FetchEnds(c) \/ FetchAnswered(c) PROVE Locked'
  <2>1. /\ \A d \in Callers : Key(d)' = Key(d)
        /\ entry'[Key(c)].mu = NoCaller /\ pc[c] \in FetchPlaces /\ pc'[c] = "fetched"
        /\ \A d \in Callers \ {c} : pc'[d] = pc[d]
        /\ \A k \in Keys \ {Key(c)} : entry'[k] = entry[k]
    <3>1. CASE FetchEnds(c)
      <4>1. /\ entry'[Key(c)] = [ticket |-> entry[Key(c)].ticket, mu |-> NoCaller,
                                nextFetchAt |-> start[c] + NextDelay(entry[Key(c)].retryDelay),
                                retryDelay |-> NextDelay(entry[Key(c)].retryDelay)]
            /\ pc[c] \in FetchPlaces /\ pc'[c] = "fetched"
            /\ \A d \in Callers \ {c} : pc'[d] = pc[d]
            /\ \A k \in Keys \ {Key(c)} : entry'[k] = entry[k]
            /\ UNCHANGED <<gen, user>>
        BY <1>1, <3>1, EndsFacts
      <4> QED BY <4>1 DEF Key
    <3>2. CASE FetchAnswered(c)
      <4>1. PICK t \in {NoTicket, Key(c)}, l \in 0..(TTL - 1) :
               /\ entry'[Key(c)] = [ticket |-> t, mu |-> NoCaller,
                                    nextFetchAt |-> start[c] + l,
                                    retryDelay |-> InitialRetryDelay]
               /\ pc[c] = "fetching" /\ pc'[c] = "fetched"
               /\ \A d \in Callers \ {c} : pc'[d] = pc[d]
               /\ \A k \in Keys \ {Key(c)} : entry'[k] = entry[k]
               /\ UNCHANGED <<gen, user>>
        BY <1>1, <3>2, AnsweredFacts
      <4> QED BY <4>1 DEF Key
    <3> QED BY <1>7, <3>1, <3>2
  <2> QED BY <1>1, <2>1 DEF Locked
<1>8. CASE Elsewhere \/ Tick
  BY <1>1, <1>8 DEF Elsewhere, Tick, callVars, argVars, Locked, Key
<1>9. CASE InstallSession
  <2>1. \A d \in Callers : Key(d)' = Key(d)
    BY <1>1, <1>9, InstallFacts DEF Key
  <2> QED BY <1>1, <1>9, <2>1, InstallFacts DEF Locked, NewEntry
<1> QED BY <1>2, <1>3, <1>4, <1>5, <1>6, <1>7, <1>8, <1>9, Shapes

LEMMA EntryTicketsNext == ASSUME Inv, [Next]_vars PROVE EntryTickets'
<1>1. /\ TypeOK /\ EntryTickets
      /\ \A c \in Callers : Key(c) \in Keys
  BY KeyFacts DEF Inv
<1>2. ASSUME NEW c \in Callers, NEW place \in Places, Move(c, place) \/ Call(c) \/ CacheHit(c)
      PROVE  EntryTickets'
  BY <1>1, <1>2 DEF Move, Call, CacheHit, EntryTickets
<1>3. ASSUME NEW c \in Callers, End(c) PROVE EntryTickets'
  BY <1>1, <1>3, EndFacts DEF EntryTickets, NewEntry
<1>4. ASSUME NEW c \in Callers, CacheMiss(c) PROVE EntryTickets'
  <2>1. /\ entry'[Key(c)] = [entry[Key(c)] EXCEPT !.mu = c]
        /\ \A k \in Keys \ {Key(c)} : entry'[k] = entry[k]
    BY <1>1, <1>4, MissFacts
  <2>2. entry'[Key(c)].ticket = entry[Key(c)].ticket
    BY <1>1, <2>1 DEF TypeOK
  <2> QED BY <1>1, <2>1, <2>2 DEF EntryTickets
<1>5. ASSUME NEW c \in Callers, FetchEnds(c) PROVE EntryTickets'
  <2>1. /\ entry'[Key(c)] = [ticket |-> entry[Key(c)].ticket, mu |-> NoCaller,
                             nextFetchAt |-> start[c] + NextDelay(entry[Key(c)].retryDelay),
                             retryDelay |-> NextDelay(entry[Key(c)].retryDelay)]
        /\ \A k \in Keys \ {Key(c)} : entry'[k] = entry[k]
    BY <1>1, <1>5, EndsFacts
  <2> QED BY <1>1, <2>1 DEF EntryTickets
<1>6. ASSUME NEW c \in Callers, FetchAnswered(c) PROVE EntryTickets'
  <2>1. PICK t \in {NoTicket, Key(c)}, l \in 0..(TTL - 1) :
           /\ entry'[Key(c)] = [ticket |-> t, mu |-> NoCaller,
                                nextFetchAt |-> start[c] + l,
                                retryDelay |-> InitialRetryDelay]
           /\ \A k \in Keys \ {Key(c)} : entry'[k] = entry[k]
    BY <1>1, <1>6, AnsweredFacts
  <2>2. entry'[Key(c)].ticket \in {Key(c), NoTicket}
    BY <2>1
  <2> QED BY <1>1, <2>1, <2>2 DEF EntryTickets
<1>7. CASE Elsewhere \/ Tick
  BY <1>1, <1>7 DEF Elsewhere, Tick, callVars, EntryTickets
<1>8. CASE InstallSession
  BY <1>1, <1>8, InstallFacts DEF EntryTickets, NewEntry
<1>9. Places # {}
  BY DEF Places
<1> QED BY <1>2, <1>3, <1>4, <1>5, <1>6, <1>7, <1>8, <1>9, Shapes

LEMMA CallTicketsNext == ASSUME Inv, [Next]_vars PROVE CallTickets'
<1> USE DEF FetchPlaces, BeforeFetch
<1>1. /\ TypeOK /\ CallTickets
      /\ \A c \in Callers : Key(c) \in Keys
  BY KeyFacts DEF Inv
<1>2. ASSUME NEW c \in Callers, NEW place \in Places, Move(c, place) PROVE CallTickets'
  <2>1. /\ pc'[c] = place /\ \A d \in Callers \ {c} : pc'[d] = pc[d]
        /\ ticket' = ticket /\ \A d \in Callers : Key(d)' = Key(d)
    BY <1>1, <1>2, GotoFacts DEF Move, Key
  <2>2. /\ place \in BeforeFetch => ticket[c] = NoTicket
        /\ place \in {"send", "sending"} => ticket[c] # NoTicket
    BY <1>1, <1>2 DEF Move, CallTickets
  <2> QED BY <1>1, <2>1, <2>2 DEF CallTickets
<1>3. ASSUME NEW c \in Callers, Call(c) PROVE CallTickets'
  <2>1. /\ pc[c] = "idle" /\ pc'[c] = "token" /\ \A d \in Callers \ {c} : pc'[d] = pc[d]
        /\ ticket' = ticket /\ \A d \in Callers \ {c} : Key(d)' = Key(d)
    BY <1>1, <1>3, GotoFacts DEF Call, Key, TypeOK
  <2> QED BY <1>1, <2>1 DEF CallTickets
<1>4. ASSUME NEW c \in Callers, End(c) PROVE CallTickets'
  BY <1>1, <1>4, EndFacts DEF CallTickets
<1>5. ASSUME NEW c \in Callers, CacheHit(c) PROVE CallTickets'
  <2>1. /\ pc'[c] = "fetched" /\ \A d \in Callers \ {c} : pc'[d] = pc[d]
        /\ \A d \in Callers : Key(d)' = Key(d)
    BY <1>1, <1>5, GotoFacts DEF CacheHit, Key, argVars
  <2>2. /\ ticket'[c] = entry[Key(c)].ticket
        /\ \A d \in Callers \ {c} : ticket'[d] = ticket[d]
    BY <1>1, <1>5 DEF CacheHit, TypeOK
  <2>3. entry[Key(c)].ticket \in {Key(c), NoTicket}
    BY <1>1 DEF Inv, EntryTickets
  <2> QED BY <1>1, <2>1, <2>2, <2>3 DEF CallTickets
<1>6. ASSUME NEW c \in Callers, CacheMiss(c) \/ FetchEnds(c) PROVE CallTickets'
  <2>1. /\ pc'[c] \in {"fetch", "fetched"} /\ \A d \in Callers \ {c} : pc'[d] = pc[d]
        /\ UNCHANGED <<gen, user, ticket>>
    BY <1>1, <1>6, MissFacts, EndsFacts
  <2>2. \A d \in Callers : Key(d)' = Key(d)
    BY <2>1 DEF Key
  <2> QED BY <1>1, <2>1, <2>2 DEF CallTickets
<1>7. ASSUME NEW c \in Callers, FetchAnswered(c) PROVE CallTickets'
  <2>1. PICK t \in {NoTicket, Key(c)}, l \in 0..(TTL - 1) :
           /\ ticket'[c] = t /\ pc'[c] = "fetched"
           /\ \A d \in Callers \ {c} : pc'[d] = pc[d] /\ ticket'[d] = ticket[d]
           /\ UNCHANGED <<gen, user>>
    BY <1>1, <1>7, AnsweredFacts
  <2>2. \A d \in Callers : Key(d)' = Key(d)
    BY <2>1 DEF Key
  <2> QED BY <1>1, <2>1, <2>2 DEF CallTickets
<1>8. CASE Elsewhere \/ Tick
  BY <1>1, <1>8 DEF Elsewhere, Tick, callVars, argVars, CallTickets, Key
<1>9. CASE InstallSession
  <2>1. UNCHANGED <<pc, gen, user, ticket>>
    BY <1>1, <1>9, InstallFacts
  <2> QED BY <1>1, <2>1 DEF CallTickets, Key
<1> QED BY <1>2, <1>3, <1>4, <1>5, <1>6, <1>7, <1>8, <1>9, Shapes

LEMMA RequestsCurrentNext == ASSUME Inv, [Next]_vars PROVE RequestsCurrent'
<1> USE DEF InFlight
<1>1. TypeOK /\ RequestsCurrent
  BY DEF Inv
<1>2. ASSUME NEW c \in Callers, NEW place \in Places, Move(c, place) PROVE RequestsCurrent'
  <2>1. /\ pc'[c] = place /\ \A d \in Callers \ {c} : pc'[d] = pc[d]
        /\ UNCHANGED <<gen, generation>> /\ (place \in InFlight => gen[c] = generation)
    BY <1>1, <1>2, GotoFacts DEF Move
  <2> QED BY <1>1, <2>1 DEF RequestsCurrent
<1>3. ASSUME NEW c \in Callers, Call(c) PROVE RequestsCurrent'
  <2>1. /\ pc'[c] = "token" /\ \A d \in Callers \ {c} : pc'[d] = pc[d] /\ gen'[d] = gen[d]
        /\ generation' = generation
    BY <1>1, <1>3, GotoFacts DEF Call, TypeOK, sessionVars
  <2> QED BY <1>1, <2>1 DEF RequestsCurrent
<1>4. ASSUME NEW c \in Callers, End(c) PROVE RequestsCurrent'
  BY <1>1, <1>4, EndFacts DEF RequestsCurrent
<1>5. ASSUME NEW c \in Callers, CacheHit(c) PROVE RequestsCurrent'
  <2>1. /\ pc'[c] = "fetched" /\ \A d \in Callers \ {c} : pc'[d] = pc[d]
        /\ UNCHANGED <<gen, generation>>
    BY <1>1, <1>5, GotoFacts DEF CacheHit, argVars, sessionVars
  <2> QED BY <1>1, <2>1 DEF RequestsCurrent
<1>6. ASSUME NEW c \in Callers, CacheMiss(c) \/ FetchEnds(c) \/ FetchAnswered(c)
      PROVE  RequestsCurrent'
  <2>1. /\ pc'[c] \in {"fetch", "fetched"} /\ \A d \in Callers \ {c} : pc'[d] = pc[d]
        /\ UNCHANGED <<gen, generation>>
    BY <1>1, <1>6, MissFacts, EndsFacts, AnsweredFacts
  <2> QED BY <1>1, <2>1 DEF RequestsCurrent
<1>7. CASE Elsewhere \/ Tick
  BY <1>1, <1>7 DEF Elsewhere, Tick, callVars, argVars, sessionVars, RequestsCurrent
<1>8. CASE InstallSession
  <2>1. \A c \in Callers : pc'[c] \notin InFlight
    BY <1>1, <1>8, InstallFacts
  <2> QED BY <2>1 DEF RequestsCurrent
<1> QED BY <1>2, <1>3, <1>4, <1>5, <1>6, <1>7, <1>8, Shapes

LEMMA Values ==
    ASSUME TypeOK
    PROVE  /\ now \in Nat /\ \A c \in Callers : start[c] \in Nat /\ start[c] <= now
           /\ \A k \in Keys : /\ entry[k].nextFetchAt \in Int
                              /\ entry[k].retryDelay \in 0..MaxRetryDelay
                              /\ tried[k].last \in Int /\ tried[k].failures \in Nat
                              /\ tried[k].good \in Int
<1>1. now \in Nat /\ \A c \in Callers : start[c] \in 0..now
  BY DEF TypeOK
<1> QED BY <1>1 DEF TypeOK

LEMMA PacedNext == ASSUME Inv, [Next]_vars PROVE Paced'
<1>1. /\ TypeOK /\ Paced /\ Locked
      /\ \A c \in Callers : Key(c) \in Keys /\ c # NoCaller
  BY KeyFacts, CallersAssumption DEF Inv
<1>2. PacedEntry(NewEntry, Untried)
  BY <1>1, Values, CallersAssumption DEF PacedEntry, NewEntry, Untried, Never
<1>3. ASSUME UNCHANGED <<entry, tried, start>>, now' \in Nat, now <= now' PROVE Paced'
  <2> SUFFICES ASSUME NEW k \in Keys PROVE PacedEntry(entry[k], tried[k])'
    BY DEF Paced
  <2>1. PacedEntry(entry[k], tried[k]) /\ tried[k].last \in Int /\ now \in Nat
    BY <1>1, Values DEF Paced
  <2> QED BY <1>3, <2>1 DEF PacedEntry
<1>4. ASSUME UNCHANGED <<start, now>>,
             \A k \in Keys : \/ entry'[k] = entry[k] /\ tried'[k] = tried[k]
                             \/ entry'[k] = NewEntry /\ tried'[k] = Untried
      PROVE  Paced'
  <2> SUFFICES ASSUME NEW k \in Keys PROVE PacedEntry(entry[k], tried[k])'
    BY DEF Paced
  <2>1. PacedEntry(entry[k], tried[k])
    BY <1>1 DEF Paced
  <2>2. CASE entry'[k] = entry[k] /\ tried'[k] = tried[k]
    BY <1>4, <2>1, <2>2 DEF PacedEntry
  <2>3. CASE entry'[k] = NewEntry /\ tried'[k] = Untried
    BY <1>2, <1>4, <2>3 DEF PacedEntry
  <2> QED BY <1>4, <2>2, <2>3
<1>5. ASSUME NEW c \in Callers, NEW place \in Places, Move(c, place) \/ Call(c) \/ CacheHit(c)
      PROVE  Paced'
  <2>1. UNCHANGED <<entry, tried, start, now>>
    BY <1>5 DEF Move, Call, CacheHit
  <2> QED BY <1>1, <1>3, <2>1, Values
<1>6. ASSUME NEW c \in Callers, End(c) PROVE Paced'
  BY <1>1, <1>4, <1>6, EndFacts
<1>7. ASSUME NEW c \in Callers, CacheMiss(c) PROVE Paced'
  <2> SUFFICES ASSUME NEW k \in Keys PROVE PacedEntry(entry[k], tried[k])'
    BY DEF Paced
  <2>1. PacedEntry(entry[k], tried[k])
    BY <1>1 DEF Paced
  <2>2. /\ start'[c] = now /\ \A d \in Callers \ {c} : start'[d] = start[d]
        /\ now' = now /\ pc[c] = "cache"
    BY <1>1, <1>7, MissFacts
  <2>3. \A d \in Callers : entry[k].mu = d => d # c
    BY <1>1, <2>2 DEF Locked, FetchPlaces
  <2>4. CASE k = Key(c)
    <3>1. /\ entry'[k] = [entry[k] EXCEPT !.mu = c] /\ tried'[k] = [tried[k] EXCEPT !.last = now]
          /\ entry[k].mu = NoCaller
      BY <1>1, <1>7, <2>4, MissFacts
    <3>2. /\ entry'[k].mu = c /\ entry'[k].retryDelay = entry[k].retryDelay
          /\ entry'[k].nextFetchAt = entry[k].nextFetchAt
      BY <1>1, <3>1 DEF TypeOK
    <3>3. /\ tried'[k].last = now /\ tried'[k].failures = tried[k].failures
          /\ tried'[k].good = tried[k].good
      BY <1>1, <3>1 DEF TypeOK
    <3> QED BY <1>1, <2>1, <2>2, <3>2, <3>3, Values, Constants DEF PacedEntry
  <2>5. CASE k # Key(c)
    <3>1. entry'[k] = entry[k] /\ tried'[k] = tried[k]
      BY <1>1, <1>7, <2>5, MissFacts
    <3> QED BY <2>1, <2>2, <2>3, <3>1 DEF PacedEntry
  <2> QED BY <2>4, <2>5
<1>8. ASSUME NEW c \in Callers, FetchEnds(c) \/ FetchAnswered(c), NEW k \in Keys \ {Key(c)}
      PROVE  PacedEntry(entry[k], tried[k])'
  <2>1. PacedEntry(entry[k], tried[k])
    BY <1>1 DEF Paced
  <2>2. \A d \in Callers : entry[k].mu = d => d # c
    BY <1>1 DEF Locked
  <2>3. /\ entry'[k] = entry[k] /\ tried'[k] = tried[k] /\ now' = now
        /\ \A d \in Callers \ {c} : start'[d] = start[d]
    BY <1>1, <1>8, EndsFacts, AnsweredFacts
  <2> QED BY <2>1, <2>2, <2>3 DEF PacedEntry
<1>9. ASSUME NEW c \in Callers, FetchEnds(c) PROVE Paced'
  <2>1. PICK k \in Keys : k = Key(c)
    BY <1>1
  <2> DEFINE delay == NextDelay(entry[k].retryDelay)
  <2>2. /\ entry'[k] = [ticket |-> entry[k].ticket, mu |-> NoCaller,
                        nextFetchAt |-> start[c] + delay, retryDelay |-> delay]
        /\ tried'[k] = [tried[k] EXCEPT !.failures = @ + 1]
        /\ now' = now /\ pc[c] \in FetchPlaces
    BY <1>1, <1>9, <2>1, EndsFacts
  <2>3. entry[k].mu = c /\ PacedEntry(entry[k], tried[k])
    BY <1>1, <2>1, <2>2 DEF Locked, Paced
  <2>4. /\ tried'[k].last = tried[k].last /\ tried'[k].failures = tried[k].failures + 1
        /\ tried'[k].good = tried[k].good
    BY <1>1, <2>2 DEF TypeOK
  <2>5. tried[k].last = start[c] /\ tried[k].last <= now
    BY <2>3 DEF PacedEntry
  <2>6. /\ delay \in 1..MaxRetryDelay /\ delay >= InitialRetryDelay
        /\ start[c] \in Nat /\ tried[k].failures \in Nat
    BY <1>1, <2>3, NextDelayFacts, Values DEF PacedEntry
  <2>7. /\ entry'[k].mu = NoCaller /\ entry'[k].nextFetchAt = start[c] + delay
        /\ entry'[k].retryDelay = delay
    BY <2>2
  <2> HIDE DEF delay
  <2>8. PacedEntry(entry[k], tried[k])'
    BY <1>1, <2>2, <2>4, <2>5, <2>6, <2>7, Constants DEF PacedEntry
  <2> QED BY <1>8, <1>9, <2>1, <2>8 DEF Paced
<1>10. ASSUME NEW c \in Callers, FetchAnswered(c) PROVE Paced'
  <2>1. PICK k \in Keys : k = Key(c)
    BY <1>1
  <2>2. PICK t \in {NoTicket, Key(c)}, l \in 0..(TTL - 1) :
        /\ entry'[k] = [ticket |-> t, mu |-> NoCaller, nextFetchAt |-> start[c] + l,
                        retryDelay |-> InitialRetryDelay]
        /\ tried'[k] = [tried[k] EXCEPT !.failures = 0, !.good = start[c]]
        /\ now' = now
    BY <1>1, <1>10, <2>1, AnsweredFacts
  <2>3. PacedEntry(entry[k], tried[k])
    BY <1>1 DEF Paced
  <2>4. /\ tried'[k].last = tried[k].last /\ tried'[k].failures = 0
        /\ tried'[k].good = start[c]
    BY <1>1, <2>2 DEF TypeOK
  <2>5. /\ entry'[k].mu = NoCaller /\ entry'[k].nextFetchAt = start[c] + l
        /\ entry'[k].retryDelay = InitialRetryDelay
    BY <2>2
  <2>6. start[c] \in Nat /\ l \in Nat /\ l < TTL /\ tried[k].last <= now
    BY <1>1, <2>3, Values, Constants DEF PacedEntry
  <2>7. PacedEntry(entry[k], tried[k])'
    BY <1>1, <2>2, <2>4, <2>5, <2>6, Constants DEF PacedEntry
  <2> QED BY <1>8, <1>10, <2>1, <2>7 DEF Paced
<1>11. CASE Elsewhere \/ Tick
  <2>1. UNCHANGED <<entry, tried, start>> /\ (now' = now \/ now' = now + 1)
    BY <1>11 DEF Elsewhere, Tick, callVars
  <2> QED BY <1>1, <1>3, <2>1, Values
<1>12. CASE InstallSession
  BY <1>1, <1>4, <1>12, InstallFacts
<1>13. Places # {}
  BY DEF Places
<1> QED BY <1>5, <1>6, <1>7, <1>9, <1>10, <1>11, <1>12, <1>13, Shapes

----------------------------------------------------------------------------
LEMMA InvNext == ASSUME Inv, [Next]_vars PROVE Inv'
<1>1. TypeOK /\ Bounded
  BY DEF Inv
<1> QED BY <1>1, TypeNext, BoundedNext, LockedNext, EntryTicketsNext, CallTicketsNext,
           RequestsCurrentNext, PacedNext DEF Inv

LEMMA Invariance == Spec => []Inv
BY InvInit, InvNext, PTL DEF Spec

\* SendTyping and StopTyping send a ticket only in the session, and for the user,
\* that it was fetched for, with any number of calls, users and sessions.
THEOREM TicketInvariant == Spec => []TicketOfSession
<1>1. ASSUME Inv PROVE TicketOfSession
  <2> SUFFICES ASSUME NEW c \in Callers, pc[c] = "sending"
               PROVE  ticket[c] = <<generation, user[c]>>
    BY DEF TicketOfSession
  <2>1. ticket[c] = Key(c) /\ gen[c] = generation
    BY <1>1 DEF Inv, CallTickets, RequestsCurrent, InFlight
  <2> QED BY <2>1 DEF Key
<1> QED BY <1>1, Invariance, PTL

----------------------------------------------------------------------------
(***************************************************************************)
(* The delay of an entry is at least the back-off that belongs to its      *)
(* failures in a row.                                                      *)
(***************************************************************************)
Grown == \A k \in Keys : entry[k].retryDelay >= BackOff(tried[k].failures)

\* The back-offs begin with the first delay, double and stay within the largest.
LEMMA BackOffFacts ==
    ASSUME NEW n \in Nat \ {0}
    PROVE  /\ BackOff(n) \in Nat /\ BackOff(n) <= MaxRetryDelay
           /\ BackOff(1) = InitialRetryDelay
           /\ BackOff(n + 1) <= 2 * BackOff(n) /\ BackOff(n + 1) \in Nat
           /\ BackOff(n + 1) <= MaxRetryDelay
<1> DEFINE len == Len(RetryDelays)
<1>1. /\ RetryDelays \in Seq(Nat) /\ len \in Nat \ {0} /\ RetryDelays[1] = InitialRetryDelay
      /\ \A i \in 2..len :
            RetryDelays[i] = 2 * RetryDelays[i - 1] /\ RetryDelays[i] <= MaxRetryDelay
      /\ 2 * RetryDelays[len] > MaxRetryDelay
  BY DelaysAssumption
<1>2. \A i \in 1..len : RetryDelays[i] \in Nat /\ RetryDelays[i] <= MaxRetryDelay
  BY <1>1, Constants
<1> HIDE DEF len
<1>3. BackOff(1) = InitialRetryDelay
  BY <1>1 DEF BackOff, len
<1>4. BackOff(n) = IF n <= len THEN RetryDelays[n] ELSE MaxRetryDelay
  BY DEF BackOff, len
<1>5. BackOff(n + 1) = IF n + 1 <= len THEN RetryDelays[n + 1] ELSE MaxRetryDelay
  BY DEF BackOff, len
<1>6. CASE n + 1 <= len
  <2>1. RetryDelays[n + 1] = 2 * RetryDelays[n]
    BY <1>1, <1>6
  <2> QED BY <1>1, <1>2, <1>3, <1>4, <1>5, <1>6, <2>1
<1>7. CASE n = len
  BY <1>1, <1>2, <1>3, <1>4, <1>5, <1>7, Constants
<1>8. CASE n > len
  BY <1>1, <1>3, <1>4, <1>5, <1>8, Constants
<1> QED BY <1>1, <1>6, <1>7, <1>8

\* One more failure: the next delay is at least the next back-off.
LEMMA BackOffStep ==
    ASSUME NEW n \in Nat, NEW delay \in 0..MaxRetryDelay,
           delay = 0 \/ delay >= InitialRetryDelay, delay >= BackOff(n)
    PROVE  NextDelay(delay) >= BackOff(n + 1)
<1>1. NextDelay(delay) \in Nat
  BY NextDelayFacts, Constants
<1>2. CASE n = 0
  <2>1. NextDelay(delay) >= InitialRetryDelay
    BY NextDelayFacts
  <2>2. BackOff(n + 1) = InitialRetryDelay
    BY <1>2, BackOffFacts
  <2> QED BY <2>1, <2>2
<1>3. CASE n # 0
  <2>1. /\ BackOff(n) \in Nat /\ BackOff(n + 1) \in Nat
        /\ BackOff(n + 1) <= 2 * BackOff(n) /\ BackOff(n + 1) <= MaxRetryDelay
    BY <1>3, BackOffFacts
  <2>2. CASE delay = 0
    BY <1>1, <2>1, <2>2
  <2>3. CASE delay # 0
    <3>1. NextDelay(delay) = Min({2 * delay, MaxRetryDelay}) /\ 2 * delay \in Int
      BY <2>3, Constants DEF NextDelay
    <3>2. NextDelay(delay) \in {2 * delay, MaxRetryDelay}
      BY <3>1, Constants DEF Min
    <3> QED BY <2>1, <3>2, Constants
  <2> QED BY <2>2, <2>3
<1> QED BY <1>2, <1>3

LEMMA GrownNext == ASSUME Inv, Grown, [Next]_vars PROVE Grown'
<1>1. /\ TypeOK /\ Paced
      /\ \A c \in Callers : Key(c) \in Keys
  BY KeyFacts DEF Inv
<1>2. NewEntry.retryDelay >= BackOff(Untried.failures)
  BY DEF NewEntry, Untried, BackOff
<1>3. ASSUME \A k \in Keys : \/ entry'[k] = entry[k] /\ tried'[k] = tried[k]
                             \/ entry'[k] = NewEntry /\ tried'[k] = Untried
      PROVE  Grown'
  <2> SUFFICES ASSUME NEW k \in Keys PROVE entry'[k].retryDelay >= BackOff(tried'[k].failures)
    BY DEF Grown, BackOff
  <2>1. CASE entry'[k] = entry[k] /\ tried'[k] = tried[k]
    BY <2>1 DEF Grown
  <2>2. CASE entry'[k] = NewEntry /\ tried'[k] = Untried
    BY <1>2, <2>2
  <2> QED BY <1>3, <2>1, <2>2
<1>4. ASSUME NEW c \in Callers, \A k \in Keys \ {Key(c)} : entry'[k] = entry[k] /\ tried'[k] = tried[k],
             entry'[Key(c)].retryDelay >= BackOff(tried'[Key(c)].failures)
      PROVE  Grown'
  <2> SUFFICES ASSUME NEW k \in Keys PROVE entry'[k].retryDelay >= BackOff(tried'[k].failures)
    BY DEF Grown, BackOff
  <2> QED BY <1>4 DEF Grown
<1>5. ASSUME NEW c \in Callers, NEW place \in Places, Move(c, place) \/ Call(c) \/ CacheHit(c)
      PROVE  Grown'
  <2>1. UNCHANGED <<entry, tried>>
    BY <1>5 DEF Move, Call, CacheHit
  <2> QED BY <1>3, <2>1
<1>6. ASSUME NEW c \in Callers, End(c) PROVE Grown'
  BY <1>1, <1>3, <1>6, EndFacts
<1>7. ASSUME NEW c \in Callers, CacheMiss(c) PROVE Grown'
  <2>1. PICK k \in Keys : k = Key(c)
    BY <1>1
  <2>2. /\ entry'[k] = [entry[k] EXCEPT !.mu = c] /\ tried'[k] = [tried[k] EXCEPT !.last = now]
        /\ \A j \in Keys \ {k} : entry'[j] = entry[j] /\ tried'[j] = tried[j]
    BY <1>1, <1>7, <2>1, MissFacts
  <2>3. entry'[k].retryDelay = entry[k].retryDelay /\ tried'[k].failures = tried[k].failures
    BY <1>1, <2>2 DEF TypeOK
  <2> QED BY <1>4, <2>1, <2>2, <2>3 DEF Grown
<1>8. ASSUME NEW c \in Callers, FetchEnds(c) PROVE Grown'
  <2>1. PICK k \in Keys : k = Key(c)
    BY <1>1
  <2> DEFINE delay == NextDelay(entry[k].retryDelay)
  <2>2. /\ entry'[k] = [ticket |-> entry[k].ticket, mu |-> NoCaller,
                        nextFetchAt |-> start[c] + delay, retryDelay |-> delay]
        /\ tried'[k] = [tried[k] EXCEPT !.failures = @ + 1]
        /\ \A j \in Keys \ {k} : entry'[j] = entry[j] /\ tried'[j] = tried[j]
    BY <1>1, <1>8, <2>1, EndsFacts
  <2>3. tried'[k].failures = tried[k].failures + 1 /\ entry'[k].retryDelay = delay
    BY <1>1, <2>2 DEF TypeOK
  <2>4. NextDelay(entry[k].retryDelay) >= BackOff(tried[k].failures + 1)
    BY <1>1, BackOffStep, Values DEF Grown, Paced, PacedEntry
  <2> QED BY <1>4, <2>1, <2>2, <2>3, <2>4
<1>9. ASSUME NEW c \in Callers, FetchAnswered(c) PROVE Grown'
  <2>1. PICK k \in Keys : k = Key(c)
    BY <1>1
  <2>2. PICK t \in {NoTicket, Key(c)}, l \in 0..(TTL - 1) :
        /\ entry'[k] = [ticket |-> t, mu |-> NoCaller, nextFetchAt |-> start[c] + l,
                        retryDelay |-> InitialRetryDelay]
        /\ tried'[k] = [tried[k] EXCEPT !.failures = 0, !.good = start[c]]
        /\ \A j \in Keys \ {k} : entry'[j] = entry[j] /\ tried'[j] = tried[j]
    BY <1>1, <1>9, <2>1, AnsweredFacts
  <2>3. tried'[k].failures = 0 /\ entry'[k].retryDelay = InitialRetryDelay
    BY <1>1, <2>2 DEF TypeOK
  <2>4. InitialRetryDelay >= BackOff(0)
    BY Constants DEF BackOff
  <2> QED BY <1>4, <2>1, <2>2, <2>3, <2>4
<1>10. CASE Elsewhere \/ Tick
  BY <1>3, <1>10 DEF Elsewhere, Tick, callVars
<1>11. CASE InstallSession
  BY <1>1, <1>3, <1>11, InstallFacts
<1>12. Places # {}
  BY DEF Places
<1> QED BY <1>5, <1>6, <1>7, <1>8, <1>9, <1>10, <1>11, <1>12, Shapes

\* GetForUser paces its fetches, for every interleaving of the callers and every
\* choice of the delays: one fetch per entry at a time, after n failures in a
\* row none before the n-th delay has passed since the last one began, and what
\* is answered from the cache is fresh.
THEOREM PacedFetches == Spec => FetchesPaced
<1> DEFINE PacedCall(c) ==
        LET k == Key(c)
        IN  /\ CacheMiss(c) => /\ Fetching(k) = {}
                               /\ tried[k].last # Never =>
                                    now >= tried[k].last + BackOff(tried[k].failures)
            /\ CacheHit(c) => Fresh(k)
<1>1. ASSUME Inv, Grown, NEW c \in Callers PROVE PacedCall(c)
  <2>1. /\ Key(c) \in Keys /\ PacedEntry(entry[Key(c)], tried[Key(c)])
        /\ TypeOK /\ NoCaller \notin Callers
        /\ entry[Key(c)].retryDelay >= BackOff(tried[Key(c)].failures)
    BY <1>1, KeyFacts, CallersAssumption DEF Inv, Paced, Grown
  <2>2. ASSUME CacheMiss(c) PROVE Fetching(Key(c)) = {}
    BY <1>1, <2>1, <2>2 DEF CacheMiss, Inv, Locked, Fetching, FetchPlaces
  <2>3. ASSUME CacheMiss(c)
        PROVE  now >= tried[Key(c)].last + BackOff(tried[Key(c)].failures)
    <3>1. CASE tried[Key(c)].failures = 0
      <4>1. BackOff(tried[Key(c)].failures) = 0
        BY <3>1 DEF BackOff
      <4> QED BY <2>1, <4>1, Values DEF PacedEntry
    <3>2. CASE tried[Key(c)].failures > 0
      <4>1. now >= tried[Key(c)].last + entry[Key(c)].retryDelay
        BY <2>1, <2>3, <3>2, Values, Constants DEF CacheMiss, PacedEntry
      <4>2. BackOff(tried[Key(c)].failures) \in Int
        BY <2>1, <3>2, Values, BackOffFacts
      <4> QED BY <2>1, <4>1, <4>2, Values
    <3> QED BY <2>1, <3>1, <3>2, Values
  <2>4. ASSUME CacheHit(c) PROVE Fresh(Key(c))
    <3>1. now < entry[Key(c)].nextFetchAt
      BY <2>4 DEF CacheHit
    <3> QED BY <2>1, <3>1, Values, Constants DEF PacedEntry, Fresh, Never
  <2> QED BY <2>2, <2>3, <2>4
<1>2. Inv /\ Grown => \A c \in Callers : PacedCall(c)
  BY <1>1
<1>3. Init => Grown
  BY DEF Init, Grown, NewEntry, Untried, BackOff
<1>4. Inv /\ Grown /\ [Next]_vars => Grown'
  BY GrownNext
<1>5. Spec => [][\A c \in Callers : PacedCall(c)]_vars
  <2> HIDE DEF PacedCall
  <2> QED BY <1>2, <1>3, <1>4, Invariance, PTL DEF Spec
<1> QED BY <1>5 DEF FetchesPaced

\* Every variable of the typing indicator and its cache keeps its range, with any
\* number of calls, users and sessions.
THEOREM TypeInvariant == Spec => []TypeOK
BY Invariance, PTL DEF Inv
=============================================================================
