----------------------------- MODULE PollTiming -----------------------------
(***************************************************************************)
(* The times of the long poll, in seconds: the deadline of getupdates (Run,*)
(* GetUpdates, apiPost, NewClient), the delay between polls that fail, and *)
(* how an answer is told from an error (apiPost).  Module RunLoop has what *)
(* is done with the messages.  A step is a turn of Run's loop.             *)
(***************************************************************************)
EXTENDS Integers, FiniteSetsExt

CONSTANTS
    FirstWaits,         \* how long the server holds polls before it has named a time
    Waits,              \* the times that it names
    Transits,           \* network and decoding time of an answer
    MaxFailures         \* bound: polls that fail in a row

Margin == 15            \* what GetUpdates adds to the server's wait
MinTimeout == 65
HTTPTimeout == 120      \* http.Client.Timeout of NewClient
MaxPollDelay == 10

\* Before it has named a time the server holds a poll for as long as the smallest
\* request time-out expects.  It may name any time.
ASSUME WaitsAssumption ==
    /\ \A w \in FirstWaits : w \in Nat /\ w + Margin <= MinTimeout
    /\ Waits \subseteq Nat \ {0}
    /\ Transits \subseteq Nat /\ MaxFailures \in Nat

\* What apiPost looks at: the status, how much of the envelope can be decoded (a
\* field of the wrong type leaves the others), and its codes.
Responses == [status : {200, 400}, decoded : {"all", "part", "nothing"},
              ret : {0, -1, -14}, errcode : {0, -14}]

VARIABLES
    pollTimeout, retryDelay,    \* local variables of Run
    wait,                       \* how long the server holds a poll
    expired,                    \* Run has returned, since the session has ended
    failed,                     \* history: polls that have failed in a row
    poll                        \* history: the last poll and the sleep after it

pollVars == <<pollTimeout, retryDelay, wait, expired, failed, poll>>

NoPoll == [prompt |-> FALSE, outcome |-> "none", sleep |-> 0]

PollInit ==
    /\ pollTimeout = 45 /\ retryDelay = 1 /\ wait \in FirstWaits
    /\ expired = FALSE /\ failed = 0 /\ poll = NoPoll

----------------------------------------------------------------------------
\* Fault: the deadline is the server's wait.
NoMargin(timeout) == timeout

RequestTimeout(timeout) == Max({timeout + Margin, MinTimeout})

\* The context's deadline and the client's time-out both count from the start.
Deadline(timeout) == Min({RequestTimeout(timeout), HTTPTimeout})

Codes(r) == IF r.decoded = "nothing" THEN {0} ELSE {r.ret, r.errcode}

\* A body that cannot be decoded is an error; so are an HTTP error and a code.  A
\* code -14, also under an HTTP error, is the end of the session.
Outcome(r) ==
    CASE r.status < 400 /\ r.decoded # "all" -> "error"
      [] -14 \in Codes(r) /\ (r.status < 400 => r.decoded = "all") -> "expired"
      [] -14 \notin Codes(r) /\ (r.status < 400 => r.decoded = "all") ->
            IF r.status < 400 /\ Codes(r) = {0} THEN "ok" ELSE "error"

Report(prompt, outcome, sleep) ==
    poll' = [prompt |-> prompt, outcome |-> outcome, sleep |-> sleep]

\* The answer may name another wait, or none (0).
Succeed(prompt, named) ==
    /\ pollTimeout' = IF named > 0 THEN named ELSE pollTimeout
    /\ wait' = IF named > 0 THEN named ELSE wait
    /\ retryDelay' = 1 /\ failed' = 0
    /\ Report(prompt, "ok", 0)
    /\ UNCHANGED expired

NextRetryDelay(delay) == Min({2 * delay, MaxPollDelay})

\* Run sleeps and polls again.
Fail(prompt) ==
    /\ failed < MaxFailures /\ failed' = failed + 1
    /\ Report(prompt, "error", retryDelay)
    /\ retryDelay' = NextRetryDelay(retryDelay)
    /\ UNCHANGED <<pollTimeout, wait, expired>>

\* The server holds the poll for as long as it has said.  A prompt answer needs
\* less than the margin on its way, after a wait that leaves it the margin in
\* the total time-out of the HTTP client: Run takes over longer waits unseen.
QuietPoll(transit, named) ==
    LET prompt == transit < Margin /\ wait + Margin <= HTTPTimeout
    IN  /\ ~expired
        /\ IF wait + transit < Deadline(pollTimeout)
           THEN Succeed(prompt, named) ELSE Fail(prompt)

\* There are messages, and the poll is answered at once.
EarlyPoll(named) == ~expired /\ Succeed(FALSE, named)

\* The request fails on the way.
TransportError == ~expired /\ Fail(FALSE)

\* An answer that may be an error.
Answered(r) ==
    /\ ~expired
    /\ \/ Outcome(r) = "ok" /\ Succeed(FALSE, 0)
       \/ Outcome(r) = "error" /\ Fail(FALSE)
       \/ /\ Outcome(r) = "expired" /\ expired' = TRUE /\ failed' = 0
          /\ Report(FALSE, "expired", 0)
          /\ UNCHANGED <<pollTimeout, retryDelay, wait>>

PollNext ==
    \/ \E t \in Transits, n \in Waits \cup {0} : QuietPoll(t, n)
    \/ \E n \in Waits \cup {0} : EarlyPoll(n)
    \/ \E r \in Responses : Answered(r)
    \/ TransportError

PollSpec == PollInit /\ [][PollNext]_pollVars

----------------------------------------------------------------------------
(***************************************************************************)
(* Properties.                                                             *)
(***************************************************************************)

\* The sleep after the n-th failure in a row.
Delays == <<1, 2, 4, 8>>
PollDelay(n) == IF n \in DOMAIN Delays THEN Delays[n] ELSE MaxPollDelay

\* Run retries after 1, 2, 4, 8 and then always 10 seconds, from 1 again after
\* any poll that succeeds; and a poll that the server holds for as long as it
\* said is not cut off by the client while its answer takes less than the
\* margin, whatever the server named before, also when it has named nothing.
\* Excepted are waits that leave no margin in the HTTP client's two minutes.
PollTimed ==
    /\ poll.sleep = IF poll.outcome = "error" THEN PollDelay(failed) ELSE 0
    /\ poll.prompt => poll.outcome = "ok"
=============================================================================
