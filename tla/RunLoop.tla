------------------------------ MODULE RunLoop ------------------------------
(***************************************************************************)
(* Bot.Run over many runs (run.go): the long-poll loop with its back-off,  *)
(* the ways it ends, its deferred calls, crashes, and the next Run, which  *)
(* resumes from the stored cursor and the stored replay identities.        *)
(*                                                                         *)
(* The processor is what Dispatcher was shown to be, OrderedDelivery; the  *)
(* steps of a delivery that other runs can observe (the handler is called, *)
(* its message is recorded) are kept apart.  The server holds a log of     *)
(* messages; a cursor is a position in it.                                 *)
(***************************************************************************)
EXTENDS Messages, FiniteSets

CONSTANTS
    ServerLog,              \* the messages, in the order the server sends them
    UpdateQueueCapacity,    \* updateQueueCapacity
    MaxFaults               \* bound: failures, redeliveries, stops and crashes

ASSUME ServerAssumption == ServerLog \in Seq(Wires) /\ NoCursor = 0

\* The strongest identity of a message, by which a replay is recognised, is its own.
ASSUME IdentitiesAssumption ==
    \A m, n \in 1..Len(ServerLog) :
        /\ ReplayKeys(ServerLog[m]) # {}
        /\ StrongestKey(ServerLog[m]) \in ReplayKeys(ServerLog[n])
        => m = n

ASSUME RunBoundsAssumption ==
    UpdateQueueCapacity \in Nat \ {0} /\ MaxFaults \in Nat

VARIABLES
    arrived,        \* how much of ServerLog the server has
    stored,         \* cursorStore
    seen,           \* the file of replayStore
    memory,         \* replayStore.seenAt
    running,        \* b.running
    pc,             \* where Run is
    pollDone,       \* pollCtx is cancelled
    session,        \* the session of this run: "ready", "reauth" or "changed"
    pollCursor, retryDelay,
    batch,          \* the batch that is about to be sent
    sent,           \* the batches sent on the channel in this run
    taken,          \* how many of them the processor has received
    consumed, committed,    \* as in OrderedDelivery
    handling,       \* the jobs whose handler has been called
    processor,      \* the processor goroutine
    failure,        \* d.firstError, as a kind of error
    errCh,          \* the content of processorErrCh
    result,         \* the kinds of error joined in runErr
    stopRequested,  \* Stop was called or ctx cancelled in this run
    faults,
    recorded        \* how often each message of ServerLog was recorded

D == INSTANCE OrderedDelivery WITH log <- sent

loopVars == <<pollCursor, retryDelay, batch>>
deliveryVars == <<stored, seen, memory, taken, consumed, committed, handling,
                  failure, recorded>>
runVars == <<running, pc, result>>
outsideVars == <<arrived, session, stopRequested, faults>>
vars == <<outsideVars, deliveryVars, runVars, loopVars, sent, pollDone, processor,
          errCh>>

----------------------------------------------------------------------------
Places == {"idle", "load", "notifyStart", "poll", "request", "sleep", "send",
           "stop", "defer", "notifyStop", "finish"}
Errors == {"load", "delivery", "transport", "reauth", "changed"}
NoBatch == [messages |-> <<>>, cursor |-> NoCursor, first |-> 0]
Positions == 1..Len(ServerLog)
Answers == [messages : Seq(Wires), cursor : Nat, first : Nat]

TypeOK ==
    /\ arrived \in 0..Len(ServerLog)
    /\ stored \in 0..arrived /\ pollCursor \in 0..arrived
    /\ seen \in SUBSET AllReplayKeys /\ memory \in SUBSET AllReplayKeys
    /\ running \in BOOLEAN /\ pollDone \in BOOLEAN /\ stopRequested \in BOOLEAN
    /\ pc \in Places
    /\ session \in {"ready", "reauth", "changed"}
    /\ retryDelay \in {1, 2, 4, 8, 10}
    /\ batch \in Answers \cup {NoBatch} /\ sent \in Seq(Answers)
    /\ taken \in 0..Len(sent) /\ committed \in 0..taken
    /\ Len(sent) - taken <= UpdateQueueCapacity
    /\ consumed \subseteq Job /\ handling \subseteq Job
    /\ processor \in {"none", "running", "sent", "done"}
    /\ failure \in Errors \cup {"none"} /\ errCh \in Errors \cup {"none"}
    /\ result \subseteq Errors
    /\ faults \in 0..MaxFaults
    /\ recorded \in [Positions -> Nat]

Init ==
    /\ arrived = 0 /\ stored = NoCursor /\ seen = {} /\ memory = {}
    /\ running = FALSE /\ pc = "idle" /\ result = {}
    /\ pollDone = FALSE /\ session = "ready" /\ stopRequested = FALSE
    /\ pollCursor = NoCursor /\ retryDelay = 1 /\ batch = NoBatch
    /\ sent = <<>> /\ taken = 0 /\ consumed = {} /\ committed = 0
    /\ handling = {} /\ failure = "none"
    /\ processor = "none" /\ errCh = "none"
    /\ faults = 0
    /\ recorded = [m \in Positions |-> 0]

Fault == faults < MaxFaults /\ faults' = faults + 1

----------------------------------------------------------------------------
(***************************************************************************)
(* Run.                                                                    *)
(***************************************************************************)

SessionErr == IF session = "ready" THEN {} ELSE {session}
InChannel == IF errCh = "none" THEN {} ELSE {errCh}

\* Run moves on and joins errors into runErr.
Goto(place, errors) ==
    /\ pc' = place
    /\ result' = result \cup errors
    /\ UNCHANGED running

BeginRun ==
    /\ ~running /\ session = "ready"
    /\ running' = TRUE /\ pc' = "load" /\ result' = {}
    /\ UNCHANGED <<outsideVars, deliveryVars, loopVars, sent, pollDone, processor,
                   errCh>>

\* Fault: only the cursor is loaded.
MemoryKept == memory

LoadedReplay == seen

Load ==
    /\ pc = "load"
    /\ memory' = LoadedReplay
    /\ Goto("notifyStart", {})
    /\ UNCHANGED <<outsideVars, stored, seen, taken, consumed, committed, handling,
                   failure, recorded, loopVars, sent, pollDone, processor, errCh>>

LoadFails ==
    /\ pc = "load" /\ Fault
    /\ Goto("finish", {"load"})
    /\ UNCHANGED <<arrived, session, stopRequested, deliveryVars, loopVars, sent,
                   pollDone, processor, errCh>>

\* NotifyStart succeeded, or failed with less than a lost session: the channel,
\* the processor and the locals of the loop are made.
NotifyStart ==
    /\ pc = "notifyStart" /\ session = "ready"
    /\ Goto("poll", {})
    /\ processor' = "running"
    /\ pollCursor' = stored /\ retryDelay' = 1
    /\ UNCHANGED <<outsideVars, deliveryVars, batch, sent, pollDone, errCh>>

\* The session was given up before, or by the answer to NotifyStart.
NotifyStartFails ==
    /\ pc = "notifyStart"
    /\ \/ session # "ready" /\ Goto("finish", SessionErr) /\ UNCHANGED <<session, faults>>
       \/ /\ session = "ready" /\ Fault
          /\ session' = "reauth"
          /\ Goto("finish", {"reauth"})
    /\ UNCHANGED <<arrived, stopRequested, deliveryVars, loopVars, sent, pollDone,
                   processor, errCh>>

\* The head of the loop: the processor's error first, then pollCtx; the request
\* is only made for the session of this run.
LoopHead ==
    /\ pc = "poll"
    /\ \/ /\ errCh # "none"
          /\ Goto("defer", {errCh} \cup SessionErr)
          /\ errCh' = "none"
       \/ errCh = "none" /\ pollDone /\ Goto("stop", {}) /\ UNCHANGED errCh
       \/ /\ errCh = "none" /\ ~pollDone
          /\ Goto(IF session = "ready" THEN "request" ELSE "stop", SessionErr)
          /\ UNCHANGED errCh
    /\ UNCHANGED <<outsideVars, deliveryVars, loopVars, sent, pollDone, processor>>

NextCursor(buf) == IF buf # NoCursor THEN buf ELSE pollCursor

\* GetUpdates returns the messages after pollCursor up to a position, with the
\* cursor for it or, now and then, without.
Answer(to, buf) ==
    LET news == SubSeq(ServerLog, pollCursor + 1, to)
    IN  /\ pc = "request"
        /\ \/ buf = to /\ UNCHANGED faults
           \/ buf = NoCursor /\ to # NoCursor /\ Fault
        /\ retryDelay' = 1
        /\ IF news # <<>> \/ NextCursor(buf) # pollCursor
           THEN /\ batch' = [messages |-> news, cursor |-> NextCursor(buf),
                             first |-> pollCursor + 1]
                /\ Goto("send", {})
           ELSE Goto("poll", {}) /\ UNCHANGED batch
        /\ UNCHANGED <<arrived, session, stopRequested, deliveryVars, pollCursor, sent,
                       pollDone, processor, errCh>>

\* An error of the request; one that says that the session expired ends it.
AnswerError ==
    /\ pc = "request"
    /\ CASE session = "reauth"    -> Goto("stop", {"transport", "reauth"})
         [] session # "reauth" /\ pollDone  -> Goto("stop", {})
         [] session # "reauth" /\ ~pollDone -> Goto("sleep", {})
    /\ UNCHANGED <<outsideVars, deliveryVars, loopVars, sent, pollDone, processor,
                   errCh>>

AnswerExpired ==
    /\ pc = "request" /\ session = "ready" /\ Fault
    /\ session' = "reauth"
    /\ Goto("stop", {"reauth"})
    /\ UNCHANGED <<arrived, stopRequested, deliveryVars, loopVars, sent, pollDone,
                   processor, errCh>>

NextDelay == IF retryDelay * 2 < 10 THEN retryDelay * 2 ELSE 10

\* The timer, or pollCtx.
Sleep ==
    /\ pc = "sleep"
    /\ \/ Goto("poll", {}) /\ retryDelay' = NextDelay
       \/ pollDone /\ Goto("stop", {}) /\ UNCHANGED retryDelay
    /\ UNCHANGED <<outsideVars, deliveryVars, pollCursor, batch, sent, pollDone,
                   processor, errCh>>

Send ==
    /\ pc = "send" /\ Len(sent) - taken < UpdateQueueCapacity
    /\ sent' = Append(sent, batch)
    /\ pollCursor' = batch.cursor /\ batch' = NoBatch
    /\ Goto("poll", {})
    /\ UNCHANGED <<outsideVars, deliveryVars, retryDelay, pollDone, processor, errCh>>

\* Fault: the send only listens to the processor's error.
ErrorOnly == errCh # "none" /\ Goto("defer", {errCh} \cup SessionErr) /\ errCh' = "none"

\* The other two cases of the select.
SendAborts ==
    \/ errCh # "none" /\ Goto("defer", {errCh} \cup SessionErr) /\ errCh' = "none"
    \/ pollDone /\ Goto("stop", {}) /\ UNCHANGED errCh

SendAborted ==
    /\ pc = "send" /\ SendAborts
    /\ UNCHANGED <<outsideVars, deliveryVars, loopVars, sent, pollDone, processor>>

\* stopResult and the deferred function begin with cancel().
Cancel ==
    /\ pc \in {"stop", "defer"} /\ ~pollDone
    /\ pollDone' = TRUE
    /\ UNCHANGED <<outsideVars, deliveryVars, runVars, loopVars, sent, processor, errCh>>

\* Fault: the result is made without waiting for the processor.
NotWaited == pollDone

\* <-processorDone
ProcessorDone == pollDone /\ processor = "done"

StopErrors == InChannel \cup SessionErr

StopResult ==
    /\ pc = "stop" /\ ProcessorDone
    /\ Goto("defer", StopErrors)
    /\ errCh' = "none"
    /\ UNCHANGED <<outsideVars, deliveryVars, loopVars, sent, pollDone, processor>>

\* Fault: the deferred function only cancels.
OnlyCancelled == pollDone

DeferredDone == pollDone /\ processor = "done"

DeferredWait ==
    /\ pc = "defer" /\ DeferredDone
    /\ Goto("notifyStop", {})
    /\ UNCHANGED <<outsideVars, deliveryVars, loopVars, sent, pollDone, processor,
                   errCh>>

\* NotifyStop is not sent for a session that is gone; its answer may end the
\* session, any other error is only logged.
NotifyStop ==
    /\ pc = "notifyStop"
    /\ \/ Goto("finish", {}) /\ UNCHANGED <<session, faults>>
       \/ /\ session = "ready" /\ Fault
          /\ session' = "reauth"
          /\ Goto("finish", {"reauth"})
    /\ UNCHANGED <<arrived, stopRequested, deliveryVars, loopVars, sent, pollDone,
                   processor, errCh>>

\* Errors of a session that has been replaced are reported as ErrSessionChanged.
NormalizeSessionChangeError(errors) ==
    IF session = "changed" THEN (errors \ {"reauth", "changed"}) \cup {"changed"}
    ELSE errors

\* Fault: b.running stays set.
RunningKept == running

RunningAfter == FALSE

\* The locals of Run are gone.  The next Run takes the session it finds.
Forget ==
    /\ pc' = "idle"
    /\ pollDone' = FALSE /\ stopRequested' = FALSE
    /\ pollCursor' = NoCursor /\ retryDelay' = 1 /\ batch' = NoBatch
    /\ sent' = <<>> /\ taken' = 0 /\ consumed' = {} /\ committed' = 0
    /\ handling' = {} /\ failure' = "none" /\ processor' = "none" /\ errCh' = "none"
    /\ session' = IF session = "changed" THEN "ready" ELSE session
    /\ UNCHANGED <<arrived, stored, seen, recorded>>

\* The last two deferred calls.
FinishRun ==
    /\ pc = "finish"
    /\ result' = NormalizeSessionChangeError(result)
    /\ running' = RunningAfter
    /\ Forget
    /\ UNCHANGED <<memory, faults>>

Run ==
    \/ Load \/ NotifyStart \/ NotifyStartFails \/ LoopHead
    \/ AnswerError \/ Sleep \/ Send \/ SendAborted
    \/ Cancel \/ StopResult \/ DeferredWait \/ NotifyStop \/ FinishRun

----------------------------------------------------------------------------
(***************************************************************************)
(* The processor and the deliveries.                                       *)
(***************************************************************************)

Working == processor = "running" /\ ~pollDone /\ failure = "none"
Wire(j) == sent[j[1]].messages[j[2]]
Position(j) == sent[j[1]].first + j[2] - 1

TakeBatch ==
    /\ Working /\ taken < Len(sent)
    /\ taken' = taken + 1
    /\ UNCHANGED <<outsideVars, stored, seen, memory, consumed, committed, handling,
                   failure, recorded, runVars, loopVars, sent, pollDone, processor,
                   errCh>>

\* Fault: any alias suppresses a delivery.
ReplayedByAlias(w) == ReplayKeys(w) \cap memory # {}

Replayed(w) == ReplayKeys(w) # {} /\ StrongestKey(w) \in memory

MayStart(j) ==
    /\ Working
    /\ j[1] <= taken /\ D!Decodable(j)
    /\ j \notin consumed \cup handling /\ D!Turn(j)

\* processWireMessage up to the call of the handler.
Handle(j) ==
    /\ MayStart(j) /\ session = "ready" /\ ~Replayed(Wire(j))
    /\ handling' = handling \cup {j}
    /\ UNCHANGED <<outsideVars, stored, seen, memory, taken, consumed, committed,
                   failure, recorded, runVars, loopVars, sent, pollDone, processor,
                   errCh>>

Skip(j) ==
    /\ MayStart(j) /\ session = "ready" /\ Replayed(Wire(j))
    /\ D!Consume(j)
    /\ UNCHANGED <<outsideVars, seen, memory, taken, handling, failure, recorded,
                   runVars, loopVars, pollDone, processor, errCh>>

\* The handler has acknowledged or dropped the message; its identities are kept.
Record(j) ==
    /\ j \in handling
    /\ D!Consume(j)
    /\ handling' = handling \ {j}
    /\ seen' = memory \cup ReplayKeys(Wire(j)) /\ memory' = seen'
    /\ recorded' = [recorded EXCEPT ![Position(j)] = @ + 1]
    /\ UNCHANGED <<outsideVars, taken, failure, runVars, loopVars, pollDone,
                   processor, errCh>>

FirstError(kind) == failure' = IF failure = "none" THEN kind ELSE failure

\* The handler asks for a retry, or the identities cannot be written.
DeliveryFails(j) ==
    /\ j \in handling /\ Fault
    /\ handling' = handling \ {j}
    /\ FirstError("delivery")
    /\ UNCHANGED <<arrived, session, stopRequested, stored, seen, memory, taken,
                   consumed, committed, recorded, runVars, loopVars, sent, pollDone,
                   processor, errCh>>

\* validateDeliverySession refuses.
DeliveryRefused(j) ==
    /\ MayStart(j) /\ session # "ready"
    /\ FirstError(session)
    /\ UNCHANGED <<outsideVars, stored, seen, memory, taken, consumed, committed,
                   handling, recorded, runVars, loopVars, sent, pollDone, processor,
                   errCh>>

\* advanceCursorLocked, for one batch.
Commit ==
    /\ processor = "running" /\ committed < taken
    /\ D!Commit
    /\ UNCHANGED <<outsideVars, seen, memory, taken, handling, failure, recorded,
                   runVars, loopVars, pollDone, processor, errCh>>

CommitReady ==
    /\ committed < taken
    /\ \A i \in 1..Len(sent[committed + 1].messages) : <<committed + 1, i>> \in consumed

CommitFails ==
    /\ processor = "running" /\ CommitReady /\ Fault
    /\ FirstError("delivery")
    /\ UNCHANGED <<arrived, session, stopRequested, stored, seen, memory, taken,
                   consumed, committed, handling, recorded, runVars, loopVars, sent,
                   pollDone, processor, errCh>>

\* processUpdateBatches returns once its goroutines have; an error goes into the
\* channel before pollCtx is cancelled.
ProcessorReturns ==
    /\ processor = "running" /\ ~Working /\ handling = {}
    /\ failure # "none" \/ ~CommitReady
    /\ processor' = IF failure = "none" THEN "done" ELSE "sent"
    /\ errCh' = failure
    /\ UNCHANGED <<outsideVars, deliveryVars, runVars, loopVars, sent, pollDone>>

ProcessorCancels ==
    /\ processor = "sent"
    /\ pollDone' = TRUE /\ processor' = "done"
    /\ UNCHANGED <<outsideVars, deliveryVars, runVars, loopVars, sent, errCh>>

Processor ==
    \/ TakeBatch \/ Commit \/ ProcessorReturns \/ ProcessorCancels
    \/ \E j \in Job : Handle(j) \/ Skip(j) \/ Record(j) \/ DeliveryRefused(j)

----------------------------------------------------------------------------
(***************************************************************************)
(* Everybody else.                                                         *)
(***************************************************************************)

Arrive ==
    /\ arrived < Len(ServerLog)
    /\ arrived' = arrived + 1
    /\ UNCHANGED <<session, stopRequested, faults, deliveryVars, runVars, loopVars,
                   sent, pollDone, processor, errCh>>

\* Stop, or the caller's context.
Stop ==
    /\ running /\ ~pollDone /\ Fault
    /\ pollDone' = TRUE /\ stopRequested' = TRUE
    /\ UNCHANGED <<arrived, session, deliveryVars, runVars, loopVars, sent, processor,
                   errCh>>

\* Another request is told that the session expired; pollCtx is cancelled a
\* moment later.
LoseSession ==
    /\ session = "ready" /\ Fault
    /\ session' = "reauth"
    /\ UNCHANGED <<arrived, stopRequested, deliveryVars, runVars, loopVars, sent,
                   pollDone, processor, errCh>>

CancelPoll ==
    /\ session = "reauth" /\ running /\ ~pollDone
    /\ pollDone' = TRUE
    /\ UNCHANGED <<outsideVars, deliveryVars, runVars, loopVars, sent, processor, errCh>>

\* A new session is installed once the old one has been given up completely.
Reauthenticate ==
    /\ session = "reauth" /\ (running => pollDone)
    /\ session' = IF running THEN "changed" ELSE "ready"
    /\ UNCHANGED <<arrived, stopRequested, faults, deliveryVars, runVars, loopVars,
                   sent, pollDone, processor, errCh>>

\* What is in memory is gone; cursor and identities are on disk.
Crash ==
    /\ running /\ Fault
    /\ running' = FALSE /\ result' = {} /\ memory' = {}
    /\ Forget

Next ==
    \/ BeginRun \/ Run \/ LoadFails \/ AnswerExpired
    \/ \E to \in pollCursor..arrived : \E buf \in {to, NoCursor} : Answer(to, buf)
    \/ Processor \/ CommitFails \/ \E j \in Job : DeliveryFails(j)
    \/ Arrive \/ Stop \/ LoseSession \/ CancelPoll \/ Reauthenticate \/ Crash

Spec == Init /\ [][Next]_vars

\* Goroutines are scheduled, handlers return, a lost session is cancelled.
Scheduled == WF_vars(Run) /\ WF_vars(Processor) /\ WF_vars(CancelPoll)

\* The server sends what it has some time, and whoever called Run logs in and
\* calls it again.
Served ==
    /\ WF_vars(Arrive) /\ SF_vars(Answer(arrived, arrived))
    /\ WF_vars(BeginRun) /\ WF_vars(Reauthenticate)

FairSpec == Spec /\ Scheduled /\ Served

----------------------------------------------------------------------------
(***************************************************************************)
(* Properties.                                                             *)
(***************************************************************************)

\* At least once: behind the stored cursor there is no message whose handler
\* did not acknowledge or drop it, over any number of runs and crashes.
NothingLost == \A m \in 1..stored : recorded[m] >= 1

\* A message with an identity is recorded at most once, although the server sends
\* it again within a run, after a crash and after a failed batch.
RecordedOnce ==
    \A m \in Positions : ReplayKeys(ServerLog[m]) # {} => recorded[m] <= 1

\* Run returns nil only if its caller stopped it: a lost session that ended it is in
\* its result, whichever branch noticed it first, and an error of a delivery is
\* never replaced by the consequences it has.
EndReported ==
    pc = "finish" =>
        /\ result = {} => stopRequested
        /\ failure = "delivery" => "delivery" \in result

\* When Run has returned, nothing of it is at work: a second Run never shares the
\* stores with the processor of the first.
ProcessorGone ==
    pc \in {"idle", "notifyStop", "finish"} =>
        processor \in {"none", "done"} /\ handling = {}

\* Whatever cancels a run, Run returns.
RunReturns == pollDone /\ running ~> ~running

\* Every message the server has is handled and recorded in the end, through
\* failed polls, failed deliveries, lost sessions and crashes.
AllHandled == <>(\A m \in Positions : recorded[m] >= 1)
============================================================================
