---------------------------- MODULE Dispatcher ----------------------------
(***************************************************************************)
(* The receiving half of Bot.Run: the channel the poll loop feeds, the     *)
(* goroutine in processUpdateBatches, and the keyedDispatcher with one     *)
(* goroutine per message (dispatcher.go, run.go, handler.go).              *)
(*                                                                         *)
(* The n-th batch the processor registers is the n-th one sent on the      *)
(* channel, so batch ids are positions in sent.  d.mu is held exactly      *)
(* by the goroutine that is inside advanceCursorLocked: a job in phase     *)
(* "committing", or the processor at pc "committing"; every other critical *)
(* section is one step.                                                    *)
(***************************************************************************)
EXTENDS Messages, FiniteSets

CONSTANTS
    MaxConcurrentHandlers,  \* Options.MaxConcurrentHandlers
    UpdateQueueCapacity     \* updateQueueCapacity

ASSUME CapacityAssumption ==
    /\ MaxConcurrentHandlers \in Int
    /\ UpdateQueueCapacity \in Nat \ {0}

DefaultMaxConcurrentHandlers == 4
MaximumConcurrentHandlers == 256

\* Capacities of the channels made by newKeyedDispatcher.
MaxActive ==
    IF MaxConcurrentHandlers <= 0 THEN DefaultMaxConcurrentHandlers
    ELSE IF MaxConcurrentHandlers > MaximumConcurrentHandlers
         THEN MaximumConcurrentHandlers
         ELSE MaxConcurrentHandlers
MaxPending == MaxActive * UpdateQueueCapacity
MaxSlots == UpdateQueueCapacity

----------------------------------------------------------------------------
VARIABLES
    sent,           \* every batch sent on the batches channel, in order
    taken,          \* how many of them the processor has received
    closed,         \* the batches channel is closed
    pollDone,       \* pollCtx is cancelled
    sessionReady,   \* the run's session is neither replaced nor in reauth
    ctxDone,        \* d.ctx, a child of pollCtx, is cancelled
    pc,             \* where the processor goroutine is
    next,           \* the loop variable i of submit
    nextBatchID,
    nextCommitID,
    remaining,      \* dispatchBatchState.remaining
    failed,         \* dispatchBatchState.failed
    firstError,     \* d.firstError # nil; then d.failed is closed
    slots,          \* occupancy of batchSlots
    pending,        \* occupancy of pending
    active,         \* occupancy of active
    tails,          \* d.tails: the job whose done channel is stored, or NoJob
    phase,          \* where the goroutine of each job is
    prev,           \* the job whose done channel runMessage waits for
    result,         \* what became of each job
    cursor,         \* cursorStore, durable and in memory
    seen,           \* replayStore, durable and in memory
    context,        \* contextTokens: the job whose token is stored per user, or
                    \* NoJob for what messages from before this run left
    handed          \* history: jobs whose IncomingMessage the application has

\* Grouped by who writes them.
outerVars == <<sent, taken, closed, pollDone, sessionReady>>
batchVars == <<remaining, failed, firstError, ctxDone>>
commitVars == <<nextCommitID, slots, cursor>>
feedVars  == <<next, nextBatchID>>
orderVars == <<prev, tails, pending>>
deliverVars == <<result, active, seen, context, handed>>

vars == <<outerVars, batchVars, commitVars, pc, feedVars, phase, orderVars,
          deliverVars>>

----------------------------------------------------------------------------
Phases == {"new", "queued", "started", "checked", "handling", "recording",
           "finished", "committing", "exiting", "closed", "exited", "dropped"}

Results == {"none", "acked", "skipped", "err", "cancelled"}

ProcessorStates == {"select", "slot", "register", "committing", "feed",
                    "pending", "cancel", "waiting", "draining", "done"}

Executing   == {"started", "checked", "handling", "recording"}
Uncompleted == {"new", "queued", "finished"} \cup Executing
DoneClosed  == {"closed", "exited"}
Running     == Phases \ {"new", "dropped", "exited"}   \* counted by d.wg

TypeOK ==
    /\ sent \in Seq(Batches) /\ Len(sent) <= MaxBatches
    /\ taken \in 0..MaxBatches
    /\ closed \in BOOLEAN /\ pollDone \in BOOLEAN
    /\ sessionReady \in BOOLEAN /\ ctxDone \in BOOLEAN
    /\ pc \in ProcessorStates
    /\ next \in 1..(MaxLen + 1)
    /\ nextBatchID \in 1..(MaxBatches + 1)
    /\ nextCommitID \in 1..(MaxBatches + 1)
    /\ remaining \in [1..MaxBatches -> 0..MaxLen]
    /\ failed \in [1..MaxBatches -> BOOLEAN]
    /\ firstError \in BOOLEAN
    /\ slots \in 0..MaxSlots
    /\ pending \in 0..MaxPending
    /\ active \in 0..MaxActive
    /\ tails \in [ConversationKeys -> Job \cup {NoJob}]
    /\ phase \in [Job -> Phases]
    /\ prev \in [Job -> Job \cup {NoJob}]
    /\ result \in [Job -> Results]
    /\ cursor \in Cursors
    /\ seen \in SUBSET AllReplayKeys
    /\ context \in [Users -> Job \cup {NoJob}]
    /\ handed \in SUBSET Job

Init ==
    /\ sent = <<>> /\ taken = 0 /\ closed = FALSE
    /\ pollDone = FALSE /\ sessionReady = TRUE /\ ctxDone = FALSE
    /\ pc = "select" /\ next = 1
    /\ nextBatchID = 1 /\ nextCommitID = 1
    /\ remaining = [b \in 1..MaxBatches |-> 0]
    /\ failed = [b \in 1..MaxBatches |-> FALSE]
    /\ firstError = FALSE
    /\ slots = 0 /\ pending = 0 /\ active = 0
    /\ tails = [k \in ConversationKeys |-> NoJob]
    /\ phase = [j \in Job |-> "new"]
    /\ prev = [j \in Job |-> NoJob]
    /\ result = [j \in Job |-> "none"]
    /\ cursor = NoCursor
    /\ seen = {}
    /\ context = [u \in Users |-> NoJob]
    /\ handed = {}

----------------------------------------------------------------------------
Messages(b) == sent[b].messages
Wire(j) == Messages(j[1])[j[2]]
JobsOf(b) == {<<b, i>> : i \in 1..Len(Messages(b))}
Current == nextBatchID - 1      \* the batch that submit is feeding
Unscheduled == {j \in JobsOf(Current) : j[2] >= next}
LastSentCursor == IF sent = <<>> THEN NoCursor ELSE sent[Len(sent)].cursor

\* d.mu is free: nobody is inside advanceCursorLocked.
MuFree == pc # "committing" /\ \A j \in Job : phase[j] # "committing"

\* The processor, or a job's goroutine, only moves on.
Goto(label) ==
    /\ pc' = label
    /\ UNCHANGED <<batchVars, commitVars, feedVars, phase, orderVars, deliverVars>>
JobGoto(j, where) ==
    /\ phase' = [phase EXCEPT ![j] = where]
    /\ UNCHANGED <<outerVars, batchVars, commitVars, pc, feedVars, orderVars>>

(***************************************************************************)
(* The surroundings: the poll loop, Stop, and the session.                 *)
(***************************************************************************)

\* Run's select sends a batch.  An answer without get_updates_buf keeps the
\* poll cursor, so "" is only ever sent before the first cursor.
Enqueue(batch) ==
    /\ ~closed
    /\ Len(sent) < MaxBatches
    /\ Len(sent) - taken < UpdateQueueCapacity
    /\ batch.messages # <<>> \/ batch.cursor # LastSentCursor
    /\ batch.cursor = NoCursor => LastSentCursor = NoCursor
    /\ sent' = Append(sent, batch)
    /\ UNCHANGED <<taken, closed, pollDone, sessionReady>>
    /\ Goto(pc)

\* The channel is closed by its sender (only the repository's tests do).
CloseBatches ==
    /\ ~closed
    /\ closed' = TRUE
    /\ UNCHANGED <<sent, taken, pollDone, sessionReady>>
    /\ Goto(pc)

\* Stop, the end of Run, or a cancelled parent context.
CancelPoll ==
    /\ ~pollDone
    /\ pollDone' = TRUE
    /\ ctxDone' = TRUE
    /\ UNCHANGED <<sent, taken, closed, sessionReady, remaining, failed,
                   firstError, commitVars, pc, feedVars, phase, orderVars,
                   deliverVars>>

\* Another goroutine rejects the token or publishes a new generation; it
\* cancels the poll only after it has released b.mu, hence in another step.
InvalidateSession ==
    /\ sessionReady
    /\ sessionReady' = FALSE
    /\ UNCHANGED <<sent, taken, closed, pollDone>>
    /\ Goto(pc)

(***************************************************************************)
(* complete, recordFailureLocked and cancelUnscheduled: what a critical    *)
(* section on d.mu does to the state of one batch.                         *)
(***************************************************************************)

BatchState(b) == b \in nextCommitID..(nextBatchID - 1)  \* d.batches[b] # nil

RecordFailure(err) ==
    /\ firstError' = (firstError \/ err)
    /\ ctxDone' = (ctxDone \/ err)

Complete(b, err, executed) ==
    IF BatchState(b) /\ remaining[b] > 0
    THEN /\ remaining' = [remaining EXCEPT ![b] = @ - 1]
         /\ failed' = [failed EXCEPT ![b] = @ \/ err]
         /\ RecordFailure(err /\ executed)
    ELSE UNCHANGED batchVars

\* complete goes on into advanceCursorLocked without releasing d.mu.
CompletesBatch(b, err) ==
    BatchState(b) /\ remaining[b] = 1 /\ ~failed[b] /\ ~err

\* Fault: off by one in the number of messages that were never scheduled.
CancelUnscheduledShort(b, count) ==
    /\ failed' = [failed EXCEPT ![b] = TRUE]
    /\ remaining' = [remaining EXCEPT ![b] = @ - (count - 1)]
    /\ UNCHANGED <<firstError, ctxDone>>

CancelUnscheduled(b, count) ==
    /\ IF BatchState(b) /\ count > 0
       THEN /\ failed' = [failed EXCEPT ![b] = TRUE]
            /\ remaining' = [remaining EXCEPT
                   ![b] = @ - (IF count > @ THEN @ ELSE count)]
       ELSE UNCHANGED <<failed, remaining>>
    /\ UNCHANGED <<firstError, ctxDone>>

(***************************************************************************)
(* advanceCursorLocked: one step per iteration of its loop.                *)
(***************************************************************************)

\* Fault: a failed batch counts as complete.
FrontierIgnoringFailed ==
    nextCommitID < nextBatchID /\ remaining[nextCommitID] = 0

FrontierComplete ==
    /\ nextCommitID < nextBatchID
    /\ remaining[nextCommitID] = 0
    /\ ~failed[nextCommitID]

\* The holder of d.mu leaves the loop: a job goes on to its deferred calls,
\* the processor to its (empty) message loop.
LeaveCommit ==
    /\ phase' = [j \in Job |-> IF phase[j] = "committing" THEN "exiting"
                               ELSE phase[j]]
    /\ pc' = IF pc = "committing" THEN "feed" ELSE pc
    /\ UNCHANGED <<outerVars, commitVars, feedVars, orderVars, deliverVars>>

\* Fault: the place in batchSlots is not given back.
KeepSlot == slots' = slots

ReleaseSlot == slots' = slots - 1

AdvanceCursor ==
    /\ ~MuFree
    /\ FrontierComplete
    /\ cursor' = IF sent[nextCommitID].cursor # NoCursor
                 THEN sent[nextCommitID].cursor ELSE cursor
    /\ nextCommitID' = nextCommitID + 1
    /\ ReleaseSlot
    /\ UNCHANGED <<outerVars, batchVars, pc, feedVars, phase, orderVars,
                   deliverVars>>

\* cursorStore.Set fails: only tried when the stored cursor would change.
AdvanceCursorFails ==
    /\ ~MuFree
    /\ FrontierComplete
    /\ sent[nextCommitID].cursor \notin {NoCursor, cursor}
    /\ failed' = [failed EXCEPT ![nextCommitID] = TRUE]
    /\ RecordFailure(TRUE)
    /\ UNCHANGED remaining
    /\ LeaveCommit

\* Fault: the loop may end although the next batch is complete.
AdvanceStopsEarly == ~MuFree /\ UNCHANGED batchVars /\ LeaveCommit

AdvanceStops ==
    /\ ~MuFree
    /\ ~FrontierComplete
    /\ UNCHANGED batchVars
    /\ LeaveCommit

----------------------------------------------------------------------------
(***************************************************************************)
(* The processor: processUpdateBatches and submit.                         *)
(***************************************************************************)

\* Fault: the wait for a batch slot does not listen to the context.
OnlySelectListens == {"select"}

SelectsOutsideFeed == {"select", "slot"}

\* Where the processor sees the cancelled context: in both selects outside the
\* message loop, and before or inside submitMessage.  At "select", d.ctx.Done()
\* stands for all arms: ctx is its parent, d.failed is closed with d.cancel().
StopFeeding ==
    /\ ctxDone
    /\ \/ pc \in SelectsOutsideFeed /\ Goto("waiting")
       \/ pc = "feed" /\ next <= Len(Messages(Current)) /\ Goto("cancel")
       \/ pc = "pending" /\ Goto("cancel")
    /\ UNCHANGED outerVars

SelectBatch ==
    /\ pc = "select"
    /\ taken < Len(sent)
    /\ taken' = taken + 1
    /\ UNCHANGED <<sent, closed, pollDone, sessionReady>>
    /\ Goto("slot")

SelectClosed ==
    /\ pc = "select"
    /\ closed /\ taken = Len(sent)
    /\ Goto("draining") /\ UNCHANGED outerVars

\* The slot is kept only if the context is still alive after it was taken.
AcquireSlot ==
    /\ pc = "slot"
    /\ ~ctxDone
    /\ slots < MaxSlots
    /\ slots' = slots + 1
    /\ pc' = "register"
    /\ UNCHANGED <<outerVars, batchVars, nextCommitID, cursor, feedVars, phase,
                   orderVars, deliverVars>>

\* Fault: a batch without messages waits for a completion that never comes.
NeverAdvances(b) == "feed"

AfterRegister(b) == IF Messages(b) = <<>> THEN "committing" ELSE "feed"

\* A batch without messages goes straight on into advanceCursorLocked.
RegisterBatch ==
    /\ pc = "register"
    /\ MuFree
    /\ nextBatchID' = nextBatchID + 1
    /\ remaining' = [remaining EXCEPT ![nextBatchID] = Len(Messages(nextBatchID))]
    /\ next' = 1
    /\ pc' = AfterRegister(nextBatchID)
    /\ UNCHANGED <<outerVars, failed, firstError, ctxDone, commitVars, phase,
                   orderVars, deliverVars>>

FeedDone ==
    /\ pc = "feed" /\ next > Len(Messages(Current))
    /\ Goto("select") /\ UNCHANGED outerVars

FeedDecodes ==
    /\ pc = "feed" /\ next <= Len(Messages(Current)) /\ ~ctxDone
    /\ Messages(Current)[next] # Malformed
    /\ Goto("pending") /\ UNCHANGED outerVars

\* complete(batchID, err, true); the later messages are cancelled next.
FeedDecodeFails ==
    /\ pc = "feed" /\ next <= Len(Messages(Current)) /\ ~ctxDone
    /\ Messages(Current)[next] = Malformed
    /\ MuFree
    /\ Complete(Current, TRUE, TRUE)
    /\ phase' = [phase EXCEPT ![<<Current, next>>] = "dropped"]
    /\ result' = [result EXCEPT ![<<Current, next>>] = "err"]
    /\ next' = next + 1
    /\ pc' = "cancel"
    /\ UNCHANGED <<outerVars, commitVars, nextBatchID, orderVars, active, seen,
                   context, handed>>

\* submitMessage: the select may take the free place even after a cancel.
SubmitMessage ==
    LET j   == <<Current, next>>
        key == ConversationKey(Wire(j))
    IN  /\ pc = "pending"
        /\ pending < MaxPending
        /\ MuFree
        /\ pending' = pending + 1
        /\ prev' = [prev EXCEPT ![j] = tails[key]]
        /\ tails' = [tails EXCEPT ![key] = j]
        /\ phase' = [phase EXCEPT ![j] = "queued"]
        /\ next' = next + 1
        /\ pc' = "feed"
        /\ UNCHANGED <<outerVars, batchVars, commitVars, nextBatchID, deliverVars>>

\* cancelUnscheduled for every message from next on; submit returns an error.
CancelRest ==
    /\ pc = "cancel"
    /\ MuFree
    /\ CancelUnscheduled(Current, Len(Messages(Current)) - next + 1)
    /\ phase' = [j \in Job |-> IF j \in Unscheduled THEN "dropped" ELSE phase[j]]
    /\ result' = [j \in Job |-> IF j \in Unscheduled THEN "cancelled"
                                ELSE result[j]]
    /\ pc' = "waiting"
    /\ UNCHANGED <<outerVars, commitVars, feedVars, orderVars, active, seen,
                   context, handed>>

\* wait and drain return once d.wg is zero.  An error is handed to Run, and
\* the goroutine that hands it over cancels the poll context.
ProcessorReturns ==
    /\ pc \in {"waiting", "draining"}
    /\ \A j \in Job : phase[j] \notin Running
    /\ pollDone' = (pollDone \/ firstError)
    /\ UNCHANGED <<sent, taken, closed, sessionReady>>
    /\ Goto("done")

----------------------------------------------------------------------------
(***************************************************************************)
(* A message goroutine: runMessage and processWireMessage.                 *)
(***************************************************************************)

\* Fault: nobody waits for the predecessor.
PreviousIgnored(j) == TRUE

PreviousClosed(j) == prev[j] # NoJob => phase[prev[j]] \in DoneClosed

\* Fault: the context is not looked at again after the wait.
StartsAfterCancel(j) == PreviousClosed(j)

MayStart(j) == PreviousClosed(j) /\ ~ctxDone

\* Fault: off by one in the capacity of active.
OnePlaceTooMany == active <= MaxActive

PlaceFree == active < MaxActive

\* The predecessor is done and an active place is free; both waits end in a
\* look at d.ctx that must find it alive.
Start(j) ==
    /\ phase[j] = "queued"
    /\ MayStart(j) /\ PlaceFree
    /\ active' = active + 1
    /\ JobGoto(j, "started")
    /\ UNCHANGED <<result, seen, context, handed>>

\* complete(batchID, d.ctx.Err(), false): cancelled before it ran.
CancelQueued(j) ==
    /\ phase[j] = "queued"
    /\ ctxDone
    /\ MuFree
    /\ Complete(j[1], TRUE, FALSE)
    /\ phase' = [phase EXCEPT ![j] = "exiting"]
    /\ result' = [result EXCEPT ![j] = "cancelled"]
    /\ UNCHANGED <<outerVars, commitVars, pc, feedVars, orderVars, active, seen,
                   context, handed>>

\* processWireMessage returns, and the active place is given back.
Return(j, res) ==
    /\ JobGoto(j, "finished")
    /\ result' = [result EXCEPT ![j] = res]
    /\ active' = active - 1

Continue(j, where) ==
    /\ JobGoto(j, where)
    /\ UNCHANGED <<result, active>>

\* Fault: only message_id identifies a replay.
ReplayedByMessageID(w) ==
    w.messageID # NoID /\ <<PeerUserID(w), "message", w.messageID>> \in seen

Replayed(w) == ReplayKeys(w) # {} /\ StrongestKey(w) \in seen

\* validateDeliverySession, then SeenAny(keys[0]).
CheckDelivery(j) ==
    /\ phase[j] = "started"
    /\ IF ~sessionReady THEN Return(j, "err")
       ELSE IF Replayed(Wire(j)) THEN Return(j, "skipped")
       ELSE Continue(j, "checked")
    /\ UNCHANGED <<seen, context, handed>>

CarriesToken(w) == PeerUserID(w) # NoUser /\ w.contextToken

\* parseMessage yields nothing to handle for a message that is not a user's.
AfterRemember(w) == IF w.type = "user" THEN "handling" ELSE "recording"

\* rememberContextForSession: persistContextToken looks at the session again,
\* and its write may fail.
RememberContext(j, written) ==
    /\ phase[j] = "checked"
    /\ IF CarriesToken(Wire(j)) /\ ~(sessionReady /\ written)
       THEN Return(j, "err")
       ELSE Continue(j, AfterRemember(Wire(j)))
    /\ context' = IF CarriesToken(Wire(j)) /\ sessionReady /\ written
                  THEN [context EXCEPT ![PeerUserID(Wire(j))] = j]
                  ELSE context
    /\ handed' = IF phase'[j] = "handling" THEN handed \cup {j} ELSE handed
    /\ UNCHANGED seen

\* AfterReceive.Run stops at the first hook that returns an error.
HookFails(j) ==
    /\ phase[j] = "handling"
    /\ Return(j, "err")
    /\ UNCHANGED <<seen, context, handed>>

MessageActions == {"ack", "drop", "retry", "invalid"}

\* validateMessageResult returns nil.
ValidResult(action, err) ==
    \/ action = "ack" /\ ~err
    \/ action = "drop"

\* invokeHandler: a panic is turned into "retry" with an error.
HandlerReturns(j, action, err) ==
    /\ phase[j] = "handling"
    /\ IF ValidResult(action, err) THEN Continue(j, "recording")
                                   ELSE Return(j, "err")
    /\ UNCHANGED <<seen, context, handed>>

\* replayStore.CommitAll: all aliases in one write, none if it fails.
RecordReplay(j, written) ==
    /\ phase[j] = "recording"
    /\ IF ReplayKeys(Wire(j)) = {} \/ written
       THEN seen' = seen \cup ReplayKeys(Wire(j)) /\ Return(j, "acked")
       ELSE seen' = seen /\ Return(j, "err")
    /\ UNCHANGED <<context, handed>>

\* complete(batchID, err, true), which may go on to hold d.mu.
CompleteJob(j) ==
    LET err == result[j] = "err"
    IN  /\ phase[j] = "finished"
        /\ MuFree
        /\ Complete(j[1], err, TRUE)
        /\ phase' = [phase EXCEPT ![j] = IF CompletesBatch(j[1], err)
                                         THEN "committing" ELSE "exiting"]
        /\ UNCHANGED <<outerVars, commitVars, pc, feedVars, orderVars, deliverVars>>

\* The deferred close(done).
CloseDone(j) ==
    /\ phase[j] = "exiting"
    /\ JobGoto(j, "closed")
    /\ UNCHANGED deliverVars

TailsWithout(j) ==
    [k \in ConversationKeys |->
        IF k = ConversationKey(Wire(j)) /\ tails[k] = j THEN NoJob ELSE tails[k]]

\* Its own tail is deleted, the pending place given back, d.wg decremented.
Exit(j) ==
    /\ phase[j] = "closed"
    /\ MuFree
    /\ tails' = TailsWithout(j)
    /\ pending' = pending - 1
    /\ phase' = [phase EXCEPT ![j] = "exited"]
    /\ UNCHANGED <<outerVars, batchVars, commitVars, pc, feedVars, prev,
                   deliverVars>>

\* Reply, ReplyContent or ReplyMessage by the application, from a handler or at
\* any time after it: the token of the answered message is stored again.  A
\* write that fails is only logged.
StoresAgain(u, j) ==
    /\ sessionReady
    /\ context' = [context EXCEPT ![u] = j]
    /\ UNCHANGED <<outerVars, batchVars, commitVars, pc, feedVars, phase, orderVars,
                   result, active, seen, handed>>

Reply(j) == j \in handed /\ CarriesToken(Wire(j)) /\ StoresAgain(PeerUserID(Wire(j)), j)

\* The answered message is from an earlier run in the same session.
ReplyEarlier(u) == StoresAgain(u, NoJob)

----------------------------------------------------------------------------
Surroundings ==
    \/ \E batch \in Batches : Enqueue(batch)
    \/ CloseBatches \/ CancelPoll \/ InvalidateSession
    \/ \E j \in Job : Reply(j)
    \/ \E u \in Users : ReplyEarlier(u)

Commit == AdvanceCursor \/ AdvanceCursorFails \/ AdvanceStops

Processor ==
    \/ SelectBatch \/ SelectClosed \/ AcquireSlot \/ RegisterBatch
    \/ FeedDone \/ FeedDecodes \/ FeedDecodeFails \/ SubmitMessage
    \/ StopFeeding \/ CancelRest \/ ProcessorReturns

Message(j) ==
    \/ Start(j) \/ CancelQueued(j) \/ CheckDelivery(j)
    \/ \E written \in BOOLEAN : RememberContext(j, written)
    \/ HookFails(j)
    \/ \E action \in MessageActions, err \in BOOLEAN :
          HandlerReturns(j, action, err)
    \/ \E written \in BOOLEAN : RecordReplay(j, written)
    \/ CompleteJob(j) \/ CloseDone(j) \/ Exit(j)

\* The run is over; nothing is left that could move.
Terminated == pc = "done" /\ pollDone /\ UNCHANGED vars

Next ==
    \/ Surroundings
    \/ Commit
    \/ Processor
    \/ \E j \in Job : Message(j)
    \/ Terminated

Spec == Init /\ [][Next]_vars

(***************************************************************************)
(* Goroutines that can move are scheduled, and a handler returns, as the   *)
(* README asks of it.  Whoever invalidates the session cancels the poll    *)
(* afterwards.                                                             *)
(***************************************************************************)
Fairness ==
    /\ WF_vars(Commit)
    /\ WF_vars(Processor)
    /\ \A j \in Job : WF_vars(Message(j))
    /\ WF_vars(~sessionReady /\ CancelPoll)

FairSpec == Spec /\ Fairness

----------------------------------------------------------------------------
(***************************************************************************)
(* Properties.                                                             *)
(***************************************************************************)

Consumed == {"acked", "skipped"}
Known(j) == j[1] < nextBatchID /\ j[2] <= Len(Messages(j[1])) /\ Wire(j) # Malformed
Count(phases) == Cardinality({j \in Job : phase[j] \in phases})

\* Whatever order the handlers finish in, a batch is behind the stored cursor
\* only if every one of its messages was acknowledged, dropped or recognised
\* as a replay; and the stored cursor is that of the committed prefix
\* (advanceCursorLocked).
CursorNeverSkips ==
    /\ \A b \in 1..(nextCommitID - 1) :
          \A j \in JobsOf(b) : result[j] \in Consumed
    /\ \/ cursor = NoCursor /\ \A b \in 1..(nextCommitID - 1) :
                                  sent[b].cursor = NoCursor
       \/ cursor # NoCursor /\ cursor = sent[nextCommitID - 1].cursor

\* A message is looked at only when every earlier message of its conversation
\* was consumed: no overtaking inside a conversation, and none after a failed
\* or cancelled message (the chain of done channels in tails).
ConversationOrder ==
    \A i, j \in Job :
       /\ Known(i) /\ Known(j) /\ Before(i, j)
       /\ ConversationKey(Wire(i)) = ConversationKey(Wire(j))
       /\ phase[j] \in Executing \/ result[j] \in Consumed \cup {"err"}
       => phase[i] \in DoneClosed /\ result[i] \in Consumed

\* The three counting channels agree with the goroutines that hold a place, so
\* that no receive from them (under d.mu or in a deferred call) can block, and
\* the number of executing handlers respects MaxConcurrentHandlers.
PlacesBalanced ==
    /\ active = Count(Executing) /\ active <= MaxActive
    /\ pending = Count(Running)
    /\ slots = nextBatchID - nextCommitID + (IF pc = "register" THEN 1 ELSE 0)

\* remaining counts exactly the messages of the batch that were neither
\* completed nor cancelled, although complete and cancelUnscheduled are called
\* from different goroutines.
RemainingExact ==
    \A b \in 1..(nextBatchID - 1) :
       remaining[b] = Cardinality({j \in JobsOf(b) : phase[j] \in Uncompleted})

\* No lost wake-up of the commit loop: once d.mu is released the batch at the
\* frontier is unfinished or failed, whichever batch was completed last.
FrontierMaximal == MuFree => ~FrontierComplete

\* Within the replay window no handler sees a message whose strongest identity
\* is an alias of an earlier consumed message (SeenAny before, CommitAll after
\* the handler, serialised by conversation).
ReplaySuppressed ==
    \A i, j \in Job :
       /\ Known(i) /\ Known(j) /\ Before(i, j)
       /\ result[i] = "acked"
       /\ ReplayKeys(Wire(j)) # {}
       /\ StrongestKey(Wire(j)) \in ReplayKeys(Wire(i))
       => phase[j] # "handling" /\ result[j] # "acked"

\* A delivery never moves the stored context_token of a user back: the token
\* changes to that of a later message than the one whose token is stored, or
\* back to one that the application had already been given, in this run or
\* before, when it answers an old message (rememberContextForSession against
\* Reply, ReplyContent and ReplyMessage).
DeliveryMovesForward ==
    [][\A u \in Users : \/ context'[u] = context[u]
                        \/ context[u] = NoJob
                        \/ Before(context[u], context'[u])
                        \/ context'[u] \in handed \cup {NoJob}]_vars

\* Stop, a failure or the end of the channel always ends the processor: it
\* cannot hang on a full channel, on d.mu or on its own goroutines.
ProcessorEnds == (pollDone \/ firstError \/ closed) ~> (pc = "done")

\* Every batch sent is eventually committed unless the run is stopped.
BatchesCommitted ==
    \A b \in 1..MaxBatches : (Len(sent) >= b) ~> (nextCommitID > b \/ ctxDone)

OrderedDelivery == INSTANCE OrderedDelivery WITH
    log <- sent,
    consumed <- {j \in Job : result[j] \in Consumed},
    committed <- nextCommitID - 1,
    stored <- cursor

\* The goroutines, locks and channels implement in-order consumption with a
\* cursor that follows the consumed prefix: every step of the dispatcher is a
\* step of OrderedDelivery or leaves it unchanged.
ImplementsOrderedDelivery == OrderedDelivery!Spec

============================================================================
