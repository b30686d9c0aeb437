------------------------- MODULE DispatcherProofs -------------------------
(***************************************************************************)
(* Proofs about Dispatcher for every value of its constants.               *)
(***************************************************************************)
EXTENDS Dispatcher, FiniteSetTheorems, TLAPS

\* TypeOK without the lower bounds of the three counters, which hold only
\* because the counters agree with the goroutines.
TypeCore ==
    /\ sent \in Seq(Batches) /\ Len(sent) <= MaxBatches
    /\ taken \in 0..MaxBatches
    /\ closed \in BOOLEAN /\ pollDone \in BOOLEAN
    /\ sessionReady \in BOOLEAN /\ ctxDone \in BOOLEAN
    /\ pc \in ProcessorStates
    /\ next \in 1..(MaxLen + 1)
    /\ nextBatchID \in 1..(MaxBatches + 1)
    /\ nextCommitID \in 1..(MaxBatches + 1)
    /\ remaining \in [1..MaxBatches -> 0..MaxLen]
    /\ failed \in [1..MaxBatches -> BOOLEAN]
    /\ firstError \in BOOLEAN
    /\ slots \in Int /\ slots <= MaxSlots
    /\ pending \in Int /\ pending <= MaxPending
    /\ active \in Int /\ active <= MaxActive
    /\ tails \in [ConversationKeys -> Job \cup {NoJob}]
    /\ phase \in [Job -> Phases]
    /\ prev \in [Job -> Job \cup {NoJob}]
    /\ result \in [Job -> Results]
    /\ cursor \in Cursors
    /\ seen \in SUBSET AllReplayKeys
    /\ context \in [Users -> Job \cup {NoJob}] /\ handed \in SUBSET Job

\* Where the processor can be, given how far it has read the channel.
Control ==
    /\ taken <= Len(sent)
    /\ nextCommitID <= nextBatchID
    /\ nextBatchID <= taken + 1
    /\ pc \in {"slot", "register"} => nextBatchID = taken
    /\ pc \in {"select", "committing", "feed", "pending", "cancel"}
       => nextBatchID = taken + 1
    /\ pc \in {"committing", "feed", "pending", "cancel"}
       => nextBatchID > 1 /\ next <= Len(Messages(Current)) + 1
    /\ pc = "pending" => /\ next <= Len(Messages(Current))
                         /\ Messages(Current)[next] # Malformed

\* Only scheduled messages have goroutines, and only decoded ones are scheduled.
Feeding == pc \in {"committing", "feed", "pending", "cancel"}
JobsKnown ==
    \A j \in Job :
       /\ phase[j] \notin {"new", "dropped"} => Known(j)
       /\ phase[j] # "new" => /\ j[1] < nextBatchID
                              /\ j[2] <= Len(Messages(j[1]))
                              /\ Feeding /\ j[1] = Current => j[2] < next

Inv1 == TypeCore /\ Control /\ JobsKnown

LEMMA Capacities ==
    /\ MaxActive \in Nat \ {0}
    /\ MaxPending \in Nat
    /\ MaxSlots \in Nat \ {0}
BY CapacityAssumption
   DEF MaxActive, MaxPending, MaxSlots, DefaultMaxConcurrentHandlers,
       MaximumConcurrentHandlers

LEMMA WireFacts ==
    ASSUME NEW w \in Wires
    PROVE  /\ PeerUserID(w) \in Users \cup {NoUser}
           /\ ConversationKey(w) \in ConversationKeys
           /\ ReplayKeys(w) \subseteq AllReplayKeys
<1>1. PeerUserID(w) \in Users \cup {NoUser}
  BY WiresAssumption DEF PeerUserID
<1>2. ConversationKey(w) \in ConversationKeys
  BY <1>1 DEF ConversationKey, ConversationKeys
<1>3. ReplayKeys(w) \subseteq AllReplayKeys
  BY DEF AllReplayKeys
<1> QED BY <1>1, <1>2, <1>3

\* A known job carries a decodable message, in a batch of bounded length.
LEMMA KnownWire ==
    ASSUME Inv1, NEW j \in Job, Known(j)
    PROVE  /\ Wire(j) \in Wires
           /\ j[1] \in 1..Len(sent)
<1>1. j[1] \in 1..Len(sent) /\ j[2] \in 1..Len(sent[j[1]].messages)
  BY DEF Inv1, TypeCore, Control, Known, Job, Messages
<1>2. sent[j[1]] \in Batches
  BY <1>1 DEF Inv1, TypeCore
<1>3. sent[j[1]].messages \in Seq(Wires \cup {Malformed})
  BY <1>2, BatchesAssumption
<1>4. Wire(j) \in Wires \cup {Malformed}
  BY <1>1, <1>3 DEF Wire, Messages
<1> QED BY <1>1, <1>4 DEF Known

LEMMA BatchFacts ==
    ASSUME Inv1, NEW b \in 1..Len(sent)
    PROVE  /\ b \in 1..MaxBatches
           /\ Messages(b) \in Seq(Wires \cup {Malformed})
           /\ Len(Messages(b)) \in 0..MaxLen
           /\ sent[b].cursor \in Cursors
<1>1. sent[b] \in Batches
  BY DEF Inv1, TypeCore
<1>2. Messages(b) \in Seq(Wires \cup {Malformed}) /\ Len(Messages(b)) <= MaxLen
  BY <1>1, BatchesAssumption DEF Messages
<1>3. Len(Messages(b)) \in 0..MaxLen
  BY <1>2, BoundsAssumption
<1>4. sent[b].cursor \in Cursors
  BY <1>1 DEF Cursors
<1>5. b \in 1..MaxBatches
  BY BoundsAssumption DEF Inv1, TypeCore
<1> QED BY <1>2, <1>3, <1>4, <1>5

----------------------------------------------------------------------------
(***************************************************************************)
(* Typing and control.                                                     *)
(***************************************************************************)

LEMMA Inv1Init == Init => Inv1
<1> SUFFICES ASSUME Init PROVE Inv1
  OBVIOUS
<1> USE BoundsAssumption, Capacities DEF Init
<1>1. TypeCore
  <2>1. sent \in Seq(Batches) /\ Len(sent) <= MaxBatches
    OBVIOUS
  <2>2. cursor \in Cursors /\ seen \in SUBSET AllReplayKeys
    BY DEF Cursors
  <2>3. /\ closed \in BOOLEAN /\ pollDone \in BOOLEAN /\ sessionReady \in BOOLEAN
        /\ ctxDone \in BOOLEAN /\ firstError \in BOOLEAN
        /\ failed \in [1..MaxBatches -> BOOLEAN]
    OBVIOUS
  <2>4. /\ taken \in 0..MaxBatches /\ next \in 1..(MaxLen + 1)
        /\ nextBatchID \in 1..(MaxBatches + 1) /\ nextCommitID \in 1..(MaxBatches + 1)
        /\ remaining \in [1..MaxBatches -> 0..MaxLen]
        /\ slots \in Int /\ slots <= MaxSlots
        /\ pending \in Int /\ pending <= MaxPending
        /\ active \in Int /\ active <= MaxActive
    OBVIOUS
  <2>5. /\ pc \in ProcessorStates
        /\ tails \in [ConversationKeys -> Job \cup {NoJob}]
        /\ phase \in [Job -> Phases]
        /\ prev \in [Job -> Job \cup {NoJob}]
        /\ result \in [Job -> Results]
        /\ context \in [Users -> Job \cup {NoJob}] /\ handed \in SUBSET Job
    BY DEF ProcessorStates, Phases, Results
  <2> QED BY <2>1, <2>2, <2>3, <2>4, <2>5 DEF TypeCore
<1>2. Control
  BY DEF Control
<1>3. JobsKnown
  BY DEF JobsKnown
<1> QED BY <1>1, <1>2, <1>3 DEF Inv1

LEMMA EnqueueControl ==
    ASSUME Inv1, NEW batch \in Batches, Enqueue(batch) PROVE Control'
<1>1. /\ nextBatchID' = nextBatchID /\ pc' = pc /\ next' = next
      /\ nextCommitID' = nextCommitID /\ taken' = taken
  BY DEF Enqueue, Goto, feedVars, commitVars
<1>2. /\ Len(sent) \in Nat /\ Len(sent') = Len(sent) + 1
      /\ \A b \in 1..Len(sent) : sent'[b] = sent[b]
  BY DEF Enqueue, Inv1, TypeCore
<1>3. taken \in Nat /\ nextBatchID \in Nat /\ nextCommitID \in Nat /\ Control
  BY BoundsAssumption DEF Inv1, TypeCore
<1>4. CASE nextBatchID > 1
  <2>1. nextBatchID - 1 \in 1..Len(sent)
    BY <1>2, <1>3, <1>4 DEF Control
  <2>2. Messages(Current)' = Messages(Current)
    BY <1>1, <1>2, <2>1 DEF Messages, Current
  <2> QED BY <1>1, <1>2, <1>3, <2>2 DEF Control
<1>5. CASE ~(nextBatchID > 1)
  BY <1>1, <1>2, <1>3, <1>5 DEF Control
<1> QED BY <1>4, <1>5

LEMMA EnqueueJobs ==
    ASSUME Inv1, NEW batch \in Batches, Enqueue(batch) PROVE JobsKnown'
<1>1. /\ nextBatchID' = nextBatchID /\ pc' = pc /\ next' = next /\ phase' = phase
  BY DEF Enqueue, Goto, feedVars
<1>2. /\ Len(sent) \in Nat
      /\ \A b \in 1..Len(sent) : sent'[b] = sent[b]
  BY DEF Enqueue, Inv1, TypeCore
<1>3. taken \in Nat /\ nextBatchID \in Nat /\ Control
  BY BoundsAssumption DEF Inv1, TypeCore
<1>4. ASSUME NEW j \in Job, j[1] < nextBatchID
      PROVE  Messages(j[1])' = Messages(j[1]) /\ Wire(j)' = Wire(j)
  <2>1. j[1] \in 1..Len(sent)
    BY <1>2, <1>3, <1>4, BoundsAssumption DEF Control, Job
  <2> QED BY <1>2, <2>1 DEF Messages, Wire
<1>5. ASSUME NEW j \in Job PROVE Known(j)' <=> Known(j)
  BY <1>1, <1>4 DEF Known
<1>6. Current' = Current /\ Feeding' = Feeding
  BY <1>1 DEF Current, Feeding
<1> QED BY <1>1, <1>4, <1>5, <1>6 DEF Inv1, JobsKnown

LEMMA Inv1Surroundings ==
    ASSUME Inv1, Surroundings PROVE Inv1'
<1>3. \A batch \in Batches : Enqueue(batch) => Control'
  BY EnqueueControl
<1>4. \A batch \in Batches : Enqueue(batch) => JobsKnown'
  BY EnqueueJobs
<1> USE BoundsAssumption, Capacities DEF Inv1, outerVars, batchVars, commitVars,
        feedVars, orderVars, deliverVars, Goto
<1>1. ASSUME NEW batch \in Batches, Enqueue(batch) PROVE Inv1'
  <2>1. /\ sent' \in Seq(Batches) /\ Len(sent') = Len(sent) + 1
        /\ \A b \in 1..Len(sent) : sent'[b] = sent[b]
    BY <1>1 DEF Enqueue, TypeCore
  <2>2. TypeCore'
    BY <1>1, <2>1 DEF Enqueue, TypeCore
  <2>4. Control'
    BY <1>1, <1>3
  <2>5. JobsKnown'
    BY <1>1, <1>4
  <2> QED BY <2>2, <2>4, <2>5
<1>2. ASSUME CloseBatches \/ CancelPoll \/ InvalidateSession PROVE Inv1'
  <2>1. TypeCore'
    BY <1>2 DEF CloseBatches, CancelPoll, InvalidateSession, TypeCore
  <2>2. Control'
    BY <1>2 DEF CloseBatches, CancelPoll, InvalidateSession, Control, Messages, Current
  <2>3. JobsKnown'
    BY <1>2 DEF CloseBatches, CancelPoll, InvalidateSession, JobsKnown, Known, Wire,
                Messages, Feeding, Current
  <2> QED BY <2>1, <2>2, <2>3
<1>5. ASSUME NEW j \in Job, Reply(j) PROVE Inv1'
  <2>1. TypeCore'
    BY <1>5 DEF Reply, StoresAgain, TypeCore
  <2>2. Control'
    BY <1>5 DEF Reply, StoresAgain, Control, Messages, Current
  <2>3. JobsKnown'
    BY <1>5 DEF Reply, StoresAgain, JobsKnown, Known, Wire, Messages, Feeding, Current
  <2> QED BY <2>1, <2>2, <2>3
<1>6. ASSUME NEW u \in Users, ReplyEarlier(u) PROVE Inv1'
  <2>1. TypeCore'
    BY <1>6 DEF ReplyEarlier, StoresAgain, TypeCore
  <2>2. Control'
    BY <1>6 DEF ReplyEarlier, StoresAgain, Control, Messages, Current
  <2>3. JobsKnown'
    BY <1>6 DEF ReplyEarlier, StoresAgain, JobsKnown, Known, Wire, Messages, Feeding,
                Current
  <2> QED BY <2>1, <2>2, <2>3
<1> QED BY <1>1, <1>2, <1>5, <1>6, Surroundings DEF Surroundings

LEMMA Inv1Commit ==
    ASSUME Inv1, Commit PROVE Inv1'
<1> USE BoundsAssumption, Capacities DEF Inv1, outerVars, batchVars, commitVars,
        feedVars, orderVars, deliverVars
<1>1. CASE AdvanceCursor
  <2>1. nextCommitID \in 1..Len(sent) /\ nextCommitID < nextBatchID
    BY <1>1 DEF AdvanceCursor, FrontierComplete, Control, TypeCore
  <2>2. sent[nextCommitID].cursor \in Cursors
    BY <2>1, BatchFacts
  <2>3. TypeCore'
    BY <1>1, <2>1, <2>2 DEF AdvanceCursor, ReleaseSlot, TypeCore
  <2>4. Control' /\ JobsKnown'
    BY <1>1, <2>1 DEF AdvanceCursor, Control, TypeCore, Messages, Current, JobsKnown,
                      Known, Wire, Feeding
  <2> QED BY <2>3, <2>4
<1>2. CASE AdvanceCursorFails \/ AdvanceStops
  <2>1. /\ phase' \in [Job -> Phases]
        /\ \A j \in Job : phase'[j] \in {"new", "dropped"} => phase'[j] = phase[j]
        /\ \A j \in Job : phase[j] = "new" => phase'[j] = "new"
    BY <1>2 DEF AdvanceCursorFails, AdvanceStops, LeaveCommit, TypeCore, Phases
  <2>2. /\ failed' \in [1..MaxBatches -> BOOLEAN] 
        /\ firstError' \in BOOLEAN /\ ctxDone' \in BOOLEAN
        /\ pc' \in ProcessorStates
    BY <1>2 DEF AdvanceCursorFails, AdvanceStops, LeaveCommit, RecordFailure, TypeCore,
                ProcessorStates
  <2>3. TypeCore'
    BY <1>2, <2>1, <2>2 DEF AdvanceCursorFails, AdvanceStops, LeaveCommit, TypeCore
  <2>4. Control'
    BY <1>2 DEF AdvanceCursorFails, AdvanceStops, LeaveCommit, Control, TypeCore,
                Messages, Current
  <2>5. JobsKnown'
    BY <1>2, <2>1 DEF AdvanceCursorFails, AdvanceStops, LeaveCommit, JobsKnown, Known,
                      Wire, Messages, Feeding, Current
  <2> QED BY <2>3, <2>4, <2>5
<1> QED BY <1>1, <1>2, Commit DEF Commit

LEMMA CompleteTypes ==
    ASSUME TypeCore, NEW b \in 1..MaxBatches, NEW err \in BOOLEAN,
           NEW executed \in BOOLEAN, Complete(b, err, executed)
    PROVE  /\ remaining' \in [1..MaxBatches -> 0..MaxLen]
           /\ failed' \in [1..MaxBatches -> BOOLEAN]
           /\ firstError' \in BOOLEAN /\ ctxDone' \in BOOLEAN
<1> USE BoundsAssumption DEF TypeCore, Complete, RecordFailure, batchVars
<1>1. remaining' \in [1..MaxBatches -> 0..MaxLen]
  BY SMTT(30)
<1>2. failed' \in [1..MaxBatches -> BOOLEAN]
  OBVIOUS
<1>3. firstError' \in BOOLEAN /\ ctxDone' \in BOOLEAN
  OBVIOUS
<1> QED BY <1>1, <1>2, <1>3

\* A scheduled job that moves to another phase of its goroutine disturbs
\* neither the control invariant nor what is known about jobs.
LEMMA JobMoves ==
    ASSUME Inv1, NEW j \in Job, phase[j] \notin {"new", "dropped"},
           NEW where \in Phases \ {"new", "dropped"},
           phase' = [phase EXCEPT ![j] = where],
           UNCHANGED <<outerVars, nextCommitID, pc, feedVars>>
    PROVE  /\ phase' \in [Job -> Phases]
           /\ Control' /\ JobsKnown'
<1> USE DEF Inv1, outerVars, feedVars
<1>1. phase' \in [Job -> Phases]
  BY DEF TypeCore
<1>2. Control'
  BY DEF Control, Messages, Current
<1>3. JobsKnown'
  BY DEF TypeCore, JobsKnown, Known, Wire, Messages, Feeding, Current
<1> QED BY <1>1, <1>2, <1>3

LEMMA Inv1Message ==
    ASSUME Inv1, NEW j \in Job, Message(j) PROVE Inv1'
<1> USE BoundsAssumption, Capacities
<1>0. j[1] \in 1..MaxBatches
  BY DEF Job
<1>1. CASE Start(j)
  <2>1. phase[j] = "queued" /\ phase' = [phase EXCEPT ![j] = "started"]
    BY <1>1 DEF Start, JobGoto
  <2>2. UNCHANGED <<outerVars, batchVars, commitVars, pc, feedVars, orderVars,
                    result, seen, context, handed>>
    BY <1>1 DEF Start, JobGoto
  <2>3. active' = active + 1 /\ active < MaxActive
    BY <1>1 DEF Start, PlaceFree
  <2>4. phase' \in [Job -> Phases] /\ Control' /\ JobsKnown'
    BY <2>1, <2>2, JobMoves DEF Phases, commitVars
  <2>5. TypeCore'
    BY <2>2, <2>3, <2>4 DEF Inv1, TypeCore, outerVars, batchVars, commitVars, feedVars,
                            orderVars
  <2> QED BY <2>4, <2>5 DEF Inv1
<1>2. CASE CancelQueued(j)
  <2>1. phase[j] = "queued" /\ phase' = [phase EXCEPT ![j] = "exiting"]
    BY <1>2 DEF CancelQueued
  <2>2. UNCHANGED <<outerVars, commitVars, pc, feedVars, orderVars, active, seen, context, handed>>
    BY <1>2 DEF CancelQueued
  <2>3. phase' \in [Job -> Phases] /\ Control' /\ JobsKnown'
    BY <2>1, <2>2, JobMoves DEF Phases, commitVars
  <2>4. /\ remaining' \in [1..MaxBatches -> 0..MaxLen]
        /\ failed' \in [1..MaxBatches -> BOOLEAN]
        /\ firstError' \in BOOLEAN /\ ctxDone' \in BOOLEAN
    <3>1. Complete(j[1], TRUE, FALSE)
      BY <1>2 DEF CancelQueued
    <3> QED BY <1>0, <3>1, CompleteTypes DEF Inv1
  <2>5. result' \in [Job -> Results]
    BY <1>2 DEF CancelQueued, Inv1, TypeCore, Results
  <2>6. TypeCore'
    BY <2>2, <2>3, <2>4, <2>5 DEF Inv1, TypeCore, outerVars, commitVars, feedVars, orderVars
  <2> QED BY <2>3, <2>6 DEF Inv1
<1>3. ASSUME CheckDelivery(j) \/ HookFails(j)
             \/ (\E w \in BOOLEAN : RememberContext(j, w) \/ RecordReplay(j, w))
             \/ (\E a \in MessageActions, e \in BOOLEAN : HandlerReturns(j, a, e))
      PROVE Inv1'
  <2>1. /\ phase[j] \in Executing
        /\ \E where \in Phases \ {"new", "dropped"} : JobGoto(j, where)
        /\ \/ UNCHANGED <<result, active>>
           \/ \E res \in Results : /\ result' = [result EXCEPT ![j] = res]
                                   /\ active' = active - 1
    BY <1>3 DEF CheckDelivery, HookFails, RememberContext, RecordReplay, HandlerReturns,
                Return, Continue, AfterRemember, Executing, Phases, Results
  <2>2. PICK where \in Phases \ {"new", "dropped"} : JobGoto(j, where)
    BY <2>1
  <2>3. phase[j] \notin {"new", "dropped"}
    BY <2>1 DEF Executing
  <2>4. /\ phase' = [phase EXCEPT ![j] = where]
        /\ UNCHANGED <<outerVars, batchVars, commitVars, pc, feedVars, orderVars>>
    BY <2>2 DEF JobGoto
  <2>5. phase' \in [Job -> Phases] /\ Control' /\ JobsKnown'
    BY <2>3, <2>4, JobMoves DEF commitVars
  <2>6. Wire(j) \in Wires
    BY <2>3, KnownWire DEF Inv1, JobsKnown
  <2>7. seen' \in SUBSET AllReplayKeys
    BY <1>3, <2>6, WireFacts
    DEF CheckDelivery, HookFails, RememberContext, RecordReplay, HandlerReturns, Inv1,
        TypeCore
  <2>8. context' \in [Users -> Job \cup {NoJob}] /\ handed' \in SUBSET Job
    <3>1. CarriesToken(Wire(j)) => PeerUserID(Wire(j)) \in Users
      BY <2>6, WireFacts DEF CarriesToken
    <3> QED BY <1>3, <3>1
         DEF CheckDelivery, HookFails, RememberContext, RecordReplay, HandlerReturns, Inv1,
             TypeCore
  <2>9. result' \in [Job -> Results] /\ active' \in Int /\ active' <= MaxActive
    BY <2>1 DEF Inv1, TypeCore
  <2>10. TypeCore'
    BY <2>4, <2>5, <2>7, <2>8, <2>9 DEF Inv1, TypeCore, outerVars, batchVars, commitVars,
                                        feedVars, orderVars
  <2> QED BY <2>5, <2>10 DEF Inv1
<1>4. CASE CompleteJob(j)
  <2>1. PICK where \in {"committing", "exiting"} : phase' = [phase EXCEPT ![j] = where]
    BY <1>4 DEF CompleteJob
  <2>2. /\ phase[j] = "finished"
        /\ UNCHANGED <<outerVars, commitVars, pc, feedVars, orderVars, deliverVars>>
    BY <1>4 DEF CompleteJob
  <2>3. phase' \in [Job -> Phases] /\ Control' /\ JobsKnown'
    BY <2>1, <2>2, JobMoves DEF Phases, commitVars
  <2>4. /\ remaining' \in [1..MaxBatches -> 0..MaxLen]
        /\ failed' \in [1..MaxBatches -> BOOLEAN]
        /\ firstError' \in BOOLEAN /\ ctxDone' \in BOOLEAN
    <3>1. Complete(j[1], result[j] = "err", TRUE)
      BY <1>4 DEF CompleteJob
    <3> QED BY <1>0, <3>1, CompleteTypes DEF Inv1
  <2>5. TypeCore'
    BY <2>2, <2>3, <2>4 DEF Inv1, TypeCore, outerVars, commitVars, feedVars, orderVars,
                            deliverVars
  <2> QED BY <2>3, <2>5 DEF Inv1
<1>5. CASE CloseDone(j)
  <2>1. /\ phase[j] = "exiting" /\ phase' = [phase EXCEPT ![j] = "closed"]
        /\ UNCHANGED <<outerVars, batchVars, commitVars, pc, feedVars, orderVars, deliverVars>>
    BY <1>5 DEF CloseDone, JobGoto
  <2>2. phase' \in [Job -> Phases] /\ Control' /\ JobsKnown'
    BY <2>1, JobMoves DEF Phases, commitVars
  <2>3. TypeCore'
    BY <2>1, <2>2 DEF Inv1, TypeCore, outerVars, batchVars, commitVars, feedVars, orderVars,
                      deliverVars
  <2> QED BY <2>2, <2>3 DEF Inv1
<1>6. CASE Exit(j)
  <2>1. /\ phase[j] = "closed" /\ phase' = [phase EXCEPT ![j] = "exited"]
        /\ UNCHANGED <<outerVars, batchVars, commitVars, pc, feedVars, prev, deliverVars>>
        /\ pending' = pending - 1
    BY <1>6 DEF Exit
  <2>2. phase' \in [Job -> Phases] /\ Control' /\ JobsKnown'
    BY <2>1, JobMoves DEF Phases, commitVars
  <2>3. tails' \in [ConversationKeys -> Job \cup {NoJob}]
    BY <1>6 DEF Exit, TailsWithout, Inv1, TypeCore
  <2>4. TypeCore'
    BY <2>1, <2>2, <2>3 DEF Inv1, TypeCore, outerVars, batchVars, commitVars, feedVars,
                            deliverVars
  <2> QED BY <2>2, <2>4 DEF Inv1
<1> QED BY <1>1, <1>2, <1>3, <1>4, <1>5, <1>6, Message(j) DEF Message

\* The batch being fed is one that was sent.
LEMMA CurrentFacts ==
    ASSUME Inv1, Feeding
    PROVE  /\ Current \in 1..Len(sent)
           /\ Current \in 1..MaxBatches
           /\ Messages(Current) \in Seq(Wires \cup {Malformed})
           /\ Len(Messages(Current)) \in 0..MaxLen
           /\ next <= Len(Messages(Current)) => <<Current, next>> \in Job
<1>1. Current \in 1..Len(sent)
  BY DEF Inv1, TypeCore, Control, Feeding, Current
<1>2. /\ Current \in 1..MaxBatches
      /\ Messages(Current) \in Seq(Wires \cup {Malformed})
      /\ Len(Messages(Current)) \in 0..MaxLen
  BY <1>1, BatchFacts
<1> QED BY <1>1, <1>2, BoundsAssumption DEF Inv1, TypeCore, Job

LEMMA Inv1Processor ==
    ASSUME Inv1, Processor PROVE Inv1'
<1> USE BoundsAssumption, Capacities
<1>1. CASE SelectBatch \/ SelectClosed \/ FeedDone \/ FeedDecodes \/ StopFeeding
           \/ ProcessorReturns
  <2>1. UNCHANGED <<sent, closed, sessionReady, batchVars, commitVars, feedVars, phase,
                    orderVars, deliverVars>>
    BY <1>1 DEF SelectBatch, SelectClosed, FeedDone, FeedDecodes, StopFeeding,
                ProcessorReturns, Goto, outerVars
  <2>2. pollDone' \in BOOLEAN
    BY <1>1 DEF SelectBatch, SelectClosed, FeedDone, FeedDecodes, StopFeeding,
                ProcessorReturns, outerVars, Inv1, TypeCore
  <2>3. /\ pc' \in ProcessorStates
        /\ taken' \in 0..MaxBatches
        /\ pc' \in {"committing", "feed", "pending", "cancel"} => Feeding
    BY <1>1 DEF SelectBatch, SelectClosed, FeedDone, FeedDecodes, StopFeeding,
                ProcessorReturns, Goto, outerVars, Inv1, TypeCore, ProcessorStates, Feeding
  <2>4. TypeCore'
    BY <2>1, <2>2, <2>3 DEF Inv1, TypeCore, batchVars, commitVars, feedVars, orderVars,
                            deliverVars
  <2>5. Control'
    <3>1. Current' = Current /\ Messages(Current)' = Messages(Current)
      BY <2>1 DEF Current, Messages, feedVars
    <3>2. UNCHANGED <<sent, nextCommitID, nextBatchID, next>>
      BY <2>1 DEF commitVars, feedVars
    <3>3. CASE SelectBatch
      BY <3>1, <3>2, <3>3 DEF SelectBatch, Goto, Inv1, TypeCore, Control
    <3>4. CASE SelectClosed \/ FeedDone \/ ProcessorReturns
      BY <3>1, <3>2, <3>4 DEF SelectClosed, FeedDone, ProcessorReturns, Goto, outerVars,
                              Inv1, TypeCore, Control
    <3>5. CASE FeedDecodes
      BY <3>1, <3>2, <3>5 DEF FeedDecodes, Goto, outerVars, Inv1, TypeCore, Control
    <3>6. CASE StopFeeding
      BY <3>1, <3>2, <3>6 DEF StopFeeding, Goto, outerVars, Inv1, TypeCore, Control
    <3> QED BY <1>1, <3>3, <3>4, <3>5, <3>6
  <2>6. JobsKnown'
    BY <2>1, <2>3 DEF Inv1, JobsKnown, Known, Wire, Messages, Feeding, Current, feedVars
  <2> QED BY <2>4, <2>5, <2>6 DEF Inv1
<1>2. CASE AcquireSlot
  <2>1. TypeCore'
    BY <1>2 DEF AcquireSlot, Inv1, TypeCore, outerVars, batchVars, feedVars, orderVars,
                deliverVars, ProcessorStates
  <2>2. Control' /\ JobsKnown'
    BY <1>2 DEF AcquireSlot, Inv1, outerVars, feedVars, Control, JobsKnown, Known, Wire,
                Messages, Feeding, Current
  <2> QED BY <2>1, <2>2 DEF Inv1
<1>3. CASE RegisterBatch
  <2>1. nextBatchID \in 1..Len(sent)
    BY <1>3 DEF RegisterBatch, Inv1, Control, TypeCore
  <2>2. nextBatchID \in 1..MaxBatches /\ Len(Messages(nextBatchID)) \in 0..MaxLen
    BY <2>1, BatchFacts
  <2>3. /\ nextBatchID' = nextBatchID + 1 /\ next' = 1
        /\ pc = "register" /\ pc' \in {"committing", "feed"}
        /\ UNCHANGED <<outerVars, failed, firstError, ctxDone, commitVars, phase, orderVars,
                       deliverVars>>
    BY <1>3 DEF RegisterBatch, AfterRegister
  <2>4. remaining' \in [1..MaxBatches -> 0..MaxLen]
    BY <1>3, <2>2 DEF RegisterBatch, Inv1, TypeCore
  <2>5. TypeCore'
    BY <2>2, <2>3, <2>4 DEF Inv1, TypeCore, outerVars, commitVars, orderVars, deliverVars,
                            ProcessorStates
  <2>6. Control'
    <3>1. Current' = nextBatchID /\ Messages(Current)' = Messages(nextBatchID)
      BY <2>1, <2>3 DEF Current, Messages, outerVars
    <3> QED BY <2>1, <2>2, <2>3, <3>1 DEF Inv1, Control, TypeCore, outerVars, commitVars
  <2>7. JobsKnown'
    BY <2>1, <2>2, <2>3, SMTT(30)
    DEF Inv1, JobsKnown, TypeCore, outerVars, Known, Wire, Messages, Feeding, Current, Job
  <2> QED BY <2>5, <2>6, <2>7 DEF Inv1
<1>4. CASE FeedDecodeFails
  <2>1. /\ Feeding /\ next <= Len(Messages(Current))
        /\ next' = next + 1 /\ pc' = "cancel" /\ pc = "feed"
        /\ phase' = [phase EXCEPT ![<<Current, next>>] = "dropped"]
        /\ result' = [result EXCEPT ![<<Current, next>>] = "err"]
        /\ UNCHANGED <<outerVars, commitVars, nextBatchID, orderVars, active, seen, context,
                       handed>>
    BY <1>4 DEF FeedDecodeFails, Feeding
  <2>2. Current \in 1..MaxBatches /\ <<Current, next>> \in Job
        /\ Len(Messages(Current)) \in 0..MaxLen
    BY <2>1, CurrentFacts
  <2>3. /\ remaining' \in [1..MaxBatches -> 0..MaxLen]
        /\ failed' \in [1..MaxBatches -> BOOLEAN]
        /\ firstError' \in BOOLEAN /\ ctxDone' \in BOOLEAN
    <3>1. Complete(Current, TRUE, TRUE)
      BY <1>4 DEF FeedDecodeFails
    <3> QED BY <2>2, <3>1, CompleteTypes DEF Inv1
  <2>4. phase' \in [Job -> Phases] /\ result' \in [Job -> Results]
    BY <2>1, <2>2 DEF Inv1, TypeCore, Phases, Results
  <2>5. TypeCore'
    BY <2>1, <2>2, <2>3, <2>4, SMTT(30) DEF Inv1, TypeCore, outerVars, commitVars, orderVars,
                                  ProcessorStates
  <2>6. Current' = Current /\ Messages(Current)' = Messages(Current)
    BY <2>1 DEF Current, Messages, outerVars
  <2>7. Control'
    BY <2>1, <2>2, <2>6 DEF Inv1, Control, TypeCore, outerVars, commitVars
  <2>8. JobsKnown'
    <3> SUFFICES ASSUME NEW i \in Job
                 PROVE  /\ phase'[i] \notin {"new", "dropped"} => Known(i)'
                        /\ phase'[i] # "new" => /\ i[1] < nextBatchID'
                                                /\ i[2] <= Len(Messages(i[1])')
                                                /\ i[1] = Current' => i[2] < next'
      BY DEF JobsKnown, Feeding
    <3>1. CASE i = <<Current, next>>
      BY <2>1, <2>2, <2>6, <3>1 DEF Inv1, TypeCore, Current, Messages, outerVars
    <3>2. CASE i # <<Current, next>>
      <4>1. phase'[i] = phase[i]
        BY <2>1, <2>2, <3>2 DEF Inv1, TypeCore
      <4>2. UNCHANGED <<sent, nextBatchID>>
        BY <2>1 DEF outerVars
      <4>3. Known(i)' <=> Known(i)
        BY <4>2 DEF Known, Wire, Messages
      <4>4. /\ phase[i] \notin {"new", "dropped"} => Known(i)
            /\ phase[i] # "new" => /\ i[1] < nextBatchID
                                   /\ i[2] <= Len(Messages(i[1]))
                                   /\ i[1] = Current => i[2] < next
        BY <2>1 DEF Inv1, JobsKnown
      <4>5. i[2] \in Int /\ next \in Int /\ next' = next + 1
        BY <2>1 DEF Inv1, TypeCore, Job
      <4> QED BY <4>1, <4>2, <4>3, <4>4, <4>5, <2>6 DEF Messages
    <3> QED BY <3>1, <3>2
  <2> QED BY <2>5, <2>7, <2>8 DEF Inv1
<1>5. CASE SubmitMessage
  <2> DEFINE j == <<Current, next>>
             key == ConversationKey(Wire(j))
  <2>1. /\ pc = "pending" /\ Feeding /\ next <= Len(Messages(Current))
        /\ Messages(Current)[next] # Malformed
        /\ pending < MaxPending /\ pending' = pending + 1
        /\ next' = next + 1 /\ pc' = "feed"
        /\ phase' = [phase EXCEPT ![j] = "queued"]
        /\ UNCHANGED <<outerVars, batchVars, commitVars, nextBatchID, deliverVars>>
    BY <1>5 DEF SubmitMessage, Feeding, Inv1, Control
  <2>2. Current \in 1..MaxBatches /\ j \in Job /\ Len(Messages(Current)) \in 0..MaxLen
    BY <2>1, CurrentFacts
  <2>3. Wire(j) \in Wires /\ Wire(j) # Malformed
    <3>1. Messages(Current) \in Seq(Wires \cup {Malformed})
      BY <2>1, CurrentFacts
    <3>2. next \in 1..Len(Messages(Current))
      BY <2>1, <2>2 DEF Inv1, TypeCore
    <3> QED BY <2>1, <3>1, <3>2 DEF Wire
  <2>4. tails' \in [ConversationKeys -> Job \cup {NoJob}]
        /\ prev' \in [Job -> Job \cup {NoJob}]
    <3>1. key \in ConversationKeys
      BY <2>3, WireFacts
    <3> QED BY <1>5, <2>2, <3>1 DEF SubmitMessage, Inv1, TypeCore
  <2>5. phase' \in [Job -> Phases]
    BY <2>1, <2>2 DEF Inv1, TypeCore, Phases
  <2>6. TypeCore'
    BY <2>1, <2>2, <2>4, <2>5 DEF Inv1, TypeCore, outerVars, batchVars, commitVars,
                                  deliverVars, ProcessorStates
  <2>7. Control'
    BY <2>1, <2>2 DEF Inv1, Control, TypeCore, outerVars, commitVars, Messages, Current
  <2>8. JobsKnown'
    <3>0. Current' = Current
      BY <2>1 DEF Current
    <3> SUFFICES ASSUME NEW i \in Job
                 PROVE  /\ phase'[i] \notin {"new", "dropped"} => Known(i)'
                        /\ phase'[i] # "new" => /\ i[1] < nextBatchID'
                                                /\ i[2] <= Len(Messages(i[1])')
                                                /\ i[1] = Current' => i[2] < next'
      BY DEF JobsKnown, Feeding
    <3>1. CASE i = j
      BY <2>1, <2>2, <2>3, <3>0, <3>1, SMTT(30)
      DEF Inv1, TypeCore, Current, Messages, outerVars, Known, Wire
    <3>2. CASE i # j
      <4>1. phase'[i] = phase[i]
        BY <2>1, <2>2, <3>2 DEF Inv1, TypeCore
      <4>2. UNCHANGED <<sent, nextBatchID>>
        BY <2>1 DEF outerVars
      <4>3. Known(i)' <=> Known(i)
        BY <4>2 DEF Known, Wire, Messages
      <4>4. /\ phase[i] \notin {"new", "dropped"} => Known(i)
            /\ phase[i] # "new" => /\ i[1] < nextBatchID
                                   /\ i[2] <= Len(Messages(i[1]))
                                   /\ i[1] = Current => i[2] < next
        BY <2>1 DEF Inv1, JobsKnown
      <4>5. i[2] \in Int /\ next \in Int /\ next' = next + 1
        BY <2>1 DEF Inv1, TypeCore, Job
      <4> QED BY <4>1, <4>2, <4>3, <4>4, <4>5, <3>0 DEF Messages
    <3> QED BY <3>1, <3>2
  <2> QED BY <2>6, <2>7, <2>8 DEF Inv1
<1>6. CASE CancelRest
  <2>1. /\ pc = "cancel" /\ Feeding /\ pc' = "waiting"
        /\ phase' = [j \in Job |-> IF j \in Unscheduled THEN "dropped" ELSE phase[j]]
        /\ result' = [j \in Job |-> IF j \in Unscheduled THEN "cancelled" ELSE result[j]]
        /\ UNCHANGED <<outerVars, commitVars, feedVars, orderVars, active, seen, context, handed>>
        /\ UNCHANGED <<firstError, ctxDone>>
    BY <1>6 DEF CancelRest, Feeding, CancelUnscheduled
  <2>2. Current \in 1..MaxBatches /\ Len(Messages(Current)) \in 0..MaxLen
    BY <2>1, CurrentFacts
  <2>3. phase' \in [Job -> Phases] /\ result' \in [Job -> Results]
    BY <2>1 DEF Inv1, TypeCore, Phases, Results
  <2>4. /\ remaining' \in [1..MaxBatches -> 0..MaxLen]
        /\ failed' \in [1..MaxBatches -> BOOLEAN]
    <3> DEFINE count == Len(Messages(Current)) - next + 1
    <3>1. CancelUnscheduled(Current, count)
      BY <1>6 DEF CancelRest
    <3>2. count \in Int
      BY <2>2 DEF Inv1, TypeCore
    <3> HIDE DEF count
    <3>3. remaining' \in [1..MaxBatches -> 0..MaxLen]
      <4>1. remaining[Current] \in 0..MaxLen
        BY <2>2 DEF Inv1, TypeCore
      <4> DEFINE left == remaining[Current]
                         - (IF count > remaining[Current] THEN remaining[Current] ELSE count)
      <4>2. count > 0 => left \in 0..MaxLen
        BY <3>2, <4>1
      <4>3. \/ count > 0 /\ remaining' = [remaining EXCEPT ![Current] = left]
            \/ remaining' = remaining
        BY <3>1 DEF CancelUnscheduled
      <4> HIDE DEF left
      <4> QED BY <4>2, <4>3 DEF Inv1, TypeCore
    <3>4. failed' \in [1..MaxBatches -> BOOLEAN]
      BY <2>2, <3>1 DEF CancelUnscheduled, Inv1, TypeCore
    <3> QED BY <3>3, <3>4
  <2>5. TypeCore'
    BY <2>1, <2>3, <2>4 DEF Inv1, TypeCore, outerVars, commitVars, feedVars, orderVars,
                            ProcessorStates
  <2>6. Control'
    BY <2>1 DEF Inv1, Control, TypeCore, outerVars, commitVars, feedVars, Messages, Current
  <2>7. JobsKnown'
    <3> SUFFICES ASSUME NEW i \in Job
                 PROVE  /\ phase'[i] \notin {"new", "dropped"} => Known(i)'
                        /\ phase'[i] # "new" => /\ i[1] < nextBatchID'
                                                /\ i[2] <= Len(Messages(i[1])')
      BY <2>1 DEF JobsKnown, Feeding
    <3>1. CASE i \in Unscheduled
      <4>1. phase'[i] = "dropped"
        BY <2>1, <3>1
      <4>2. i[1] = Current /\ i[2] \in 1..Len(Messages(Current))
        BY <3>1 DEF Unscheduled, JobsOf
      <4>3. UNCHANGED <<sent, nextBatchID>>
        BY <2>1 DEF outerVars, feedVars
      <4> QED BY <2>2, <4>1, <4>2, <4>3 DEF Messages, Current, Inv1, TypeCore
    <3>2. CASE i \notin Unscheduled
      BY <2>1, <3>2 DEF Inv1, JobsKnown, Known, Wire, Messages, outerVars, feedVars
    <3> QED BY <3>1, <3>2
  <2> QED BY <2>5, <2>6, <2>7 DEF Inv1
<1> QED BY <1>1, <1>2, <1>3, <1>4, <1>5, <1>6, Processor DEF Processor

LEMMA Inv1Stutter ==
    ASSUME Inv1, UNCHANGED vars PROVE Inv1'
BY DEF Inv1, TypeCore, Control, JobsKnown, Known, Wire, Messages, Feeding, Current, vars,
       outerVars, batchVars, commitVars, feedVars, orderVars, deliverVars

LEMMA Inv1Next ==
    ASSUME Inv1, [Next]_vars PROVE Inv1'
BY Inv1Surroundings, Inv1Commit, Inv1Processor, Inv1Message, Inv1Stutter
   DEF Next, Terminated

\* Typing and control hold in every reachable state.
THEOREM Inv1Invariant == Spec => []Inv1
<1>1. Init => Inv1
  BY Inv1Init
<1>2. Inv1 /\ [Next]_vars => Inv1'
  BY Inv1Next
<1> QED BY <1>1, <1>2, PTL DEF Spec

----------------------------------------------------------------------------
(***************************************************************************)
(* The counting channels.                                                  *)
(***************************************************************************)

Held(D, f, S) == {i \in D : f[i] \in S}

LEMMA JobFinite == IsFiniteSet(Job)
<1>1. IsFiniteSet(1..MaxBatches) /\ IsFiniteSet(1..MaxLen)
  BY BoundsAssumption, FS_Interval
<1> QED BY <1>1, FS_Product DEF Job

\* Two finite sets that differ at most in j.
LEMMA CardCompare ==
    ASSUME NEW F, NEW G, NEW j, IsFiniteSet(F), IsFiniteSet(G), F \ {j} = G \ {j}
    PROVE  /\ Cardinality(F) \in Nat
           /\ j \in G /\ j \notin F => Cardinality(G) = Cardinality(F) + 1
           /\ j \notin G /\ j \in F => Cardinality(G) = Cardinality(F) - 1
           /\ (j \in G <=> j \in F) => Cardinality(G) = Cardinality(F)
<1>1. Cardinality(F) \in Nat /\ Cardinality(G) \in Nat
  BY FS_CardinalityType
<1>2. /\ Cardinality(F \ {j}) = IF j \in F THEN Cardinality(F) - 1 ELSE Cardinality(F)
      /\ Cardinality(G \ {j}) = IF j \in G THEN Cardinality(G) - 1 ELSE Cardinality(G)
  BY FS_RemoveElement
<1>3. Cardinality(F \ {j}) = Cardinality(G \ {j})
  OBVIOUS
<1>4. (IF j \in F THEN Cardinality(F) - 1 ELSE Cardinality(F))
      = (IF j \in G THEN Cardinality(G) - 1 ELSE Cardinality(G))
  BY <1>2, <1>3
<1> QED BY <1>1, <1>4

\* Moving one job changes a count by what it leaves and what it enters.
LEMMA CountMoves ==
    ASSUME TypeCore, NEW D \in SUBSET Job, NEW j \in D, NEW p \in Phases, NEW S,
           phase' = [phase EXCEPT ![j] = p]
    PROVE  /\ Cardinality(Held(D, phase, S)) \in Nat
           /\ p \in S /\ phase[j] \notin S =>
                 Cardinality(Held(D, phase', S)) = Cardinality(Held(D, phase, S)) + 1
           /\ p \notin S /\ phase[j] \in S =>
                 Cardinality(Held(D, phase', S)) = Cardinality(Held(D, phase, S)) - 1
           /\ (p \in S <=> phase[j] \in S) =>
                 Cardinality(Held(D, phase', S)) = Cardinality(Held(D, phase, S))
<1>1. IsFiniteSet(D)
  BY JobFinite, FS_Subset
<1>2. IsFiniteSet(Held(D, phase, S)) /\ IsFiniteSet(Held(D, phase', S))
  BY <1>1, FS_Subset DEF Held
<1>3. phase'[j] = p /\ \A i \in D : i # j => phase'[i] = phase[i]
  BY DEF TypeCore
<1>4. Held(D, phase, S) \ {j} = Held(D, phase', S) \ {j}
  BY <1>3 DEF Held
<1>5. /\ j \in Held(D, phase, S) <=> phase[j] \in S
      /\ j \in Held(D, phase', S) <=> p \in S
  BY <1>3 DEF Held
<1>6. PICK F, G : F = Held(D, phase, S) /\ G = Held(D, phase', S)
  OBVIOUS
<1>7. /\ Cardinality(F) \in Nat
      /\ p \in S /\ phase[j] \notin S => Cardinality(G) = Cardinality(F) + 1
      /\ p \notin S /\ phase[j] \in S => Cardinality(G) = Cardinality(F) - 1
      /\ (p \in S <=> phase[j] \in S) => Cardinality(G) = Cardinality(F)
  BY <1>2, <1>4, <1>5, <1>6, CardCompare
<1> QED BY <1>6, <1>7

\* The two counts the channels stand for.
LEMMA CountAsHeld ==
    /\ Count(Executing) = Cardinality(Held(Job, phase, Executing))
    /\ Count(Running) = Cardinality(Held(Job, phase, Running))
    /\ Count(Executing)' = Cardinality(Held(Job, phase', Executing))
    /\ Count(Running)' = Cardinality(Held(Job, phase', Running))
BY DEF Count, Held, Executing, Running, Phases

\* A job that moves inside Running, to or from Executing.
LEMMA CountsMove ==
    ASSUME TypeCore, NEW j \in Job, NEW p \in Phases,
           phase' = [phase EXCEPT ![j] = p]
    PROVE  /\ Count(Executing) \in Nat /\ Count(Running) \in Nat
           /\ p \in Executing /\ phase[j] \notin Executing =>
                 Count(Executing)' = Count(Executing) + 1
           /\ p \notin Executing /\ phase[j] \in Executing =>
                 Count(Executing)' = Count(Executing) - 1
           /\ (p \in Executing <=> phase[j] \in Executing) =>
                 Count(Executing)' = Count(Executing)
           /\ p \in Running /\ phase[j] \notin Running =>
                 Count(Running)' = Count(Running) + 1
           /\ p \notin Running /\ phase[j] \in Running =>
                 Count(Running)' = Count(Running) - 1
           /\ (p \in Running <=> phase[j] \in Running) =>
                 Count(Running)' = Count(Running)
<1>1. Job \in SUBSET Job
  OBVIOUS
<1>2. /\ Cardinality(Held(Job, phase, Executing)) \in Nat
      /\ p \in Executing /\ phase[j] \notin Executing =>
            Cardinality(Held(Job, phase', Executing))
            = Cardinality(Held(Job, phase, Executing)) + 1
      /\ p \notin Executing /\ phase[j] \in Executing =>
            Cardinality(Held(Job, phase', Executing))
            = Cardinality(Held(Job, phase, Executing)) - 1
      /\ (p \in Executing <=> phase[j] \in Executing) =>
            Cardinality(Held(Job, phase', Executing))
            = Cardinality(Held(Job, phase, Executing))
  BY <1>1, CountMoves, Zenon
<1>3. /\ Cardinality(Held(Job, phase, Running)) \in Nat
      /\ p \in Running /\ phase[j] \notin Running =>
            Cardinality(Held(Job, phase', Running))
            = Cardinality(Held(Job, phase, Running)) + 1
      /\ p \notin Running /\ phase[j] \in Running =>
            Cardinality(Held(Job, phase', Running))
            = Cardinality(Held(Job, phase, Running)) - 1
      /\ (p \in Running <=> phase[j] \in Running) =>
            Cardinality(Held(Job, phase', Running))
            = Cardinality(Held(Job, phase, Running))
  BY <1>1, CountMoves, Zenon
<1> QED BY <1>2, <1>3, CountAsHeld, Zenon

\* The counts look at nothing but the phases.
LEMMA CountsSame ==
    ASSUME \A i \in Job : /\ phase'[i] \in Executing <=> phase[i] \in Executing
                          /\ phase'[i] \in Running <=> phase[i] \in Running
    PROVE  Count(Executing)' = Count(Executing) /\ Count(Running)' = Count(Running)
<1>1. Held(Job, phase', Executing) = Held(Job, phase, Executing)
  BY DEF Held
<1>2. Held(Job, phase', Running) = Held(Job, phase, Running)
  BY DEF Held
<1> QED BY <1>1, <1>2, CountAsHeld

\* The message about to be scheduled, and those after it, have no goroutine.
LEMMA UnscheduledNew ==
    ASSUME Inv1, Feeding
    PROVE  /\ next <= Len(Messages(Current)) => phase[<<Current, next>>] = "new"
           /\ \A i \in Job : i \in Unscheduled => phase[i] = "new"
<1>1. next <= Len(Messages(Current)) => <<Current, next>> \in Job
  BY CurrentFacts
<1>2. \A i \in Job : i[1] = Current /\ phase[i] # "new" => i[2] < next
  BY DEF Inv1, JobsKnown
<1>3. next \in Nat /\ \A i \in Job : i[2] \in Nat
  BY BoundsAssumption DEF Inv1, TypeCore, Job
<1>4. next <= Len(Messages(Current)) => phase[<<Current, next>>] = "new"
  BY <1>1, <1>2, <1>3
<1>5. \A i \in Job : i \in Unscheduled => phase[i] = "new"
  BY <1>2, <1>3 DEF Unscheduled, JobsOf
<1> QED BY <1>4, <1>5

LEMMA PlacesMessage ==
    ASSUME Inv1, PlacesBalanced, NEW j \in Job, Message(j)
    PROVE  PlacesBalanced'
<1> USE DEF Executing, Running, Phases
<1>1. UNCHANGED <<slots, nextBatchID, nextCommitID, pc>>
  BY Message(j)
  DEF Message, Start, CancelQueued, CheckDelivery, RememberContext, HookFails, HandlerReturns,
      RecordReplay, CompleteJob, CloseDone, Exit, JobGoto, Return, Continue, commitVars,
      feedVars
<1>2. active' <= MaxActive
  BY Inv1Message DEF Inv1, TypeCore
<1>3. ASSUME NEW p \in Phases, phase' = [phase EXCEPT ![j] = p],
             \/ /\ phase[j] = "queued" /\ p = "started"
                /\ active' = active + 1 /\ pending' = pending
             \/ /\ phase[j] \in Executing /\ p = "finished"
                /\ active' = active - 1 /\ pending' = pending
             \/ /\ phase[j] \in Executing /\ p \in Executing
                /\ UNCHANGED <<active, pending>>
             \/ /\ phase[j] \in {"queued", "finished", "exiting"}
                /\ p \in {"committing", "exiting", "closed"}
                /\ UNCHANGED <<active, pending>>
             \/ /\ phase[j] = "closed" /\ p = "exited"
                /\ active' = active /\ pending' = pending - 1
      PROVE  active' = Count(Executing)' /\ pending' = Count(Running)'
  <2>1. Count(Executing) \in Nat /\ Count(Running) \in Nat
    BY <1>3, CountsMove DEF Inv1
  <2>2. /\ p \in Executing /\ phase[j] \notin Executing =>
              Count(Executing)' = Count(Executing) + 1
        /\ p \notin Executing /\ phase[j] \in Executing =>
              Count(Executing)' = Count(Executing) - 1
        /\ (p \in Executing <=> phase[j] \in Executing) =>
              Count(Executing)' = Count(Executing)
    BY <1>3, CountsMove DEF Inv1
  <2>3. /\ p \notin Running /\ phase[j] \in Running =>
              Count(Running)' = Count(Running) - 1
        /\ (p \in Running <=> phase[j] \in Running) =>
              Count(Running)' = Count(Running)
    BY <1>3, CountsMove DEF Inv1
  <2>4. active' = Count(Executing)'
    BY <1>3, <2>1, <2>2 DEF PlacesBalanced
  <2>5. pending' = Count(Running)'
    BY <1>3, <2>1, <2>3 DEF PlacesBalanced
  <2> QED BY <2>4, <2>5
<1>4. active' = Count(Executing)' /\ pending' = Count(Running)'
  <2>1. CASE Start(j)
    BY <1>3, <2>1 DEF Start, JobGoto, orderVars
  <2>2. CASE CancelQueued(j)
    BY <1>3, <2>2 DEF CancelQueued, orderVars
  <2>3. CASE CheckDelivery(j)
    BY <1>3, <2>3 DEF CheckDelivery, Return, Continue, JobGoto, orderVars
  <2>4. ASSUME NEW w \in BOOLEAN, RememberContext(j, w)
        PROVE  active' = Count(Executing)' /\ pending' = Count(Running)'
    BY <1>3, <2>4 DEF RememberContext, Return, Continue, JobGoto, orderVars, AfterRemember
  <2>5. CASE HookFails(j)
    BY <1>3, <2>5 DEF HookFails, Return, JobGoto, orderVars
  <2>6. ASSUME NEW a \in MessageActions, NEW e \in BOOLEAN, HandlerReturns(j, a, e)
        PROVE  active' = Count(Executing)' /\ pending' = Count(Running)'
    BY <1>3, <2>6 DEF HandlerReturns, Return, Continue, JobGoto, orderVars
  <2>7. ASSUME NEW w \in BOOLEAN, RecordReplay(j, w)
        PROVE  active' = Count(Executing)' /\ pending' = Count(Running)'
    BY <1>3, <2>7 DEF RecordReplay, Return, JobGoto, orderVars
  <2>8. CASE CompleteJob(j)
    BY <1>3, <2>8 DEF CompleteJob, orderVars, deliverVars
  <2>9. CASE CloseDone(j)
    BY <1>3, <2>9 DEF CloseDone, JobGoto, orderVars, deliverVars
  <2>10. CASE Exit(j)
    BY <1>3, <2>10 DEF Exit, deliverVars
  <2> QED BY <2>1, <2>2, <2>3, <2>4, <2>5, <2>6, <2>7, <2>8, <2>9, <2>10, Message(j)
          DEF Message
<1> QED BY <1>1, <1>2, <1>4 DEF PlacesBalanced

\* Steps that keep the counts and the two channels of the goroutines.
LEMMA PlacesKept ==
    ASSUME Inv1', PlacesBalanced, UNCHANGED <<active, pending>>,
           \A i \in Job : /\ phase'[i] \in Executing <=> phase[i] \in Executing
                          /\ phase'[i] \in Running <=> phase[i] \in Running,
           slots' = nextBatchID' - nextCommitID' + (IF pc' = "register" THEN 1 ELSE 0)
    PROVE  PlacesBalanced'
<1>1. Count(Executing)' = Count(Executing) /\ Count(Running)' = Count(Running)
  BY CountsSame
<1>2. active' <= MaxActive
  BY DEF Inv1, TypeCore
<1> QED BY <1>1, <1>2 DEF PlacesBalanced

LEMMA PlacesSurroundings ==
    ASSUME Inv1, PlacesBalanced, Surroundings
    PROVE  PlacesBalanced'
<1>1. UNCHANGED <<active, pending, phase, slots, nextBatchID, nextCommitID, pc>>
  BY Surroundings DEF Surroundings, Enqueue, CloseBatches, CancelPoll, InvalidateSession, Reply, ReplyEarlier, StoresAgain,
     Goto, commitVars, feedVars, orderVars, deliverVars
<1> QED BY <1>1, PlacesKept, Inv1Surroundings DEF PlacesBalanced

LEMMA PlacesCommit ==
    ASSUME Inv1, PlacesBalanced, Commit
    PROVE  PlacesBalanced'
<1>1. Inv1'
  BY Inv1Commit
<1>2. CASE AdvanceCursor
  <2>1. /\ UNCHANGED <<active, pending, phase, nextBatchID, pc>>
        /\ slots' = slots - 1 /\ nextCommitID' = nextCommitID + 1
    BY <1>2 DEF AdvanceCursor, ReleaseSlot, feedVars, orderVars, deliverVars
  <2>2. slots' = nextBatchID' - nextCommitID' + (IF pc' = "register" THEN 1 ELSE 0)
    BY <2>1 DEF Inv1, TypeCore, PlacesBalanced
  <2> QED BY <1>1, <2>1, <2>2, PlacesKept
<1>3. CASE AdvanceCursorFails \/ AdvanceStops
  <2>1. UNCHANGED <<active, pending, slots, nextBatchID, nextCommitID>>
    BY <1>3 DEF AdvanceCursorFails, AdvanceStops, LeaveCommit, commitVars, feedVars,
       orderVars, deliverVars
  <2>2. pc' = "register" <=> pc = "register"
    BY <1>3 DEF AdvanceCursorFails, AdvanceStops, LeaveCommit
  <2>3. \A i \in Job : /\ phase'[i] \in Executing <=> phase[i] \in Executing
                       /\ phase'[i] \in Running <=> phase[i] \in Running
    BY <1>3 DEF AdvanceCursorFails, AdvanceStops, LeaveCommit, Executing, Running, Phases,
       Inv1, TypeCore
  <2>4. slots' = nextBatchID' - nextCommitID' + (IF pc' = "register" THEN 1 ELSE 0)
    BY <2>1, <2>2 DEF PlacesBalanced
  <2> QED BY <1>1, <2>1, <2>3, <2>4, PlacesKept
<1> QED BY <1>2, <1>3, Commit DEF Commit

LEMMA PlacesProcessor ==
    ASSUME Inv1, PlacesBalanced, Processor
    PROVE  PlacesBalanced'
<1>1. Inv1'
  BY Inv1Processor
<1>2. CASE SelectBatch \/ SelectClosed \/ FeedDone \/ FeedDecodes \/ StopFeeding
           \/ ProcessorReturns
  <2>1. /\ UNCHANGED <<active, pending, phase, slots, nextBatchID, nextCommitID>>
        /\ pc # "register" /\ pc' # "register"
    BY <1>2 DEF SelectBatch, SelectClosed, FeedDone, FeedDecodes, StopFeeding,
       ProcessorReturns, Goto, commitVars, feedVars, orderVars, deliverVars,
       SelectsOutsideFeed
  <2> QED BY <1>1, <2>1, PlacesKept DEF PlacesBalanced
<1>3. CASE AcquireSlot
  <2>1. /\ UNCHANGED <<active, pending, phase, nextBatchID, nextCommitID>>
        /\ pc # "register" /\ pc' = "register" /\ slots' = slots + 1
    BY <1>3 DEF AcquireSlot, feedVars, orderVars, deliverVars
  <2>2. slots' = nextBatchID' - nextCommitID' + (IF pc' = "register" THEN 1 ELSE 0)
    BY <2>1 DEF Inv1, TypeCore, PlacesBalanced
  <2> QED BY <1>1, <2>1, <2>2, PlacesKept
<1>4. CASE RegisterBatch
  <2>1. /\ UNCHANGED <<active, pending, phase, slots, nextCommitID>>
        /\ pc = "register" /\ pc' # "register" /\ nextBatchID' = nextBatchID + 1
    BY <1>4 DEF RegisterBatch, AfterRegister, commitVars, orderVars, deliverVars
  <2>2. slots' = nextBatchID' - nextCommitID' + (IF pc' = "register" THEN 1 ELSE 0)
    BY <2>1 DEF Inv1, TypeCore, PlacesBalanced
  <2> QED BY <1>1, <2>1, <2>2, PlacesKept
<1>5. CASE FeedDecodeFails \/ CancelRest
  <2>1. Feeding /\ pc # "register" /\ pc' # "register"
    BY <1>5 DEF FeedDecodeFails, CancelRest, Feeding
  <2>2. UNCHANGED <<active, pending, slots, nextBatchID, nextCommitID>>
    BY <1>5 DEF FeedDecodeFails, CancelRest, commitVars, feedVars, orderVars
  <2>3. \A i \in Job : \/ phase'[i] = phase[i]
                       \/ phase[i] = "new" /\ phase'[i] = "dropped"
    <3>1. CASE FeedDecodeFails
      <4>1. /\ next <= Len(Messages(Current))
            /\ phase' = [phase EXCEPT ![<<Current, next>>] = "dropped"]
        BY <3>1 DEF FeedDecodeFails
      <4>2. phase[<<Current, next>>] = "new"
        BY <2>1, <4>1, UnscheduledNew
      <4> QED BY <4>1, <4>2 DEF Inv1, TypeCore
    <3>2. CASE CancelRest
      <4>1. phase' = [j \in Job |-> IF j \in Unscheduled THEN "dropped" ELSE phase[j]]
        BY <3>2 DEF CancelRest
      <4>2. \A i \in Job : i \in Unscheduled => phase[i] = "new"
        BY <2>1, UnscheduledNew
      <4> QED BY <4>1, <4>2
    <3> QED BY <1>5, <3>1, <3>2
  <2>4. \A i \in Job : /\ phase'[i] \in Executing <=> phase[i] \in Executing
                       /\ phase'[i] \in Running <=> phase[i] \in Running
    BY <2>3 DEF Executing, Running
  <2> QED BY <1>1, <2>1, <2>2, <2>4, PlacesKept DEF PlacesBalanced
<1>6. CASE SubmitMessage
  <2> DEFINE j == <<Current, next>>
  <2>1. /\ Feeding /\ pc # "register" /\ pc' # "register"
        /\ next <= Len(Messages(Current))
        /\ pending' = pending + 1
        /\ phase' = [phase EXCEPT ![j] = "queued"]
        /\ UNCHANGED <<active, slots, nextBatchID, nextCommitID>>
    BY <1>6 DEF SubmitMessage, Feeding, Inv1, Control, commitVars, deliverVars
  <2>2. j \in Job /\ phase[j] = "new"
    BY <2>1, CurrentFacts, UnscheduledNew
  <2>3. /\ Count(Executing) \in Nat /\ Count(Running) \in Nat
        /\ Count(Executing)' = Count(Executing)
        /\ Count(Running)' = Count(Running) + 1
    <3> HIDE DEF j
    <3>1. "queued" \in Phases /\ "queued" \in Running /\ "new" \notin Running
          /\ "queued" \notin Executing /\ "new" \notin Executing
      BY DEF Phases, Running, Executing
    <3> QED BY <2>1, <2>2, <3>1, CountsMove DEF Inv1
  <2>4. active' <= MaxActive
    BY <1>1 DEF Inv1, TypeCore
  <2> QED BY <2>1, <2>3, <2>4 DEF PlacesBalanced
<1> QED BY <1>2, <1>3, <1>4, <1>5, <1>6, Processor DEF Processor

LEMMA PlacesStutter ==
    ASSUME PlacesBalanced, Inv1, UNCHANGED vars PROVE PlacesBalanced'
<1>1. UNCHANGED <<active, pending, phase, slots, nextBatchID, nextCommitID, pc>>
  BY DEF vars, commitVars, feedVars, orderVars, deliverVars
<1> QED BY <1>1, PlacesKept, Inv1Stutter DEF PlacesBalanced

LEMMA PlacesInit == Init => PlacesBalanced
<1> SUFFICES ASSUME Init PROVE PlacesBalanced
  OBVIOUS
<1>1. Held(Job, phase, Executing) = {} /\ Held(Job, phase, Running) = {}
  BY DEF Init, Held, Executing, Running
<1>2. Count(Executing) = 0 /\ Count(Running) = 0
  BY <1>1, CountAsHeld, FS_EmptySet
<1> QED BY <1>2, Capacities DEF Init, PlacesBalanced

\* The channels active, pending and batchSlots hold exactly one token per
\* executing message, live goroutine and uncommitted batch; with it, all
\* receives from them succeed at once and MaxConcurrentHandlers is respected.
THEOREM PlacesInvariant == Spec => []PlacesBalanced
<1>1. Init => Inv1 /\ PlacesBalanced
  BY Inv1Init, PlacesInit
<1>2. Inv1 /\ PlacesBalanced /\ [Next]_vars => (Inv1 /\ PlacesBalanced)'
  BY Inv1Next, PlacesSurroundings, PlacesCommit, PlacesProcessor, PlacesMessage,
     PlacesStutter DEF Next, Terminated
<1> QED BY <1>1, <1>2, PTL DEF Spec

\* Every variable keeps its type; the counters of the channels never leave the
\* capacities made by newKeyedDispatcher.
THEOREM TypeInvariant == Spec => []TypeOK
<1>1. Inv1 /\ PlacesBalanced => TypeOK
  <2> SUFFICES ASSUME Inv1, PlacesBalanced PROVE TypeOK
    OBVIOUS
  <2>1. \A S : Cardinality(Held(Job, phase, S)) \in Nat
    <3>1. \A S : IsFiniteSet(Held(Job, phase, S))
      BY JobFinite, FS_Subset DEF Held
    <3> QED BY <3>1, FS_CardinalityType
  <2>2. active \in 0..MaxActive /\ pending \in 0..MaxPending
    BY <2>1, CountAsHeld, Capacities DEF Inv1, TypeCore, PlacesBalanced
  <2>3. slots \in 0..MaxSlots
    BY Capacities DEF Inv1, TypeCore, Control, PlacesBalanced
  <2> QED BY <2>2, <2>3 DEF Inv1, TypeCore, TypeOK
<1> QED BY <1>1, Inv1Invariant, PlacesInvariant, PTL

----------------------------------------------------------------------------
(***************************************************************************)
(* What becomes of messages: proofs about the cursor, the commit loop, the *)
(* order inside a conversation, replays, context tokens, and that          *)
(* Dispatcher implements OrderedDelivery.                                  *)
(***************************************************************************)

(***************************************************************************)
(* What remains of a batch.                                                *)
(***************************************************************************)

\* The messages at positions lo to hi of batch b, and how many they are.
LEMMA IntervalJobs ==
    ASSUME NEW b, NEW lo \in Nat, NEW hi \in Nat
    PROVE  LET I == {<<b, i>> : i \in lo..hi}
           IN  /\ IsFiniteSet(I)
               /\ Cardinality(I) = IF lo > hi THEN 0 ELSE hi - lo + 1
<1> DEFINE I == {<<b, i>> : i \in lo..hi}
           f == [i \in lo..hi |-> <<b, i>>]
<1>1. /\ IsFiniteSet(lo..hi)
      /\ Cardinality(lo..hi) = IF lo > hi THEN 0 ELSE hi - lo + 1
  BY FS_Interval
<1>2. f \in Bijection(lo..hi, I)
  <2>1. f \in [lo..hi -> I]
    OBVIOUS
  <2>2. \A i, k \in lo..hi : f[i] = f[k] => i = k
    OBVIOUS
  <2>3. \A t \in I : \E i \in lo..hi : f[i] = t
    OBVIOUS
  <2> HIDE DEF f, I
  <2> QED BY <2>1, <2>2, <2>3 DEF Bijection, Injection, Surjection, IsInjective
<1>3. ExistsBijection(lo..hi, I)
  BY <1>2 DEF ExistsBijection
<1>4. IsFiniteSet(I) /\ Cardinality(I) = Cardinality(lo..hi)
  BY <1>1, <1>3, FS_Bijection
<1> QED BY <1>1, <1>4

\* The jobs of a batch that was sent.
LEMMA JobsOfFacts ==
    ASSUME Inv1, NEW b \in 1..Len(sent)
    PROVE  /\ JobsOf(b) \in SUBSET Job
           /\ \A j \in Job : j \in JobsOf(b) <=> j[1] = b /\ j[2] <= Len(Messages(b))
<1>1. b \in 1..MaxBatches /\ Len(Messages(b)) \in 0..MaxLen
  BY BatchFacts
<1>2. JobsOf(b) \in SUBSET Job
  BY <1>1, BoundsAssumption DEF JobsOf, Job
<1>3. ASSUME NEW j \in Job, j[1] = b, j[2] <= Len(Messages(b)) PROVE j \in JobsOf(b)
  <2>1. j = <<b, j[2]>> /\ j[2] \in 1..Len(Messages(b))
    BY <1>1, <1>3 DEF Job
  <2> QED BY <2>1 DEF JobsOf
<1>4. ASSUME NEW j \in JobsOf(b) PROVE j[1] = b /\ j[2] <= Len(Messages(b))
  BY <1>1 DEF JobsOf
<1> QED BY <1>2, <1>3, <1>4

Open(b) == Held(JobsOf(b), phase, Uncompleted)

LEMMA OpenFacts ==
    ASSUME Inv1, NEW b \in 1..Len(sent)
    PROVE  IsFiniteSet(Open(b)) /\ Cardinality(Open(b)) \in Nat
<1>1. JobsOf(b) \in SUBSET Job
  BY JobsOfFacts
<1>2. IsFiniteSet(JobsOf(b))
  BY <1>1, JobFinite, FS_Subset
<1>3. IsFiniteSet(Open(b))
  BY <1>2, FS_Subset DEF Open, Held
<1> QED BY <1>3, FS_CardinalityType

\* A batch has open messages only while it is not committed; what was
\* completed in a batch that did not fail was consumed.
Outcomes ==
    \A j \in Job :
       /\ phase[j] = "finished" => result[j] \in Consumed \cup {"err"}
       /\ phase[j] \notin Uncompleted /\ ~failed[j[1]] => result[j] \in Consumed
       /\ j[1] < nextCommitID /\ j[2] <= Len(Messages(j[1]))
          => phase[j] \notin Uncompleted /\ result[j] \in Consumed

Inv3 == RemainingExact /\ Outcomes

LEMMA RemainingIsOpen ==
    /\ RemainingExact <=>
          \A b \in 1..(nextBatchID - 1) : remaining[b] = Cardinality(Open(b))
    /\ RemainingExact' <=>
          \A b \in 1..(nextBatchID' - 1) : remaining'[b] = Cardinality(Open(b)')
<1>1. \A b : Open(b) = {j \in JobsOf(b) : phase[j] \in Uncompleted}
  BY DEF Open, Held
<1>2. \A b : Open(b)' = {j \in JobsOf(b)' : phase'[j] \in Uncompleted}
  BY DEF Open, Held, Uncompleted, Executing
<1>3. \A b : {j \in JobsOf(b) : phase[j] \in Uncompleted}' =
              {j \in JobsOf(b)' : phase'[j] \in Uncompleted}
  BY DEF Uncompleted, Executing
<1>4. RemainingExact <=>
          \A b \in 1..(nextBatchID - 1) : remaining[b] = Cardinality(Open(b))
  BY <1>1 DEF RemainingExact
<1>5. RemainingExact' <=>
          \A b \in 1..(nextBatchID' - 1) : remaining'[b] = Cardinality(Open(b)')
  BY <1>2, <1>3 DEF RemainingExact
<1> QED BY <1>4, <1>5

----------------------------------------------------------------------------
(***************************************************************************)
(* Steps that complete no message.                                         *)
(***************************************************************************)

\* Open messages of a batch depend on its length and on the phases.
LEMMA OpenSame ==
    ASSUME Inv1, NEW b \in 1..Len(sent), sent'[b] = sent[b],
           \A i \in Job : i[1] = b =>
              (phase'[i] \in Uncompleted <=> phase[i] \in Uncompleted)
    PROVE  Open(b)' = Open(b)
<1>1. JobsOf(b)' = JobsOf(b)
  BY DEF JobsOf, Messages
<1>2. \A i \in JobsOf(b) : i \in Job /\ i[1] = b
  BY JobsOfFacts
<1>3. Held(JobsOf(b), phase', Uncompleted) = Held(JobsOf(b), phase, Uncompleted)
  BY <1>2 DEF Held
<1> QED BY <1>1, <1>3 DEF Open, Uncompleted, Executing

LEMMA RemainingKept ==
    ASSUME Inv1, RemainingExact, UNCHANGED <<nextBatchID, remaining>>,
           \A b \in 1..(nextBatchID - 1) : sent'[b] = sent[b],
           \A i \in Job : phase'[i] \in Uncompleted <=> phase[i] \in Uncompleted
    PROVE  RemainingExact'
<1>1. ASSUME NEW b \in 1..(nextBatchID - 1)
      PROVE  remaining'[b] = Cardinality(Open(b)')
  <2>1. b \in 1..Len(sent)
    BY BoundsAssumption DEF Inv1, TypeCore, Control
  <2>2. Open(b)' = Open(b)
    BY <2>1, OpenSame
  <2> QED BY <2>2, RemainingIsOpen
<1> QED BY <1>1, RemainingIsOpen

LEMMA OutcomesKept ==
    ASSUME Inv1, Outcomes, UNCHANGED nextCommitID,
           \A b \in 1..(nextBatchID - 1) : sent'[b] = sent[b],
           \A b \in 1..MaxBatches : failed[b] => failed'[b],
           \A i \in Job : phase'[i] \in Uncompleted <=> phase[i] \in Uncompleted,
           \A i \in Job : phase[i] \notin Uncompleted => result'[i] = result[i],
           \A i \in Job : phase'[i] = "finished" => result'[i] \in Consumed \cup {"err"}
    PROVE  Outcomes'
<1> SUFFICES ASSUME NEW i \in Job
             PROVE  /\ phase'[i] = "finished" => result'[i] \in Consumed \cup {"err"}
                    /\ phase'[i] \notin Uncompleted /\ ~failed'[i[1]] => result'[i] \in Consumed
                    /\ i[1] < nextCommitID' /\ i[2] <= Len(Messages(i[1])')
                       => phase'[i] \notin Uncompleted /\ result'[i] \in Consumed
  BY DEF Outcomes, Uncompleted, Executing, Consumed
<1>1. i[1] \in 1..MaxBatches
  BY DEF Job
<1>2. phase'[i] \notin Uncompleted /\ ~failed'[i[1]] => result'[i] \in Consumed
  BY <1>1 DEF Outcomes
<1>3. ASSUME i[1] < nextCommitID', i[2] <= Len(Messages(i[1])')
      PROVE  phase'[i] \notin Uncompleted /\ result'[i] \in Consumed
  <2>1. i[1] \in 1..(nextBatchID - 1)
    BY <1>1, <1>3, BoundsAssumption DEF Inv1, TypeCore, Control
  <2>2. Messages(i[1])' = Messages(i[1])
    BY <2>1 DEF Messages
  <2> QED BY <1>3, <2>2 DEF Outcomes
<1> QED BY <1>2, <1>3

----------------------------------------------------------------------------
(***************************************************************************)
(* complete is called exactly once for a message, while it is open.        *)
(***************************************************************************)

\* complete finds the batch of an open message and a count to decrement.
LEMMA CompleteFinds ==
    ASSUME Inv1, Inv3, NEW j \in Job, j[1] < nextBatchID, j[2] <= Len(Messages(j[1])),
           phase[j] \in Uncompleted
    PROVE  BatchState(j[1]) /\ remaining[j[1]] > 0
<1>1. j[1] \in 1..Len(sent) /\ j[1] \in 1..(nextBatchID - 1) /\ j[1] \in 1..MaxBatches
  BY BoundsAssumption, SMTT(30) DEF Inv1, TypeCore, Control, Job
<1>2. remaining[j[1]] = Cardinality(Open(j[1]))
  BY <1>1, RemainingIsOpen DEF Inv3
<1>3. remaining[j[1]] > 0
  <2>1. j \in JobsOf(j[1])
    BY <1>1, JobsOfFacts
  <2>2. IsFiniteSet(Open(j[1])) /\ j \in Open(j[1]) /\ Cardinality(Open(j[1])) \in Nat
    BY <1>1, <2>1, OpenFacts DEF Open, Held
  <2>3. Cardinality(Open(j[1])) # 0
    BY <2>2, FS_EmptySet
  <2> QED BY <1>2, <2>2, <2>3
<1>4. BatchState(j[1])
  <2>1. ~(j[1] < nextCommitID)
    BY DEF Inv3, Outcomes
  <2> QED BY <1>1, <2>1, BoundsAssumption DEF BatchState, Inv1, TypeCore
<1> QED BY <1>3, <1>4

LEMMA CompleteOpen ==
    ASSUME Inv1, Inv3, NEW j \in Job, j[1] < nextBatchID, j[2] <= Len(Messages(j[1])),
           phase[j] \in Uncompleted,
           NEW err \in BOOLEAN, NEW executed \in BOOLEAN, Complete(j[1], err, executed),
           NEW p \in Phases \ Uncompleted, phase' = [phase EXCEPT ![j] = p],
           UNCHANGED <<sent, nextBatchID, nextCommitID>>,
           result'[j] \in Consumed \/ err,
           \A i \in Job : i # j => result'[i] = result[i]
    PROVE  Inv3'
<1>1. j[1] \in 1..Len(sent) /\ j[1] \in 1..(nextBatchID - 1) /\ j[1] \in 1..MaxBatches
  BY BoundsAssumption, SMTT(30) DEF Inv1, TypeCore, Control, Job
<1>2. JobsOf(j[1]) \in SUBSET Job /\ j \in JobsOf(j[1])
  BY <1>1, JobsOfFacts
<1>3. /\ Cardinality(Open(j[1])) \in Nat
      /\ Cardinality(Held(JobsOf(j[1]), phase', Uncompleted)) = Cardinality(Open(j[1])) - 1
  <2>1. TypeCore /\ p \in Phases /\ p \notin Uncompleted
    BY DEF Inv1
  <2>2. PICK D : D = JobsOf(j[1])
    OBVIOUS
  <2> QED BY <1>2, <2>1, <2>2, CountMoves DEF Open
<1>4. Open(j[1])' = Held(JobsOf(j[1]), phase', Uncompleted)
  BY DEF Open, JobsOf, Messages, Uncompleted, Executing
<1>5. remaining[j[1]] = Cardinality(Open(j[1]))
  BY <1>1, RemainingIsOpen DEF Inv3
<1>6. BatchState(j[1]) /\ remaining[j[1]] > 0
  BY CompleteFinds
<1>7. /\ remaining' = [remaining EXCEPT ![j[1]] = @ - 1]
      /\ failed' = [failed EXCEPT ![j[1]] = @ \/ err]
  BY <1>6 DEF Complete
<1>8. RemainingExact'
  <2>1. ASSUME NEW b \in 1..(nextBatchID' - 1)
        PROVE  remaining'[b] = Cardinality(Open(b)')
    <3>1. b \in 1..Len(sent) /\ b \in 1..(nextBatchID - 1) /\ b \in 1..MaxBatches
      BY BoundsAssumption DEF Inv1, TypeCore, Control
    <3>2. CASE b = j[1]
      BY <1>1, <1>3, <1>4, <1>5, <1>7, <3>2 DEF Inv1, TypeCore
    <3>3. CASE b # j[1]
      <4>1. \A i \in Job : i[1] = b => phase'[i] = phase[i]
        BY <3>3 DEF Inv1, TypeCore
      <4>2. Open(b)' = Open(b)
        BY <3>1, <4>1, OpenSame
      <4>3. remaining'[b] = remaining[b]
        BY <1>7, <3>1, <3>3 DEF Inv1, TypeCore
      <4> QED BY <3>1, <4>2, <4>3, RemainingIsOpen DEF Inv3
    <3> QED BY <3>2, <3>3
  <2> QED BY <2>1, RemainingIsOpen
<1>9. Outcomes'
  <2> SUFFICES ASSUME NEW i \in Job
               PROVE  /\ phase'[i] = "finished" => result'[i] \in Consumed \cup {"err"}
                      /\ phase'[i] \notin Uncompleted /\ ~failed'[i[1]]
                         => result'[i] \in Consumed
                      /\ i[1] < nextCommitID /\ i[2] <= Len(Messages(i[1]))
                         => phase'[i] \notin Uncompleted /\ result'[i] \in Consumed
    BY DEF Outcomes, Uncompleted, Executing, Consumed, Messages
  <2>1. CASE i = j
    <3>1. phase'[j] = p /\ p # "finished" /\ p \notin Uncompleted
      BY DEF Inv1, TypeCore, Uncompleted
    <3>2. failed'[j[1]] = (failed[j[1]] \/ err)
      BY <1>1, <1>7 DEF Inv1, TypeCore
    <3>3. ~(j[1] < nextCommitID)
      BY <1>1, <1>6, BoundsAssumption DEF BatchState, Inv1, TypeCore
    <3> QED BY <2>1, <3>1, <3>2, <3>3
  <2>2. CASE i # j
    <3>1. phase'[i] = phase[i] /\ result'[i] = result[i]
      BY <2>2 DEF Inv1, TypeCore
    <3>2. i[1] \in 1..MaxBatches
      BY DEF Job
    <3>3. failed[i[1]] => failed'[i[1]]
      BY <1>1, <1>7, <3>2 DEF Inv1, TypeCore
    <3> QED BY <3>1, <3>3 DEF Inv3, Outcomes
  <2> QED BY <2>1, <2>2
<1> QED BY <1>8, <1>9 DEF Inv3

----------------------------------------------------------------------------
(***************************************************************************)
(* One lemma per group of actions.                                         *)
(***************************************************************************)

LEMMA Inv3Init == Init => Inv3
<1> SUFFICES ASSUME Init PROVE Inv3
  OBVIOUS
<1>1. RemainingExact
  BY DEF Init, RemainingExact
<1>2. Outcomes
  BY DEF Init, Outcomes, Uncompleted, Job
<1> QED BY <1>1, <1>2 DEF Inv3

\* Nothing that Inv3 speaks of changes.
LEMMA Inv3Same ==
    ASSUME Inv1, Inv3, UNCHANGED <<nextBatchID, nextCommitID, remaining, phase, result>>,
           \A b \in 1..(nextBatchID - 1) : sent'[b] = sent[b],
           \A b \in 1..MaxBatches : failed[b] => failed'[b]
    PROVE  Inv3'
<1>1. \A i \in Job : phase[i] = "finished" => result[i] \in Consumed \cup {"err"}
  BY DEF Inv3, Outcomes
<1>2. RemainingExact'
  BY RemainingKept DEF Inv3
<1>3. Outcomes'
  BY <1>1, OutcomesKept DEF Inv3
<1> QED BY <1>2, <1>3 DEF Inv3

\* What was sent stays as it was sent.
LEMMA SentKept ==
    ASSUME Inv1, Surroundings PROVE \A b \in 1..Len(sent) : sent'[b] = sent[b]
<1>1. ASSUME NEW batch \in Batches, Enqueue(batch)
      PROVE  \A b \in 1..Len(sent) : sent'[b] = sent[b]
  BY <1>1 DEF Enqueue, Inv1, TypeCore
<1>2. ASSUME ~\E batch \in Batches : Enqueue(batch) PROVE sent' = sent
  BY <1>2 DEF Surroundings, CloseBatches, CancelPoll, InvalidateSession, Reply, ReplyEarlier, StoresAgain, outerVars
<1> QED BY <1>1, <1>2

LEMMA Inv3Surroundings ==
    ASSUME Inv1, Inv3, Surroundings PROVE Inv3'
<1>1. UNCHANGED <<nextBatchID, nextCommitID, remaining, phase, result, failed>>
  BY Surroundings DEF Surroundings, Enqueue, CloseBatches, CancelPoll, InvalidateSession, Reply, ReplyEarlier, StoresAgain,
     Goto, batchVars, commitVars, feedVars, deliverVars
<1>2. \A b \in 1..Len(sent) : sent'[b] = sent[b]
  BY SentKept
<1>3. \A b \in 1..(nextBatchID - 1) : b \in 1..Len(sent)
  BY BoundsAssumption DEF Inv1, TypeCore, Control
<1> QED BY <1>1, <1>2, <1>3, Inv3Same

\* A complete frontier has no open message left, and none that failed.
LEMMA Inv3Advance ==
    ASSUME Inv1, Inv3, AdvanceCursor PROVE Inv3'
<1>1. /\ UNCHANGED <<sent, nextBatchID, remaining, failed, phase, result>>
      /\ nextCommitID' = nextCommitID + 1
      /\ nextCommitID < nextBatchID /\ remaining[nextCommitID] = 0 /\ ~failed[nextCommitID]
  BY DEF AdvanceCursor, FrontierComplete, outerVars, batchVars, feedVars, deliverVars
<1>2. nextCommitID \in 1..Len(sent) /\ nextCommitID \in 1..(nextBatchID - 1)
  BY <1>1, BoundsAssumption DEF Inv1, TypeCore, Control
<1>3. Open(nextCommitID) = {}
  <2>1. Cardinality(Open(nextCommitID)) = 0
    BY <1>1, <1>2, RemainingIsOpen DEF Inv3
  <2>2. IsFiniteSet(Open(nextCommitID))
    BY <1>2, OpenFacts
  <2> QED BY <2>1, <2>2, FS_EmptySet
<1>4. RemainingExact'
  BY <1>1, RemainingKept DEF Inv3
<1>5. Outcomes'
  <2> SUFFICES ASSUME NEW i \in Job, i[1] < nextCommitID + 1, i[2] <= Len(Messages(i[1]))
               PROVE  phase[i] \notin Uncompleted /\ result[i] \in Consumed
    BY <1>1 DEF Inv3, Outcomes, Uncompleted, Executing, Consumed, Messages
  <2>1. CASE i[1] < nextCommitID
    BY <2>1 DEF Inv3, Outcomes
  <2>2. CASE i[1] = nextCommitID
    <3>1. i \in JobsOf(nextCommitID)
      BY <1>2, <2>2, JobsOfFacts
    <3>2. phase[i] \notin Uncompleted
      BY <1>3, <3>1 DEF Open, Held
    <3> QED BY <1>1, <2>2, <3>2 DEF Inv3, Outcomes
  <2> QED BY <1>2, <2>1, <2>2 DEF Job
<1> QED BY <1>4, <1>5 DEF Inv3

LEMMA Inv3Commit ==
    ASSUME Inv1, Inv3, Commit PROVE Inv3'
<1>1. CASE AdvanceCursor
  BY <1>1, Inv3Advance
<1>2. CASE AdvanceCursorFails \/ AdvanceStops
  <2>1. UNCHANGED <<sent, nextBatchID, nextCommitID, remaining, result>>
    BY <1>2 DEF AdvanceCursorFails, AdvanceStops, LeaveCommit, outerVars, batchVars,
       commitVars, feedVars, deliverVars
  <2>2. \A i \in Job : \/ phase'[i] = phase[i]
                       \/ phase[i] = "committing" /\ phase'[i] = "exiting"
    BY <1>2 DEF AdvanceCursorFails, AdvanceStops, LeaveCommit
  <2>3. \A b \in 1..MaxBatches : failed[b] => failed'[b]
    BY <1>2 DEF AdvanceCursorFails, AdvanceStops, batchVars, Inv1, TypeCore
  <2>4. \A i \in Job : phase'[i] \in Uncompleted <=> phase[i] \in Uncompleted
    BY <2>2 DEF Uncompleted, Executing
  <2>5. RemainingExact'
    BY <2>1, <2>4, RemainingKept DEF Inv3
  <2>6. \A i \in Job : phase'[i] = "finished" => result'[i] \in Consumed \cup {"err"}
    BY <2>1, <2>2 DEF Inv3, Outcomes
  <2>7. Outcomes'
    BY <2>1, <2>3, <2>4, <2>6, OutcomesKept DEF Inv3
  <2> QED BY <2>5, <2>7 DEF Inv3
<1> QED BY <1>1, <1>2, Commit DEF Commit

\* A goroutine that stays on one side of complete.
LEMMA Inv3Moves ==
    ASSUME Inv1, Inv3, NEW j \in Job, NEW p \in Phases,
           phase' = [phase EXCEPT ![j] = p],
           p \in Uncompleted <=> phase[j] \in Uncompleted,
           UNCHANGED <<sent, nextBatchID, nextCommitID, remaining, failed>>,
           \A i \in Job : i # j => result'[i] = result[i],
           phase[j] \notin Uncompleted => result'[j] = result[j],
           p = "finished" => result'[j] \in Consumed \cup {"err"}
    PROVE  Inv3'
<1>1. phase'[j] = p /\ \A i \in Job : i # j => phase'[i] = phase[i]
  BY DEF Inv1, TypeCore
<1>2. \A i \in Job : phase'[i] \in Uncompleted <=> phase[i] \in Uncompleted
  BY <1>1
<1>3. \A i \in Job : phase[i] \notin Uncompleted => result'[i] = result[i]
  OBVIOUS
<1>4. \A i \in Job : phase'[i] = "finished" => result'[i] \in Consumed \cup {"err"}
  BY <1>1 DEF Inv3, Outcomes
<1>5. RemainingExact'
  BY <1>2, RemainingKept DEF Inv3
<1>6. Outcomes'
  BY <1>2, <1>3, <1>4, OutcomesKept DEF Inv3
<1> QED BY <1>5, <1>6 DEF Inv3

LEMMA Inv3Message ==
    ASSUME Inv1, Inv3, NEW j \in Job, Message(j) PROVE Inv3'
<1>1. CASE Start(j) \/ CloseDone(j) \/ Exit(j)
  <2>1. PICK p \in {"started", "closed", "exited"} :
            /\ phase' = [phase EXCEPT ![j] = p]
            /\ p = "started" <=> phase[j] = "queued"
            /\ phase[j] \in {"queued", "exiting", "closed"}
    BY <1>1 DEF Start, CloseDone, Exit, JobGoto
  <2>2. UNCHANGED <<sent, nextBatchID, nextCommitID, remaining, failed, result>>
    BY <1>1 DEF Start, CloseDone, Exit, JobGoto, outerVars, batchVars, commitVars, feedVars,
       deliverVars
  <2>3. p \in Phases /\ p # "finished" /\ (p \in Uncompleted <=> phase[j] \in Uncompleted)
    BY <2>1 DEF Phases, Uncompleted, Executing
  <2> QED BY <2>1, <2>2, <2>3, Inv3Moves
<1>2. ASSUME CheckDelivery(j) \/ HookFails(j)
             \/ (\E w \in BOOLEAN : RememberContext(j, w) \/ RecordReplay(j, w))
             \/ (\E a \in MessageActions, e \in BOOLEAN : HandlerReturns(j, a, e))
      PROVE Inv3'
  <2>1. /\ phase[j] \in Executing
        /\ \/ \E where \in Executing : JobGoto(j, where) /\ result' = result
           \/ \E res \in Consumed \cup {"err"} :
                 JobGoto(j, "finished") /\ result' = [result EXCEPT ![j] = res]
    BY <1>2 DEF CheckDelivery, HookFails, RememberContext, RecordReplay, HandlerReturns,
                Return, Continue, AfterRemember, Executing, Consumed
  <2>2. PICK p \in Executing \cup {"finished"} : JobGoto(j, p)
    BY <2>1
  <2>3. /\ phase' = [phase EXCEPT ![j] = p]
        /\ UNCHANGED <<sent, nextBatchID, nextCommitID, remaining, failed>>
    BY <2>2 DEF JobGoto, outerVars, batchVars, commitVars, feedVars
  <2>4. p \in Phases /\ p \in Uncompleted /\ phase[j] \in Uncompleted
    BY <2>1 DEF Phases, Uncompleted, Executing
  <2>5. \A i \in Job : i # j => result'[i] = result[i]
    BY <2>1 DEF Inv1, TypeCore
  <2>6. p = "finished" => result'[j] \in Consumed \cup {"err"}
    <3>1. phase'[j] = p
      BY <2>3 DEF Inv1, TypeCore
    <3>2. \A where \in Executing : JobGoto(j, where) => phase'[j] # "finished"
      BY DEF JobGoto, Executing, Inv1, TypeCore
    <3> QED BY <2>1, <3>1, <3>2 DEF Inv1, TypeCore
  <2> QED BY <2>3, <2>4, <2>5, <2>6, Inv3Moves
<1>3. CASE CancelQueued(j) \/ CompleteJob(j)
  <2>1. /\ phase[j] \in {"queued", "finished"} /\ phase[j] \in Uncompleted
        /\ UNCHANGED <<sent, nextBatchID, nextCommitID>>
    BY <1>3 DEF CancelQueued, CompleteJob, outerVars, commitVars, feedVars, Uncompleted
  <2>2. j[1] < nextBatchID /\ j[2] <= Len(Messages(j[1]))
    BY <2>1 DEF Inv1, JobsKnown
  <2>3. \A i \in Job : i # j => result'[i] = result[i]
    BY <1>3 DEF CancelQueued, CompleteJob, deliverVars, Inv1, TypeCore
  <2>4. PICK p \in {"committing", "exiting"} : phase' = [phase EXCEPT ![j] = p]
    BY <1>3 DEF CancelQueued, CompleteJob
  <2>5. p \in Phases \ Uncompleted
    BY DEF Phases, Uncompleted, Executing
  <2>6. CASE CancelQueued(j)
    <3>1. Complete(j[1], TRUE, FALSE)
      BY <2>6 DEF CancelQueued
    <3> QED BY <2>1, <2>2, <2>3, <2>4, <2>5, <3>1, CompleteOpen
  <2>7. CASE CompleteJob(j)
    <3>1. PICK err \in BOOLEAN : err = (result[j] = "err")
      OBVIOUS
    <3>2. Complete(j[1], err, TRUE) /\ result' = result /\ phase[j] = "finished"
      BY <2>7, <3>1 DEF CompleteJob, deliverVars
    <3>3. result'[j] \in Consumed \/ err
      BY <3>1, <3>2 DEF Inv3, Outcomes
    <3> QED BY <2>1, <2>2, <2>3, <2>4, <2>5, <3>2, <3>3, CompleteOpen
  <2> QED BY <1>3, <2>6, <2>7
<1> QED BY <1>1, <1>2, <1>3, Message(j) DEF Message

\* A batch is registered with as many remaining messages as it has.
LEMMA Inv3Register ==
    ASSUME Inv1, Inv3, RegisterBatch PROVE Inv3'
<1>1. /\ nextBatchID' = nextBatchID + 1
      /\ remaining' = [remaining EXCEPT ![nextBatchID] = Len(Messages(nextBatchID))]
      /\ UNCHANGED <<sent, nextCommitID, failed, phase, result>>
  BY DEF RegisterBatch, outerVars, commitVars, deliverVars
<1>2. nextBatchID \in 1..Len(sent)
  BY DEF RegisterBatch, Inv1, Control, TypeCore
<1>3. nextBatchID \in 1..MaxBatches /\ Len(Messages(nextBatchID)) \in 0..MaxLen
  BY <1>2, BatchFacts
<1>4. Open(nextBatchID) = JobsOf(nextBatchID)
  <2>1. \A i \in JobsOf(nextBatchID) : i \in Job /\ i[1] = nextBatchID
    BY <1>2, JobsOfFacts
  <2>2. \A i \in Job : i[1] = nextBatchID => phase[i] = "new"
    BY BoundsAssumption DEF Inv1, TypeCore, JobsKnown
  <2> QED BY <2>1, <2>2 DEF Open, Held, Uncompleted
<1>5. Cardinality(JobsOf(nextBatchID)) = Len(Messages(nextBatchID))
  <2>1. PICK n \in Nat : n = Len(Messages(nextBatchID))
    BY <1>3, BoundsAssumption
  <2>2. JobsOf(nextBatchID) = {<<nextBatchID, i>> : i \in 1..n}
    BY <2>1 DEF JobsOf
  <2>3. Cardinality({<<nextBatchID, i>> : i \in 1..n}) = IF 1 > n THEN 0 ELSE n - 1 + 1
    BY IntervalJobs
  <2> QED BY <2>1, <2>2, <2>3
<1>6. RemainingExact'
  <2>1. ASSUME NEW b \in 1..(nextBatchID' - 1) PROVE remaining'[b] = Cardinality(Open(b)')
    <3>1. b \in 1..nextBatchID /\ b \in 1..Len(sent) /\ b \in 1..MaxBatches
      BY <1>1, <1>2, <1>3, BoundsAssumption DEF Inv1, TypeCore
    <3>2. Open(b)' = Open(b)
      BY <1>1, <3>1, OpenSame
    <3>3. CASE b = nextBatchID
      BY <1>1, <1>3, <1>4, <1>5, <3>2, <3>3 DEF Inv1, TypeCore
    <3>4. CASE b # nextBatchID
      <4>1. b \in 1..(nextBatchID - 1) /\ remaining'[b] = remaining[b]
        BY <1>1, <1>2, <3>1, <3>4 DEF Inv1, TypeCore
      <4> QED BY <3>2, <4>1, RemainingIsOpen DEF Inv3
    <3> QED BY <3>3, <3>4
  <2> QED BY <2>1, RemainingIsOpen
<1>7. Outcomes'
  <2>1. \A i \in Job : phase[i] = "finished" => result[i] \in Consumed \cup {"err"}
    BY DEF Inv3, Outcomes
  <2> QED BY <1>1, <2>1, OutcomesKept DEF Inv3
<1> QED BY <1>6, <1>7 DEF Inv3

\* cancelUnscheduled takes exactly the messages without a goroutine off.
LEMMA Inv3CancelRest ==
    ASSUME Inv1, Inv3, CancelRest PROVE Inv3'
<1> DEFINE count == Len(Messages(Current)) - next + 1
<1>1. /\ Feeding /\ CancelUnscheduled(Current, count)
      /\ phase' = [i \in Job |-> IF i \in Unscheduled THEN "dropped" ELSE phase[i]]
      /\ result' = [i \in Job |-> IF i \in Unscheduled THEN "cancelled" ELSE result[i]]
      /\ UNCHANGED <<sent, nextBatchID, nextCommitID>>
  BY DEF CancelRest, Feeding, outerVars, commitVars, feedVars
<1>2. /\ Current \in 1..Len(sent) /\ Current \in 1..MaxBatches
      /\ Len(Messages(Current)) \in 0..MaxLen
      /\ next \in 1..(MaxLen + 1)
      /\ Current = nextBatchID - 1 /\ nextBatchID \in Nat /\ nextCommitID \in Nat
  BY <1>1, CurrentFacts, BoundsAssumption, SMTT(30) DEF Inv1, TypeCore, Current
<1>3. count \in Int /\ Current \in 1..(nextBatchID - 1)
  BY <1>2, BoundsAssumption
<1>4. /\ \A i \in Unscheduled : /\ i \in JobsOf(Current) /\ i \in Job /\ i[1] = Current
                                /\ phase[i] = "new"
      /\ Unscheduled \subseteq Open(Current)
  <2>1. JobsOf(Current) \in SUBSET Job /\ \A i \in JobsOf(Current) : i[1] = Current
    BY <1>2, JobsOfFacts
  <2>2. \A i \in Unscheduled : i \in JobsOf(Current)
    BY DEF Unscheduled
  <2>3. \A i \in Job : i \in Unscheduled => phase[i] = "new"
    BY <1>1, UnscheduledNew
  <2> QED BY <2>1, <2>2, <2>3 DEF Open, Held, Uncompleted
<1>5. CASE count > 0
  <2>1. IsFiniteSet(Unscheduled) /\ Cardinality(Unscheduled) = count
    <3>0. next \in Nat /\ Len(Messages(Current)) \in Nat
      BY <1>2, BoundsAssumption
    <3>1. PICK lo \in Nat, hi \in Nat : lo = next /\ hi = Len(Messages(Current))
      BY <3>0
    <3>2. Unscheduled = {<<Current, i>> : i \in lo..hi}
      <4>1. \A t : t \in Unscheduled <=> \E i \in 1..hi : t = <<Current, i>> /\ i >= lo
        BY <3>1 DEF Unscheduled, JobsOf
      <4>2. \A i : i \in lo..hi <=> i \in 1..hi /\ i >= lo
        BY <1>2, <3>1, BoundsAssumption
      <4> QED BY <4>1, <4>2
    <3>3. /\ IsFiniteSet({<<Current, i>> : i \in lo..hi})
          /\ Cardinality({<<Current, i>> : i \in lo..hi}) = IF lo > hi THEN 0 ELSE hi - lo + 1
      BY IntervalJobs
    <3> QED BY <1>5, <3>1, <3>2, <3>3
  <2>2. Open(Current)' = Open(Current) \ Unscheduled
    <3>1. JobsOf(Current)' = JobsOf(Current)
      BY <1>1 DEF JobsOf, Messages, Current
    <3>2. JobsOf(Current) \in SUBSET Job
      BY <1>2, JobsOfFacts
    <3>3. \A i \in JobsOf(Current) :
             phase'[i] = IF i \in Unscheduled THEN "dropped" ELSE phase[i]
      BY <1>1, <3>2
    <3>4. Held(JobsOf(Current), phase', Uncompleted) = Open(Current) \ Unscheduled
      BY <3>3 DEF Open, Held, Uncompleted, Executing
    <3> QED BY <3>1, <3>4 DEF Open, Uncompleted, Executing
  <2>3. /\ IsFiniteSet(Open(Current)) /\ Cardinality(Open(Current)) \in Nat
        /\ remaining[Current] = Cardinality(Open(Current))
    BY <1>2, <1>3, OpenFacts, RemainingIsOpen DEF Inv3
  <2>4. /\ count <= Cardinality(Open(Current))
        /\ Cardinality(Open(Current) \ Unscheduled) = Cardinality(Open(Current)) - count
    <3>1. Open(Current) \cap Unscheduled = Unscheduled
      BY <1>4
    <3>2. Cardinality(Open(Current) \ Unscheduled)
          = Cardinality(Open(Current)) - Cardinality(Open(Current) \cap Unscheduled)
      BY <2>3, FS_Difference
    <3>3. Cardinality(Unscheduled) <= Cardinality(Open(Current))
      BY <1>4, <2>3, FS_Subset
    <3> QED BY <2>1, <3>1, <3>2, <3>3
  <2>5. BatchState(Current)
    <3>1. Unscheduled # {}
      BY <1>5, <2>1, FS_EmptySet
    <3>2. PICK i \in Unscheduled : TRUE
      BY <3>1
    <3>3. i \in Job /\ i[1] = Current /\ i[2] <= Len(Messages(Current))
          /\ phase[i] \in Uncompleted
      BY <1>2, <1>4, JobsOfFacts DEF Uncompleted
    <3>4. ~(Current < nextCommitID)
      BY <3>3 DEF Inv3, Outcomes
    <3> QED BY <1>2, <1>3, <3>4 DEF BatchState
  <2> HIDE DEF count
  <2>6. /\ failed' = [failed EXCEPT ![Current] = TRUE]
        /\ remaining' = [remaining EXCEPT ![Current] = @ - count]
    BY <1>1, <1>3, <1>5, <2>3, <2>4, <2>5 DEF CancelUnscheduled
  <2>7. RemainingExact'
    <3>1. ASSUME NEW b \in 1..(nextBatchID' - 1) PROVE remaining'[b] = Cardinality(Open(b)')
      <4>1. b \in 1..Len(sent) /\ b \in 1..(nextBatchID - 1) /\ b \in 1..MaxBatches
        BY <1>1, BoundsAssumption DEF Inv1, TypeCore, Control
      <4>2. CASE b = Current
        <5>1. Open(b)' = Open(Current) \ Unscheduled
          BY <1>1, <2>2, <4>2 DEF Current, Open, JobsOf, Messages, Uncompleted, Executing
        <5> QED BY <1>2, <2>3, <2>4, <2>6, <4>2, <5>1 DEF Inv1, TypeCore
      <4>3. CASE b # Current
        <5>1. \A i \in Job : i[1] = b => phase'[i] = phase[i]
          BY <1>1, <1>4, <4>3
        <5>2. Open(b)' = Open(b)
          BY <1>1, <4>1, <5>1, OpenSame
        <5>3. remaining'[b] = remaining[b]
          BY <2>6, <4>1, <4>3 DEF Inv1, TypeCore
        <5> QED BY <4>1, <5>2, <5>3, RemainingIsOpen DEF Inv3
      <4> QED BY <4>2, <4>3
    <3> QED BY <3>1, RemainingIsOpen
  <2>8. Outcomes'
    <3> SUFFICES ASSUME NEW i \in Job
                 PROVE  /\ phase'[i] = "finished" => result'[i] \in Consumed \cup {"err"}
                        /\ phase'[i] \notin Uncompleted /\ ~failed'[i[1]]
                           => result'[i] \in Consumed
                        /\ i[1] < nextCommitID /\ i[2] <= Len(Messages(i[1]))
                           => phase'[i] \notin Uncompleted /\ result'[i] \in Consumed
      BY <1>1 DEF Outcomes, Uncompleted, Executing, Consumed, Messages
    <3>1. CASE i \in Unscheduled
      <4>1. phase'[i] = "dropped" /\ i[1] = Current
        BY <1>1, <1>4, <3>1
      <4>2. failed'[i[1]] /\ ~(i[1] < nextCommitID)
        BY <1>2, <2>5, <2>6, <4>1, BoundsAssumption DEF BatchState, Inv1, TypeCore
      <4> QED BY <4>1, <4>2
    <3>2. CASE i \notin Unscheduled
      <4>1. phase'[i] = phase[i] /\ result'[i] = result[i]
        BY <1>1, <3>2
      <4>2. failed[i[1]] => failed'[i[1]]
        BY <2>6 DEF Job, Inv1, TypeCore
      <4> QED BY <4>1, <4>2 DEF Inv3, Outcomes
    <3> QED BY <3>1, <3>2
  <2> QED BY <2>7, <2>8 DEF Inv3
<1>6. CASE ~(count > 0)
  <2>1. Unscheduled = {}
    BY <1>2, <1>6, BoundsAssumption DEF Unscheduled, JobsOf
  <2>2. phase' = phase /\ result' = result
    BY <1>1, <2>1 DEF Inv1, TypeCore
  <2>3. UNCHANGED <<failed, remaining>>
    BY <1>1, <1>6 DEF CancelUnscheduled
  <2> QED BY <1>1, <2>2, <2>3, Inv3Same
<1> QED BY <1>5, <1>6

LEMMA Inv3Processor ==
    ASSUME Inv1, Inv3, Processor PROVE Inv3'
<1>1. CASE SelectBatch \/ SelectClosed \/ FeedDone \/ FeedDecodes \/ StopFeeding
           \/ ProcessorReturns \/ AcquireSlot
  <2>1. UNCHANGED <<sent, nextBatchID, nextCommitID, remaining, phase, result, failed>>
    BY <1>1 DEF SelectBatch, SelectClosed, FeedDone, FeedDecodes, StopFeeding,
       ProcessorReturns, AcquireSlot, Goto, outerVars, batchVars, commitVars, feedVars,
       deliverVars
  <2> QED BY <2>1, Inv3Same
<1>2. CASE RegisterBatch
  BY <1>2, Inv3Register
<1>3. CASE FeedDecodeFails
  <2> DEFINE j == <<Current, next>>
  <2>1. /\ Feeding /\ next <= Len(Messages(Current))
        /\ Complete(Current, TRUE, TRUE)
        /\ phase' = [phase EXCEPT ![j] = "dropped"]
        /\ result' = [result EXCEPT ![j] = "err"]
        /\ UNCHANGED <<sent, nextBatchID, nextCommitID>>
    BY <1>3 DEF FeedDecodeFails, Feeding, outerVars, commitVars
  <2>2. j \in Job /\ phase[j] = "new" /\ j[1] = Current /\ j[2] = next
    BY <2>1, CurrentFacts, UnscheduledNew
  <2>3. Current < nextBatchID
    BY BoundsAssumption DEF Current, Inv1, TypeCore
  <2> HIDE DEF j
  <2>4. "dropped" \in Phases \ Uncompleted /\ phase[j] \in Uncompleted
    BY <2>2 DEF Phases, Uncompleted, Executing
  <2>5. \A i \in Job : i # j => result'[i] = result[i]
    BY <2>1 DEF Inv1, TypeCore
  <2>6. Complete(j[1], TRUE, TRUE)
    BY <2>1, <2>2
  <2>7. j[1] < nextBatchID /\ j[2] <= Len(Messages(j[1]))
    BY <2>1, <2>2, <2>3
  <2> QED BY <2>1, <2>2, <2>4, <2>5, <2>6, <2>7, CompleteOpen
<1>4. CASE SubmitMessage
  <2> DEFINE j == <<Current, next>>
  <2>1. /\ Feeding /\ next <= Len(Messages(Current))
        /\ phase' = [phase EXCEPT ![j] = "queued"]
        /\ UNCHANGED <<sent, nextBatchID, nextCommitID, remaining, failed, result>>
    BY <1>4 DEF SubmitMessage, Feeding, Inv1, Control, outerVars, batchVars, commitVars,
       deliverVars
  <2>2. j \in Job /\ phase[j] = "new"
    BY <2>1, CurrentFacts, UnscheduledNew
  <2> HIDE DEF j
  <2>3. "queued" \in Phases /\ "queued" \in Uncompleted /\ phase[j] \in Uncompleted
    BY <2>2 DEF Phases, Uncompleted
  <2> QED BY <2>1, <2>2, <2>3, Inv3Moves
<1>5. CASE CancelRest
  BY <1>5, Inv3CancelRest
<1> QED BY <1>1, <1>2, <1>3, <1>4, <1>5, Processor DEF Processor

LEMMA Inv3Next ==
    ASSUME Inv1, Inv3, [Next]_vars PROVE Inv3'
<1>1. CASE UNCHANGED vars
  <2>1. UNCHANGED <<sent, nextBatchID, nextCommitID, remaining, phase, result, failed>>
    BY <1>1 DEF vars, outerVars, batchVars, commitVars, feedVars, deliverVars
  <2> QED BY <2>1, Inv3Same
<1> QED BY <1>1, Inv3Surroundings, Inv3Commit, Inv3Processor, Inv3Message
        DEF Next, Terminated

LEMMA Inv3Invariant == Spec => [](Inv1 /\ Inv3)
<1>1. Init => Inv1 /\ Inv3
  BY Inv1Init, Inv3Init
<1>2. Inv1 /\ Inv3 /\ [Next]_vars => (Inv1 /\ Inv3)'
  BY Inv1Next, Inv3Next
<1> QED BY <1>1, <1>2, PTL DEF Spec

\* remaining of every registered batch is the number of its messages that no
\* goroutine has completed and the processor has not cancelled; complete and
\* cancelUnscheduled never miss a message and never count one twice.
THEOREM RemainingInvariant == Spec => []RemainingExact
<1>1. Inv3 => RemainingExact
  BY DEF Inv3
<1> QED BY <1>1, Inv3Invariant, PTL

----------------------------------------------------------------------------
(***************************************************************************)
(* The stored cursor.                                                      *)
(***************************************************************************)

\* After the first batch with a cursor every batch has one.
CursorChain ==
    \A b, c \in 1..Len(sent) :
       b <= c /\ sent[c].cursor = NoCursor => sent[b].cursor = NoCursor

CursorTracks ==
    \/ cursor = NoCursor /\ \A b \in 1..(nextCommitID - 1) : sent[b].cursor = NoCursor
    \/ /\ cursor # NoCursor /\ nextCommitID > 1
       /\ cursor = sent[nextCommitID - 1].cursor

Inv4 == CursorChain /\ CursorTracks

LEMMA Inv4Enqueue ==
    ASSUME Inv1, Inv4, NEW batch \in Batches, Enqueue(batch) PROVE Inv4'
<1>1. /\ sent' = Append(sent, batch) /\ UNCHANGED <<cursor, nextCommitID>>
      /\ batch.cursor = NoCursor => LastSentCursor = NoCursor
  BY DEF Enqueue, Goto, commitVars
<1>2. /\ Len(sent) \in Nat /\ Len(sent') = Len(sent) + 1
      /\ sent'[Len(sent) + 1] = batch
      /\ \A b \in 1..Len(sent) : sent'[b] = sent[b]
  BY <1>1 DEF Inv1, TypeCore
<1>3. nextCommitID \in Nat /\ nextCommitID - 1 <= Len(sent)
  BY BoundsAssumption DEF Inv1, TypeCore, Control
<1>4. batch.cursor = NoCursor => \A b \in 1..Len(sent) : sent[b].cursor = NoCursor
  <2> SUFFICES ASSUME batch.cursor = NoCursor, NEW b \in 1..Len(sent)
               PROVE  sent[b].cursor = NoCursor
    OBVIOUS
  <2>1. sent # <<>> /\ Len(sent) \in 1..Len(sent) /\ b <= Len(sent)
    BY <1>2 DEF Inv1, TypeCore
  <2>2. sent[Len(sent)].cursor = NoCursor
    BY <1>1, <2>1 DEF LastSentCursor
  <2> QED BY <2>1, <2>2 DEF Inv4, CursorChain
<1>5. CursorChain'
  <2> SUFFICES ASSUME NEW b \in 1..Len(sent'), NEW c \in 1..Len(sent'), b <= c,
                      sent'[c].cursor = NoCursor
               PROVE  sent'[b].cursor = NoCursor
    BY DEF CursorChain
  <2>1. CASE c = Len(sent) + 1
    BY <1>2, <1>4, <2>1
  <2>2. CASE c # Len(sent) + 1
    <3>1. b \in 1..Len(sent) /\ c \in 1..Len(sent)
      BY <1>2, <2>2
    <3> QED BY <1>2, <3>1 DEF Inv4, CursorChain
  <2> QED BY <2>1, <2>2
<1>6. CursorTracks'
  <2>1. \A b \in 1..(nextCommitID - 1) : sent'[b] = sent[b]
    BY <1>2, <1>3
  <2>2. nextCommitID > 1 => nextCommitID - 1 \in 1..(nextCommitID - 1)
    BY <1>3
  <2> QED BY <1>1, <2>1, <2>2 DEF Inv4, CursorTracks
<1> QED BY <1>5, <1>6 DEF Inv4

LEMMA Inv4Advance ==
    ASSUME Inv1, Inv4, AdvanceCursor PROVE Inv4'
<1> DEFINE n == nextCommitID
<1>1. /\ sent' = sent /\ nextCommitID' = n + 1 /\ n < nextBatchID
      /\ cursor' = IF sent[n].cursor # NoCursor THEN sent[n].cursor ELSE cursor
  BY DEF AdvanceCursor, FrontierComplete, outerVars
<1>2. n \in 1..Len(sent) /\ Len(sent) \in Nat
  BY <1>1, BoundsAssumption DEF Inv1, TypeCore, Control
<1>3. CursorChain'
  BY <1>1 DEF Inv4, CursorChain
<1>4. CursorTracks'
  <2>1. CASE sent[n].cursor # NoCursor
    BY <1>1, <1>2, <2>1 DEF CursorTracks
  <2>2. CASE sent[n].cursor = NoCursor
    <3>1. \A b \in 1..n : b \in 1..Len(sent) /\ b <= n
      BY <1>2
    <3>2. \A b \in 1..n : sent[b].cursor = NoCursor
      BY <1>2, <2>2, <3>1 DEF Inv4, CursorChain
    <3>3. n > 1 => n - 1 \in 1..n
      BY <1>2
    <3>4. cursor = NoCursor
      BY <3>2, <3>3 DEF Inv4, CursorTracks
    <3> QED BY <1>1, <1>2, <2>2, <3>2, <3>4 DEF CursorTracks
  <2> QED BY <2>1, <2>2
<1> QED BY <1>3, <1>4 DEF Inv4

LEMMA Inv4Next ==
    ASSUME Inv1, Inv4, [Next]_vars PROVE Inv4'
<1>1. ASSUME UNCHANGED <<sent, cursor, nextCommitID>> PROVE Inv4'
  BY <1>1 DEF Inv4, CursorChain, CursorTracks
<1>2. ASSUME NEW j \in Job, Message(j) PROVE UNCHANGED <<sent, cursor, nextCommitID>>
  BY <1>2 DEF Message, Start, CancelQueued, CheckDelivery, RememberContext, HookFails,
     HandlerReturns, RecordReplay, CompleteJob, CloseDone, Exit, JobGoto, Return, Continue,
     commitVars, outerVars
<1>3. ASSUME Processor PROVE UNCHANGED <<sent, cursor, nextCommitID>>
  BY <1>3 DEF Processor, SelectBatch, SelectClosed, AcquireSlot, RegisterBatch, FeedDone,
     FeedDecodes, FeedDecodeFails, SubmitMessage, StopFeeding, CancelRest, ProcessorReturns,
     Goto, commitVars, outerVars
<1>4. ASSUME AdvanceCursorFails \/ AdvanceStops \/ CloseBatches \/ CancelPoll
             \/ InvalidateSession \/ (\E j \in Job : Reply(j))
             \/ (\E u \in Users : ReplyEarlier(u)) \/ UNCHANGED vars
      PROVE  UNCHANGED <<sent, cursor, nextCommitID>>
  BY <1>4 DEF AdvanceCursorFails, AdvanceStops, LeaveCommit, CloseBatches, CancelPoll,
     InvalidateSession, Reply, ReplyEarlier, StoresAgain, Goto, commitVars, outerVars, vars
<1> QED BY <1>1, <1>2, <1>3, <1>4, Inv4Enqueue, Inv4Advance
        DEF Next, Terminated, Surroundings, Commit

\* Whatever order the handlers of all conversations finish in, and whichever of
\* them fail, the stored cursor never passes a message that was not consumed,
\* and it is the cursor of the last committed batch that has one.
THEOREM CursorInvariant == Spec => []CursorNeverSkips
<1>1. Init => Inv4
  BY DEF Init, Inv4, CursorChain, CursorTracks
<1>2. Inv1 /\ Inv4 /\ [Next]_vars => Inv4'
  BY Inv4Next
<1>3. Inv1 /\ Inv3 /\ Inv4 => CursorNeverSkips
  <2> SUFFICES ASSUME Inv1, Inv3, Inv4 PROVE CursorNeverSkips
    OBVIOUS
  <2>1. ASSUME NEW b \in 1..(nextCommitID - 1), NEW j \in JobsOf(b)
        PROVE  result[j] \in Consumed
    <3>1. b \in 1..Len(sent) /\ b < nextCommitID
      BY BoundsAssumption DEF Inv1, TypeCore, Control
    <3>2. j \in Job /\ j[1] = b /\ j[2] <= Len(Messages(b))
      BY <3>1, JobsOfFacts
    <3> QED BY <3>1, <3>2 DEF Inv3, Outcomes
  <2> QED BY <2>1 DEF CursorNeverSkips, Inv4, CursorTracks
<1> QED BY <1>1, <1>2, <1>3, Inv3Invariant, PTL DEF Spec


----------------------------------------------------------------------------
(***************************************************************************)
(* The commit loop stops only in front of an unfinished or failed batch.   *)
(***************************************************************************)

\* A step that leaves the frontier and the lock as they are.
LEMMA FrontierSame ==
    ASSUME FrontierMaximal, UNCHANGED <<nextCommitID, nextBatchID, remaining, failed>>,
           MuFree' => MuFree
    PROVE  FrontierMaximal'
BY DEF FrontierMaximal, FrontierComplete

\* complete either leaves the batch unfinished or failed, or goes on to commit.
LEMMA FrontierCompletes ==
    ASSUME Inv1, Inv3, FrontierMaximal, MuFree,
           NEW j \in Job, j[1] < nextBatchID, j[2] <= Len(Messages(j[1])),
           phase[j] \in Uncompleted,
           NEW err \in BOOLEAN, NEW executed \in BOOLEAN, Complete(j[1], err, executed),
           UNCHANGED <<nextCommitID, nextBatchID>>,
           CompletesBatch(j[1], err) => ~MuFree'
    PROVE  FrontierMaximal'
<1>1. BatchState(j[1]) /\ remaining[j[1]] > 0
  BY CompleteFinds
<1>2. j[1] \in 1..MaxBatches
  BY DEF Job
<1>3. /\ remaining' = [remaining EXCEPT ![j[1]] = @ - 1]
      /\ failed' = [failed EXCEPT ![j[1]] = @ \/ err]
  BY <1>1 DEF Complete
<1> SUFFICES ASSUME MuFree', FrontierComplete' PROVE FALSE
  BY DEF FrontierMaximal
<1>4. ~FrontierComplete
  BY DEF FrontierMaximal
<1>5. /\ nextCommitID < nextBatchID /\ nextCommitID \in 1..MaxBatches
      /\ remaining'[nextCommitID] = 0 /\ ~failed'[nextCommitID]
  BY BoundsAssumption DEF FrontierComplete, Inv1, TypeCore
<1>6. CASE nextCommitID = j[1]
  <2>1. remaining[j[1]] = 1
    BY <1>2, <1>3, <1>5, <1>6, BoundsAssumption DEF Inv1, TypeCore
  <2>2. ~failed[j[1]] /\ ~err
    BY <1>2, <1>3, <1>5, <1>6 DEF Inv1, TypeCore
  <2> QED BY <1>1, <2>1, <2>2 DEF CompletesBatch
<1>7. CASE nextCommitID # j[1]
  <2>1. remaining'[nextCommitID] = remaining[nextCommitID]
    BY <1>2, <1>3, <1>5, <1>7 DEF Inv1, TypeCore
  <2>2. failed'[nextCommitID] = failed[nextCommitID]
    BY <1>2, <1>3, <1>5, <1>7 DEF Inv1, TypeCore
  <2> QED BY <1>4, <1>5, <2>1, <2>2 DEF FrontierComplete
<1> QED BY <1>6, <1>7

LEMMA FrontierMessage ==
    ASSUME Inv1, Inv3, FrontierMaximal, NEW j \in Job, Message(j) PROVE FrontierMaximal'
<1>1. ASSUME Start(j) \/ CheckDelivery(j) \/ HookFails(j) \/ CloseDone(j) \/ Exit(j)
             \/ (\E w \in BOOLEAN : RememberContext(j, w) \/ RecordReplay(j, w))
             \/ (\E a \in MessageActions, e \in BOOLEAN : HandlerReturns(j, a, e))
      PROVE  FrontierMaximal'
  <2>1. PICK p \in Phases \ {"committing"} : phase' = [phase EXCEPT ![j] = p]
    BY <1>1 DEF Start, CheckDelivery, HookFails, RememberContext, RecordReplay,
       HandlerReturns, CloseDone, Exit, Return, Continue, AfterRemember, JobGoto, Phases
  <2>2. phase[j] # "committing"
    BY <1>1 DEF Start, CheckDelivery, HookFails, RememberContext, RecordReplay,
       HandlerReturns, CloseDone, Exit
  <2>3. UNCHANGED <<nextCommitID, nextBatchID, remaining, failed, pc>>
    BY <1>1 DEF Start, CheckDelivery, HookFails, RememberContext, RecordReplay,
       HandlerReturns, CloseDone, Exit, Return, Continue, JobGoto, batchVars, commitVars,
       feedVars
  <2>4. MuFree' => MuFree
    BY <2>1, <2>2, <2>3 DEF MuFree, Inv1, TypeCore
  <2> QED BY <2>3, <2>4, FrontierSame
<1>2. CASE CancelQueued(j)
  <2>1. /\ phase[j] = "queued" /\ MuFree /\ Complete(j[1], TRUE, FALSE)
        /\ UNCHANGED <<nextCommitID, nextBatchID>>
    BY <1>2 DEF CancelQueued, commitVars, feedVars
  <2>2. phase[j] \in Uncompleted /\ j[1] < nextBatchID /\ j[2] <= Len(Messages(j[1]))
    BY <2>1 DEF Uncompleted, Inv1, JobsKnown
  <2>3. ~CompletesBatch(j[1], TRUE)
    BY DEF CompletesBatch
  <2> QED BY <2>1, <2>2, <2>3, FrontierCompletes
<1>3. CASE CompleteJob(j)
  <2> DEFINE err == result[j] = "err"
  <2>1. /\ phase[j] = "finished" /\ MuFree /\ Complete(j[1], err, TRUE)
        /\ UNCHANGED <<nextCommitID, nextBatchID>>
        /\ phase' = [phase EXCEPT ![j] = IF CompletesBatch(j[1], err)
                                         THEN "committing" ELSE "exiting"]
    BY <1>3 DEF CompleteJob, commitVars, feedVars
  <2>2. phase[j] \in Uncompleted /\ j[1] < nextBatchID /\ j[2] <= Len(Messages(j[1]))
    BY <2>1 DEF Uncompleted, Inv1, JobsKnown
  <2>3. CompletesBatch(j[1], err) => ~MuFree'
    BY <2>1 DEF MuFree, Inv1, TypeCore
  <2>4. err \in BOOLEAN
    OBVIOUS
  <2> HIDE DEF err
  <2> QED BY <2>1, <2>2, <2>3, <2>4, FrontierCompletes
<1> QED BY <1>1, <1>2, <1>3, Message(j) DEF Message

LEMMA FrontierProcessor ==
    ASSUME Inv1, Inv3, FrontierMaximal, Processor PROVE FrontierMaximal'
<1>1. CASE SelectBatch \/ SelectClosed \/ FeedDone \/ FeedDecodes \/ StopFeeding
           \/ ProcessorReturns \/ AcquireSlot
  <2>1. UNCHANGED <<nextCommitID, nextBatchID, remaining, failed, phase>>
    BY <1>1 DEF SelectBatch, SelectClosed, FeedDone, FeedDecodes, StopFeeding,
       ProcessorReturns, AcquireSlot, Goto, batchVars, commitVars, feedVars
  <2>2. pc # "committing"
    BY <1>1 DEF SelectBatch, SelectClosed, FeedDone, FeedDecodes, StopFeeding,
       ProcessorReturns, AcquireSlot, SelectsOutsideFeed
  <2>3. MuFree' => MuFree
    BY <2>1, <2>2 DEF MuFree
  <2> QED BY <2>1, <2>3, FrontierSame
<1>2. CASE RegisterBatch
  <2>1. /\ pc = "register" /\ MuFree /\ nextBatchID' = nextBatchID + 1
        /\ remaining' = [remaining EXCEPT ![nextBatchID] = Len(Messages(nextBatchID))]
        /\ pc' = IF Messages(nextBatchID) = <<>> THEN "committing" ELSE "feed"
        /\ UNCHANGED <<nextCommitID, failed, phase>>
    BY <1>2 DEF RegisterBatch, AfterRegister, commitVars
  <2>2. nextBatchID \in 1..Len(sent) /\ nextCommitID \in 1..nextBatchID
    BY <2>1, BoundsAssumption DEF Inv1, TypeCore, Control
  <2>3. /\ nextBatchID \in 1..MaxBatches
        /\ Messages(nextBatchID) \in Seq(Wires \cup {Malformed})
    BY <2>2, BatchFacts
  <2> SUFFICES ASSUME MuFree', FrontierComplete' PROVE FALSE
    BY DEF FrontierMaximal
  <2>4. Len(Messages(nextBatchID)) # 0
    BY <2>1, <2>3 DEF MuFree
  <2>5. CASE nextCommitID = nextBatchID
    BY <2>1, <2>2, <2>3, <2>4, <2>5 DEF FrontierComplete, Inv1, TypeCore
  <2>6. CASE nextCommitID # nextBatchID
    <3>1. nextCommitID < nextBatchID
      BY <2>2, <2>6
    <3>2. remaining'[nextCommitID] = remaining[nextCommitID]
      BY <2>1, <2>2, <2>3, <2>6 DEF Inv1, TypeCore
    <3> QED BY <2>1, <3>1, <3>2 DEF FrontierMaximal, FrontierComplete
  <2> QED BY <2>5, <2>6
<1>3. CASE FeedDecodeFails
  <2>1. /\ Feeding /\ next <= Len(Messages(Current)) /\ MuFree
        /\ Complete(Current, TRUE, TRUE)
        /\ UNCHANGED <<nextCommitID, nextBatchID>>
    BY <1>3 DEF FeedDecodeFails, Feeding, commitVars
  <2>2. PICK j \in Job : /\ j = <<Current, next>> /\ j[1] = Current /\ j[2] = next
                         /\ phase[j] = "new"
    BY <2>1, CurrentFacts, UnscheduledNew
  <2>3. j[1] < nextBatchID /\ j[2] <= Len(Messages(j[1])) /\ phase[j] \in Uncompleted
    BY <2>1, <2>2, BoundsAssumption DEF Current, Uncompleted, Inv1, TypeCore
  <2>4. ~CompletesBatch(j[1], TRUE)
    BY DEF CompletesBatch
  <2>5. Complete(j[1], TRUE, TRUE)
    BY <2>1, <2>2
  <2> QED BY <2>1, <2>3, <2>4, <2>5, FrontierCompletes
<1>4. CASE SubmitMessage
  <2>1. /\ Feeding /\ MuFree /\ UNCHANGED <<nextCommitID, nextBatchID, remaining, failed>>
    BY <1>4 DEF SubmitMessage, Feeding, batchVars, commitVars
  <2> QED BY <2>1, FrontierSame
<1>5. CASE CancelRest
  <2>1. /\ MuFree /\ CancelUnscheduled(Current, Len(Messages(Current)) - next + 1)
        /\ UNCHANGED <<nextCommitID, nextBatchID>>
    BY <1>5 DEF CancelRest, commitVars, feedVars
  <2>2. \/ UNCHANGED <<failed, remaining>>
        \/ /\ failed' = [failed EXCEPT ![Current] = TRUE]
           /\ \E n : remaining' = [remaining EXCEPT ![Current] = n]
    BY <2>1 DEF CancelUnscheduled
  <2>3. CASE UNCHANGED <<failed, remaining>>
    BY <2>1, <2>3, FrontierSame
  <2>4. CASE /\ failed' = [failed EXCEPT ![Current] = TRUE]
             /\ \E n : remaining' = [remaining EXCEPT ![Current] = n]
    <3> SUFFICES ASSUME FrontierComplete' PROVE FALSE
      BY DEF FrontierMaximal
    <3>1. /\ nextCommitID < nextBatchID /\ nextCommitID \in 1..MaxBatches
          /\ remaining'[nextCommitID] = 0 /\ ~failed'[nextCommitID]
      BY <2>1, BoundsAssumption DEF FrontierComplete, Inv1, TypeCore
    <3>2. nextCommitID # Current
      BY <2>4, <3>1 DEF Inv1, TypeCore
    <3>3. remaining[nextCommitID] = 0
      BY <2>4, <3>1, <3>2 DEF Inv1, TypeCore
    <3>4. ~failed[nextCommitID]
      BY <2>4, <3>1, <3>2 DEF Inv1, TypeCore
    <3> QED BY <2>1, <3>1, <3>3, <3>4 DEF FrontierMaximal, FrontierComplete
  <2> QED BY <2>2, <2>3, <2>4
<1> QED BY <1>1, <1>2, <1>3, <1>4, <1>5, Processor DEF Processor

LEMMA FrontierCommit ==
    ASSUME Inv1, FrontierMaximal, Commit PROVE FrontierMaximal'
<1>1. CASE AdvanceCursor
  <2>1. ~MuFree /\ UNCHANGED <<pc, phase>>
    BY <1>1 DEF AdvanceCursor
  <2> QED BY <2>1 DEF FrontierMaximal, MuFree
<1>2. CASE AdvanceCursorFails
  <2>1. /\ nextCommitID < nextBatchID /\ failed' = [failed EXCEPT ![nextCommitID] = TRUE]
        /\ UNCHANGED <<nextCommitID, nextBatchID>>
    BY <1>2 DEF AdvanceCursorFails, FrontierComplete, LeaveCommit, commitVars, feedVars
  <2>2. nextCommitID \in 1..MaxBatches
    BY <2>1, BoundsAssumption DEF Inv1, TypeCore
  <2>3. failed'[nextCommitID]
    BY <2>1, <2>2 DEF Inv1, TypeCore
  <2> QED BY <2>1, <2>3 DEF FrontierMaximal, FrontierComplete
<1>3. CASE AdvanceStops
  <2>1. ~FrontierComplete /\ UNCHANGED <<nextCommitID, nextBatchID, remaining, failed>>
    BY <1>3 DEF AdvanceStops, LeaveCommit, batchVars, commitVars, feedVars
  <2> QED BY <2>1 DEF FrontierMaximal, FrontierComplete
<1> QED BY <1>1, <1>2, <1>3, Commit DEF Commit

LEMMA FrontierSurroundings ==
    ASSUME FrontierMaximal, Surroundings \/ UNCHANGED vars PROVE FrontierMaximal'
<1>1. UNCHANGED <<nextCommitID, nextBatchID, remaining, failed, pc, phase>>
  BY DEF Surroundings, Enqueue, CloseBatches, CancelPoll, InvalidateSession, Reply, ReplyEarlier, StoresAgain, Goto, vars,
     batchVars, commitVars, feedVars
<1> QED BY <1>1, FrontierSame DEF MuFree

\* Whenever d.mu is free, the oldest batch that is not committed is unfinished or
\* failed: whichever goroutine completed the last message of a batch, in
\* whatever order, the commit loop has been run since.
THEOREM FrontierInvariant == Spec => []FrontierMaximal
<1>1. Init => FrontierMaximal
  BY DEF Init, FrontierMaximal, FrontierComplete
<1>2. Inv1 /\ Inv3 /\ FrontierMaximal /\ [Next]_vars => FrontierMaximal'
  BY FrontierSurroundings, FrontierCommit, FrontierProcessor, FrontierMessage
     DEF Next, Terminated
<1> QED BY <1>1, <1>2, Inv3Invariant, PTL DEF Spec

----------------------------------------------------------------------------
(***************************************************************************)
(* Order inside a conversation.                                            *)
(***************************************************************************)

Key(j) == ConversationKey(Wire(j))
Scheduled(j) == phase[j] \notin {"new", "dropped"}
Passed(i) == phase[i] \in DoneClosed /\ result[i] \in Consumed
UpTo(i, t) == t # NoJob /\ (i = t \/ Before(i, t))
Earlier(i, j) == Known(i) /\ Known(j) /\ Before(i, j) /\ Key(i) = Key(j)
Begun(j) == phase[j] \in Executing \/ result[j] \in Consumed \cup {"err"}

\* While the processor still feeds, it has left out no decodable message.
Fed ==
    pc \notin {"cancel", "waiting", "draining", "done"} =>
       \A i \in Job : Known(i) /\ (Feeding /\ i[1] = Current => i[2] < next)
                      => Scheduled(i)

\* A goroutine waits for one of its own conversation, and everything before
\* that conversation's tail was settled when it was scheduled, unless the
\* dispatcher is being cancelled.
Links ==
    \A j \in Job : Scheduled(j) =>
       /\ prev[j] # NoJob => /\ prev[j] \in Job /\ Scheduled(prev[j])
                             /\ Before(prev[j], j) /\ Key(prev[j]) = Key(j)
       /\ \A i \in Job : Earlier(i, j) => UpTo(i, prev[j]) \/ Passed(i) \/ ctxDone

\* d.tails has the last scheduled job of a conversation, or that one and all
\* before it are settled.
Tails ==
    \A k \in ConversationKeys :
       /\ tails[k] # NoJob => /\ tails[k] \in Job /\ Scheduled(tails[k])
                              /\ Key(tails[k]) = k
       /\ \A i \in Job : Scheduled(i) /\ Key(i) = k
                         => UpTo(i, tails[k]) \/ Passed(i) \/ ctxDone

\* Nothing has come of a message without goroutine, and whoever is through with
\* complete has consumed its message or has cancelled the others.
Ends ==
    \A j \in Job :
       /\ phase[j] \in {"new", "queued"} \cup Executing => result[j] = "none"
       /\ phase[j] \in {"committing", "exiting"} \cup DoneClosed
          => result[j] \in Consumed \/ ctxDone

Ordered == \A i, j \in Job : Earlier(i, j) /\ Begun(j) => Passed(i)

Inv5 == Fed /\ Links /\ Tails /\ Ends /\ Ordered

\* Facts about jobs that are known do not change while a batch is being fed.
LEMMA KnownSame ==
    ASSUME Inv1, nextBatchID' = nextBatchID,
           \A b \in 1..(nextBatchID - 1) : sent'[b] = sent[b]
    PROVE  /\ \A i \in Job : Known(i)' <=> Known(i)
           /\ \A i \in Job : i[1] < nextBatchID => Wire(i)' = Wire(i) /\ Key(i)' = Key(i)
           /\ \A i, j \in Job : Earlier(i, j)' <=> Earlier(i, j)
<1>1. ASSUME NEW i \in Job, i[1] < nextBatchID
      PROVE  /\ Messages(i[1])' = Messages(i[1]) /\ Wire(i)' = Wire(i)
             /\ Key(i)' = Key(i)
  <2>1. i[1] \in 1..(nextBatchID - 1)
    BY <1>1, BoundsAssumption DEF Job, Inv1, TypeCore
  <2>2. sent'[i[1]] = sent[i[1]]
    BY <2>1
  <2> QED BY <2>2 DEF Messages, Wire, Key
<1>2. \A i \in Job : Known(i)' <=> Known(i)
  BY <1>1 DEF Known
<1>3. \A i \in Job : Known(i) => i[1] < nextBatchID
  BY DEF Known
<1>4. \A i, j \in Job : Earlier(i, j)' <=> Earlier(i, j)
  BY <1>1, <1>2, <1>3 DEF Earlier, Before
<1> QED BY <1>1, <1>2, <1>4

\* A scheduled job is known, and its conversation is one.
LEMMA ScheduledKnown ==
    ASSUME Inv1, NEW j \in Job, Scheduled(j)
    PROVE  Known(j) /\ j[1] < nextBatchID /\ Key(j) \in ConversationKeys
<1>1. Known(j)
  BY DEF Inv1, JobsKnown, Scheduled
<1>2. Wire(j) \in Wires
  BY <1>1, KnownWire
<1> QED BY <1>1, <1>2, WireFacts DEF Known, Key

\* Steps after which the same jobs are scheduled and the settled ones stay so.
LEMMA LinksKept ==
    ASSUME Inv1, Links, nextBatchID' = nextBatchID,
           \A b \in 1..(nextBatchID - 1) : sent'[b] = sent[b],
           prev' = prev, ctxDone => ctxDone',
           \A i \in Job : Scheduled(i)' <=> Scheduled(i),
           \A i \in Job : Passed(i) => Passed(i)'
    PROVE  Links'
<1> SUFFICES ASSUME NEW j \in Job, Scheduled(j)'
             PROVE  /\ prev[j] # NoJob => /\ prev[j] \in Job /\ Scheduled(prev[j])'
                                          /\ Before(prev[j], j) /\ Key(prev[j])' = Key(j)'
                    /\ \A i \in Job : Earlier(i, j)'
                                      => UpTo(i, prev[j]) \/ Passed(i)' \/ ctxDone'
  BY DEF Links, UpTo, Before
<1>1. Scheduled(j)
  OBVIOUS
<1>2. ASSUME prev[j] # NoJob
      PROVE  /\ prev[j] \in Job /\ Scheduled(prev[j])' /\ Before(prev[j], j)
             /\ Key(prev[j])' = Key(j)'
  <2>1. prev[j] \in Job /\ Scheduled(prev[j]) /\ Before(prev[j], j) /\ Key(prev[j]) = Key(j)
    BY <1>1, <1>2 DEF Links
  <2>2. prev[j][1] < nextBatchID /\ j[1] < nextBatchID
    BY <1>1, <2>1, ScheduledKnown
  <2>3. Key(prev[j])' = Key(prev[j]) /\ Key(j)' = Key(j)
    BY <2>1, <2>2, KnownSame
  <2> QED BY <2>1, <2>3
<1>3. ASSUME NEW i \in Job, Earlier(i, j)'
      PROVE  UpTo(i, prev[j]) \/ Passed(i)' \/ ctxDone'
  <2>1. Earlier(i, j)
    BY <1>3, KnownSame
  <2> QED BY <1>1, <2>1 DEF Links
<1> QED BY <1>2, <1>3

LEMMA TailsKept ==
    ASSUME Inv1, Tails, nextBatchID' = nextBatchID,
           \A b \in 1..(nextBatchID - 1) : sent'[b] = sent[b],
           tails' = tails, ctxDone => ctxDone',
           \A i \in Job : Scheduled(i)' <=> Scheduled(i),
           \A i \in Job : Passed(i) => Passed(i)'
    PROVE  Tails'
<1>1. \A i \in Job : Scheduled(i) => Key(i)' = Key(i)
  BY KnownSame, ScheduledKnown
<1> SUFFICES ASSUME NEW k \in ConversationKeys
             PROVE  /\ tails[k] # NoJob => /\ tails[k] \in Job /\ Scheduled(tails[k])'
                                           /\ Key(tails[k])' = k
                    /\ \A i \in Job : Scheduled(i)' /\ Key(i)' = k
                                      => UpTo(i, tails[k]) \/ Passed(i)' \/ ctxDone'
  BY DEF Tails, UpTo, Before
<1>2. tails[k] # NoJob => tails[k] \in Job /\ Scheduled(tails[k]) /\ Key(tails[k]) = k
  BY DEF Tails
<1>3. \A i \in Job : Scheduled(i) /\ Key(i) = k => UpTo(i, tails[k]) \/ Passed(i) \/ ctxDone
  BY DEF Tails
<1> QED BY <1>1, <1>2, <1>3

LEMMA OrderedKept ==
    ASSUME Inv1, Ordered, nextBatchID' = nextBatchID,
           \A b \in 1..(nextBatchID - 1) : sent'[b] = sent[b],
           \A i \in Job : Known(i) /\ Begun(i)' => Begun(i),
           \A i \in Job : Passed(i) => Passed(i)'
    PROVE  Ordered'
<1>1. \A i, j \in Job : Earlier(i, j)' <=> Earlier(i, j)
  BY KnownSame
<1>2. \A i, j \in Job : Earlier(i, j) => Known(j)
  BY DEF Earlier
<1> QED BY <1>1, <1>2 DEF Ordered

LEMMA FedKept ==
    ASSUME Inv1, Fed, nextBatchID' = nextBatchID, next' = next,
           \A b \in 1..(nextBatchID - 1) : sent'[b] = sent[b],
           \/ pc' \in {"cancel", "waiting", "draining", "done"}
           \/ pc' = pc
           \/ pc \in {"committing", "feed", "pending"} /\ Feeding'
           \/ pc \in {"select", "slot", "register"} /\ ~Feeding',
           \A i \in Job : Scheduled(i) => Scheduled(i)'
    PROVE  Fed'
<1>1. \A i \in Job : Known(i)' <=> Known(i)
  BY KnownSame
<1>2. Current' = Current
  BY DEF Current
<1>3. pc' \notin {"cancel", "waiting", "draining", "done"}
      => pc \notin {"cancel", "waiting", "draining", "done"} /\ Feeding' = Feeding
  BY DEF Feeding
<1> QED BY <1>1, <1>2, <1>3 DEF Fed

----------------------------------------------------------------------------
(***************************************************************************)
(* One lemma per group of actions.                                         *)
(***************************************************************************)

LEMMA Inv5Init == Init => Inv5
<1> SUFFICES ASSUME Init PROVE Inv5
  OBVIOUS
<1>1. /\ phase = [j \in Job |-> "new"] /\ result = [j \in Job |-> "none"]
      /\ nextBatchID = 1 /\ tails = [k \in ConversationKeys |-> NoJob]
  BY DEF Init
<1>2. \A j \in Job : ~Scheduled(j) /\ ~Known(j) /\ ~Begun(j)
  BY <1>1, BoundsAssumption DEF Scheduled, Known, Job, Begun, Executing, Consumed
<1>3. Ends
  BY <1>1 DEF Ends, DoneClosed
<1> QED BY <1>1, <1>2, <1>3 DEF Inv5, Fed, Links, Tails, Ordered

\* A step of the goroutine of one scheduled job.
LEMMA Inv5Moves ==
    ASSUME Inv1, Inv5, NEW j \in Job, Scheduled(j), NEW p \in Phases \ {"new", "dropped"},
           NEW r \in Results,
           phase' = [phase EXCEPT ![j] = p], result' = [result EXCEPT ![j] = r],
           UNCHANGED <<sent, nextBatchID, next, pc, prev>>,
           ctxDone => ctxDone',
           Passed(j) => p \in DoneClosed /\ r \in Consumed,
           p \in Executing => r = "none",
           p # "queued",
           p \in {"committing", "exiting"} \cup DoneClosed => r \in Consumed \/ ctxDone'
    PROVE  /\ Fed' /\ Links' /\ Ends'
           /\ tails' = tails => Tails'
           /\ (p \in Executing \/ r \in Consumed \cup {"err"} => Begun(j)) => Ordered'
<1>1. /\ phase'[j] = p /\ result'[j] = r
      /\ \A i \in Job : i # j => phase'[i] = phase[i] /\ result'[i] = result[i]
  BY DEF Inv1, TypeCore
<1>2. \A i \in Job : Scheduled(i)' <=> Scheduled(i)
  BY <1>1 DEF Scheduled
<1>3. \A i \in Job : Passed(i) => Passed(i)'
  BY <1>1 DEF Passed, DoneClosed, Consumed
<1>4. Fed'
  BY <1>2, FedKept DEF Inv5
<1>5. Links'
  BY <1>2, <1>3, LinksKept DEF Inv5
<1>6. tails' = tails => Tails'
  BY <1>2, <1>3, TailsKept DEF Inv5
<1>7. Ends'
  <2> SUFFICES ASSUME NEW i \in Job
               PROVE  /\ phase'[i] \in {"new", "queued"} \cup Executing => result'[i] = "none"
                      /\ phase'[i] \in {"committing", "exiting"} \cup DoneClosed
                         => result'[i] \in Consumed \/ ctxDone'
    BY DEF Ends, Executing, DoneClosed, Consumed
  <2>1. CASE i = j
    BY <1>1, <2>1 DEF Phases
  <2>2. CASE i # j
    BY <1>1, <2>2 DEF Inv5, Ends
  <2> QED BY <2>1, <2>2
<1>8. ASSUME p \in Executing \/ r \in Consumed \cup {"err"} => Begun(j) PROVE Ordered'
  <2>1. \A i \in Job : Begun(i)' => Begun(i)
    BY <1>1, <1>8 DEF Begun, Executing, Consumed
  <2> QED BY <1>3, <2>1, OrderedKept DEF Inv5
<1> QED BY <1>4, <1>5, <1>6, <1>7, <1>8

\* A job starts when the one that it waits for is through, which then has
\* consumed its message, as the context is alive; everything earlier is settled.
LEMMA StartOrdered ==
    ASSUME Inv1, Inv5, NEW j \in Job, Start(j) PROVE Inv5'
<1>1. /\ phase[j] = "queued" /\ phase' = [phase EXCEPT ![j] = "started"]
      /\ UNCHANGED <<sent, nextBatchID, next, pc, prev, tails, result>>
      /\ ctxDone' = ctxDone /\ ~ctxDone
  BY DEF Start, MayStart, JobGoto, outerVars, feedVars, orderVars, batchVars
<1>2. prev[j] # NoJob => phase[prev[j]] \in DoneClosed
  BY DEF Start, MayStart, PreviousClosed
<1>3. Scheduled(j) /\ result[j] = "none" /\ ~Passed(j)
  BY <1>1 DEF Scheduled, Inv5, Ends, Passed, Consumed, DoneClosed
<1>4. result' = [result EXCEPT ![j] = "none"]
  BY <1>1, <1>3 DEF Inv1, TypeCore
<1>5. Fed' /\ Links' /\ Ends' /\ Tails'
  <2>1. "started" \in Phases \ {"new", "dropped"} /\ "none" \in Results
    BY DEF Phases, Results
  <2>2. /\ "started" # "queued"
        /\ "started" \in {"committing", "exiting"} \cup DoneClosed => FALSE
    BY DEF DoneClosed
  <2>3. PICK p \in Phases \ {"new", "dropped"}, r \in Results : p = "started" /\ r = "none"
    BY <2>1
  <2> QED BY <1>1, <1>3, <1>4, <2>2, <2>3, Inv5Moves
<1>6. \A i \in Job : Earlier(i, j) => Passed(i)
  <2> SUFFICES ASSUME NEW i \in Job, Earlier(i, j) PROVE Passed(i)
    OBVIOUS
  <2>1. UpTo(i, prev[j]) \/ Passed(i)
    BY <1>1, <1>3 DEF Inv5, Links
  <2>2. ASSUME UpTo(i, prev[j]) PROVE Passed(i)
    <3> DEFINE q == prev[j]
    <3>1. /\ q \in Job /\ Scheduled(q) /\ Key(q) = Key(j) /\ phase[q] \in DoneClosed
      BY <1>2, <1>3, <2>2 DEF Inv5, Links, UpTo
    <3>2. Known(q)
      BY <3>1, ScheduledKnown
    <3>3. Passed(q)
      BY <1>1, <3>1 DEF Inv5, Ends, Passed
    <3>4. ASSUME Before(i, q) PROVE Passed(i)
      BY <3>1, <3>2, <3>3, <3>4 DEF Inv5, Ordered, Earlier, Begun, Passed
    <3> QED BY <2>2, <3>3, <3>4 DEF UpTo
  <2> QED BY <2>1, <2>2
<1>7. Ordered'
  <2> SUFFICES ASSUME NEW i \in Job, NEW k \in Job, Earlier(i, k)', Begun(k)'
               PROVE  Passed(i)'
    BY DEF Ordered
  <2>1. Earlier(i, k)
    BY <1>1, KnownSame
  <2>2. Passed(i)
    <3>1. CASE k = j
      BY <1>6, <2>1, <3>1
    <3>2. CASE k # j
      <4>1. Begun(k)
        BY <1>1, <3>2 DEF Begun, Inv1, TypeCore, Executing, Consumed
      <4> QED BY <2>1, <4>1 DEF Inv5, Ordered
    <3> QED BY <3>1, <3>2
  <2>3. i # j
    BY <1>3, <2>2
  <2> QED BY <1>1, <2>2, <2>3 DEF Passed, Inv1, TypeCore, DoneClosed, Consumed
<1> QED BY <1>5, <1>7 DEF Inv5

LEMMA Inv5Message ==
    ASSUME Inv1, Inv3, Inv5, NEW j \in Job, Message(j) PROVE Inv5'
<1>1. CASE Start(j)
  BY <1>1, StartOrdered
<1>2. ASSUME CheckDelivery(j) \/ HookFails(j)
             \/ (\E w \in BOOLEAN : RememberContext(j, w) \/ RecordReplay(j, w))
             \/ (\E a \in MessageActions, e \in BOOLEAN : HandlerReturns(j, a, e))
      PROVE Inv5'
  <2>1. phase[j] \in Executing
    BY <1>2 DEF CheckDelivery, HookFails, RememberContext, RecordReplay, HandlerReturns,
       Executing
  <2>2. Scheduled(j) /\ Begun(j) /\ ~Passed(j) /\ result[j] = "none"
    BY <2>1 DEF Scheduled, Begun, Passed, Executing, DoneClosed, Inv5, Ends
  <2>3. PICK p \in Executing \cup {"finished"}, r \in {"none"} \cup Consumed \cup {"err"} :
            /\ JobGoto(j, p) /\ result' = [result EXCEPT ![j] = r]
            /\ p \in Executing => r = "none"
    <3>1. \/ \E where \in Executing : JobGoto(j, where) /\ result' = result
          \/ \E res \in Consumed \cup {"err"} :
                 JobGoto(j, "finished") /\ result' = [result EXCEPT ![j] = res]
      BY <1>2 DEF CheckDelivery, HookFails, RememberContext, RecordReplay, HandlerReturns,
                Return, Continue, AfterRemember, Executing, Consumed
    <3>2. result = [result EXCEPT ![j] = "none"]
      BY <2>2 DEF Inv1, TypeCore
    <3>3. "finished" \notin Executing
      BY DEF Executing
    <3> QED BY <3>1, <3>2, <3>3
  <2>4. /\ phase' = [phase EXCEPT ![j] = p]
        /\ UNCHANGED <<sent, nextBatchID, next, pc, prev, tails, ctxDone>>
    BY <2>3 DEF JobGoto, outerVars, batchVars, feedVars, orderVars
  <2>5. /\ p \in Phases \ {"new", "dropped"} /\ p # "queued"
        /\ p \notin {"committing", "exiting"} \cup DoneClosed /\ r \in Results
    BY DEF Phases, Results, Executing, Consumed, DoneClosed
  <2>6. Fed' /\ Links' /\ Ends' /\ Tails' /\ Ordered'
    BY <2>2, <2>3, <2>4, <2>5, Inv5Moves
  <2> QED BY <2>6 DEF Inv5
<1>3. CASE CancelQueued(j)
  <2>1. /\ phase[j] = "queued" /\ phase' = [phase EXCEPT ![j] = "exiting"]
        /\ result' = [result EXCEPT ![j] = "cancelled"]
        /\ UNCHANGED <<sent, nextBatchID, next, pc, prev, tails>>
        /\ ctxDone
    BY <1>3 DEF CancelQueued, outerVars, feedVars, orderVars
  <2>2. ctxDone'
    BY <1>3, <2>1 DEF CancelQueued, Complete, RecordFailure, batchVars
  <2>3. Scheduled(j) /\ ~Passed(j)
    BY <2>1 DEF Scheduled, Passed, DoneClosed
  <2>4. PICK p \in Phases \ {"new", "dropped"}, r \in Results :
            p = "exiting" /\ r = "cancelled"
    BY DEF Phases, Results
  <2>5. p \notin Executing /\ p # "queued" /\ r \notin Consumed \cup {"err"}
    BY <2>4 DEF Executing, Consumed
  <2>6. Fed' /\ Links' /\ Ends' /\ Tails' /\ Ordered'
    BY <2>1, <2>2, <2>3, <2>4, <2>5, Inv5Moves
  <2> QED BY <2>6 DEF Inv5
<1>4. CASE CompleteJob(j)
  <2>1. /\ phase[j] = "finished"
        /\ UNCHANGED <<sent, nextBatchID, next, pc, prev, tails, result>>
    BY <1>4 DEF CompleteJob, outerVars, feedVars, orderVars, deliverVars
  <2>2. PICK p \in {"committing", "exiting"} : phase' = [phase EXCEPT ![j] = p]
    BY <1>4 DEF CompleteJob
  <2>3. Scheduled(j) /\ ~Passed(j) /\ result[j] \in Consumed \cup {"err"}
    BY <2>1 DEF Scheduled, Passed, DoneClosed, Inv3, Outcomes
  <2>4. /\ ctxDone => ctxDone'
        /\ result[j] = "err" => ctxDone'
    <3>1. Complete(j[1], result[j] = "err", TRUE)
      BY <1>4 DEF CompleteJob
    <3>2. BatchState(j[1]) /\ remaining[j[1]] > 0
      <4>1. Known(j) /\ phase[j] \in Uncompleted
        BY <2>1, <2>3, ScheduledKnown DEF Uncompleted
      <4> QED BY <4>1, CompleteFinds DEF Known
    <3> QED BY <3>1, <3>2 DEF Complete, RecordFailure
  <2>5. PICK r \in Results : r = result[j]
    BY DEF Inv1, TypeCore
  <2>6. result' = [result EXCEPT ![j] = r]
    BY <2>1, <2>5 DEF Inv1, TypeCore
  <2>7. p \in Phases \ {"new", "dropped"} /\ p \notin Executing /\ p # "queued"
    BY DEF Phases, Executing
  <2>8. Begun(j)
    BY <2>3 DEF Begun
  <2>9. r \in Consumed \/ ctxDone'
    BY <2>3, <2>4, <2>5
  <2>10. Fed' /\ Links' /\ Ends' /\ Tails' /\ Ordered'
    BY <2>1, <2>2, <2>3, <2>4, <2>6, <2>7, <2>8, <2>9, Inv5Moves
  <2> QED BY <2>10 DEF Inv5
<1>5. CASE CloseDone(j)
  <2>1. /\ phase[j] = "exiting" /\ phase' = [phase EXCEPT ![j] = "closed"]
        /\ UNCHANGED <<sent, nextBatchID, next, pc, prev, tails, ctxDone, result>>
    BY <1>5 DEF CloseDone, JobGoto, outerVars, batchVars, feedVars, orderVars, deliverVars
  <2>2. Scheduled(j) /\ ~Passed(j) /\ (result[j] \in Consumed \/ ctxDone)
    BY <2>1 DEF Scheduled, Passed, DoneClosed, Inv5, Ends
  <2>3. PICK p \in Phases \ {"new", "dropped"}, r \in Results : p = "closed" /\ r = result[j]
    BY DEF Phases, Inv1, TypeCore
  <2>4. result' = [result EXCEPT ![j] = r]
    BY <2>1, <2>3 DEF Inv1, TypeCore
  <2>5. p \notin Executing /\ p # "queued" /\ (r \in Consumed \cup {"err"} => Begun(j))
    BY <2>3 DEF Executing, Begun
  <2>6. Fed' /\ Links' /\ Ends' /\ Tails' /\ Ordered'
    BY <2>1, <2>2, <2>3, <2>4, <2>5, Inv5Moves
  <2> QED BY <2>6 DEF Inv5
<1>6. CASE Exit(j)
  <2>1. /\ phase[j] = "closed" /\ phase' = [phase EXCEPT ![j] = "exited"]
        /\ UNCHANGED <<sent, nextBatchID, next, pc, prev, ctxDone, result>>
        /\ tails' = TailsWithout(j)
    BY <1>6 DEF Exit, outerVars, batchVars, feedVars, deliverVars
  <2>2. Scheduled(j) /\ (result[j] \in Consumed \/ ctxDone)
    BY <2>1 DEF Scheduled, DoneClosed, Inv5, Ends
  <2>3. PICK p \in Phases \ {"new", "dropped"}, r \in Results : p = "exited" /\ r = result[j]
    BY DEF Phases, Inv1, TypeCore
  <2>4. result' = [result EXCEPT ![j] = r]
    BY <2>1, <2>3 DEF Inv1, TypeCore
  <2>5. p \notin Executing /\ p # "queued" /\ (r \in Consumed \cup {"err"} => Begun(j))
    BY <2>3 DEF Executing, Begun
  <2>6. Passed(j) => p \in DoneClosed /\ r \in Consumed
    BY <2>3 DEF Passed, DoneClosed
  <2>7. Fed' /\ Links' /\ Ends' /\ Ordered'
    BY <2>1, <2>2, <2>3, <2>4, <2>5, <2>6, Inv5Moves
  <2>8. Tails'
    <3>1. \A i \in Job : Scheduled(i)' <=> Scheduled(i)
      BY <2>1 DEF Scheduled, Inv1, TypeCore
    <3>2. \A i \in Job : Passed(i)' <=> Passed(i)
      BY <2>1 DEF Passed, DoneClosed, Consumed, Inv1, TypeCore
    <3>3. \A i \in Job : Scheduled(i) => Key(i)' = Key(i)
      BY <2>1, KnownSame, ScheduledKnown
    <3> SUFFICES ASSUME NEW k \in ConversationKeys
             PROVE  /\ tails'[k] # NoJob => /\ tails'[k] \in Job
                                            /\ Scheduled(tails[k]) /\ Key(tails[k]) = k
                                            /\ tails'[k] = tails[k]
                    /\ \A i \in Job : Scheduled(i) /\ Key(i) = k
                                      => UpTo(i, tails'[k]) \/ Passed(i) \/ ctxDone
      <4>1. ASSUME NEW k \in ConversationKeys, tails'[k] # NoJob, tails'[k] \in Job,
                   Scheduled(tails[k]), Key(tails[k]) = k, tails'[k] = tails[k]
            PROVE  Scheduled(tails[k])' /\ Key(tails[k])' = k
        <5>1. PICK t \in Job : t = tails[k] /\ t = tails'[k]
          BY <4>1
        <5>2. Scheduled(t)' /\ Key(t)' = k
          BY <3>1, <3>3, <4>1, <5>1
        <5>3. Scheduled(t)' = Scheduled(tails[k])' /\ Key(t)' = Key(tails[k])'
          BY <5>1 DEF Scheduled, Key, Wire, Messages
        <5> QED BY <5>2, <5>3
      <4> QED BY <2>1, <3>1, <3>2, <3>3, <4>1 DEF Tails, UpTo, Before
    <3>4. tails'[k] = IF k = Key(j) /\ tails[k] = j THEN NoJob ELSE tails[k]
      BY <2>1 DEF TailsWithout, Key
    <3>5. tails[k] # NoJob => tails[k] \in Job /\ Scheduled(tails[k]) /\ Key(tails[k]) = k
      BY DEF Inv5, Tails
    <3>6. \A i \in Job : Scheduled(i) /\ Key(i) = k => UpTo(i, tails[k]) \/ Passed(i) \/ ctxDone
      BY DEF Inv5, Tails
    <3>7. CASE k = Key(j) /\ tails[k] = j
      <4>1. ASSUME NEW i \in Job, Scheduled(i), Key(i) = k, ~ctxDone PROVE Passed(i)
        <5>1. Passed(j)
          BY <2>1, <2>2, <4>1 DEF Passed, DoneClosed
        <5>2. UpTo(i, j) \/ Passed(i)
          BY <3>6, <3>7, <4>1
        <5>3. ASSUME Before(i, j) PROVE Passed(i)
          <6>1. Earlier(i, j)
            BY <2>2, <3>7, <4>1, <5>3, ScheduledKnown DEF Earlier
          <6> QED BY <5>1, <6>1 DEF Inv5, Ordered, Begun, Passed
        <5> QED BY <5>1, <5>2, <5>3 DEF UpTo
      <4> QED BY <3>4, <3>7, <4>1
    <3>8. CASE ~(k = Key(j) /\ tails[k] = j)
      BY <3>4, <3>5, <3>6, <3>8
    <3> QED BY <3>7, <3>8
  <2> QED BY <2>7, <2>8 DEF Inv5
<1> QED BY <1>1, <1>2, <1>3, <1>4, <1>5, <1>6, Message(j) DEF Message

\* Steps that leave the goroutines alone, but for the one that leaves the
\* commit loop.
LEMMA Inv5Same ==
    ASSUME Inv1, Inv5, UNCHANGED <<nextBatchID, next, prev, tails, result>>,
           \A b \in 1..(nextBatchID - 1) : sent'[b] = sent[b],
           ctxDone => ctxDone',
           \A i \in Job : \/ phase'[i] = phase[i]
                          \/ phase[i] = "committing" /\ phase'[i] = "exiting",
           \/ pc' \in {"cancel", "waiting", "draining", "done"}
           \/ pc' = pc
           \/ pc \in {"committing", "feed", "pending"} /\ Feeding'
           \/ pc \in {"select", "slot", "register"} /\ ~Feeding'
    PROVE  Inv5'
<1>1. \A i \in Job : Scheduled(i)' <=> Scheduled(i)
  BY DEF Scheduled
<1>2. \A i \in Job : Passed(i) => Passed(i)'
  BY DEF Passed, DoneClosed, Consumed
<1>3. \A i \in Job : Begun(i)' => Begun(i)
  BY DEF Begun, Executing, Consumed
<1>4. Fed' /\ Links' /\ Tails' /\ Ordered'
  BY <1>1, <1>2, <1>3, FedKept, LinksKept, TailsKept, OrderedKept DEF Inv5
<1>5. Ends'
  BY DEF Inv5, Ends, Executing, DoneClosed, Consumed
<1> QED BY <1>4, <1>5 DEF Inv5

LEMMA Inv5Surroundings ==
    ASSUME Inv1, Inv5, Surroundings PROVE Inv5'
<1>1. UNCHANGED <<nextBatchID, next, prev, tails, phase, result, pc>>
  BY Surroundings DEF Surroundings, Enqueue, CloseBatches, CancelPoll, InvalidateSession, Reply, ReplyEarlier, StoresAgain,
     Goto, feedVars, orderVars, deliverVars
<1>2. ctxDone => ctxDone'
  BY Surroundings DEF Surroundings, Enqueue, CloseBatches, CancelPoll, InvalidateSession, Reply, ReplyEarlier, StoresAgain,
     Goto, batchVars
<1>3. \A b \in 1..Len(sent) : sent'[b] = sent[b]
  BY SentKept
<1>4. \A b \in 1..(nextBatchID - 1) : b \in 1..Len(sent)
  BY BoundsAssumption DEF Inv1, TypeCore, Control
<1> QED BY <1>1, <1>2, <1>3, <1>4, Inv5Same

LEMMA Inv5Commit ==
    ASSUME Inv1, Inv5, Commit PROVE Inv5'
<1>1. UNCHANGED <<sent, nextBatchID, next, prev, tails, result>>
  BY Commit DEF Commit, AdvanceCursor, AdvanceCursorFails, AdvanceStops, LeaveCommit,
     outerVars, feedVars, orderVars, deliverVars
<1>2. \A i \in Job : \/ phase'[i] = phase[i]
                     \/ phase[i] = "committing" /\ phase'[i] = "exiting"
  BY Commit DEF Commit, AdvanceCursor, AdvanceCursorFails, AdvanceStops, LeaveCommit
<1>3. ctxDone => ctxDone'
  BY Commit DEF Commit, AdvanceCursor, AdvanceCursorFails, AdvanceStops, RecordFailure,
     batchVars
<1>4. pc' = pc \/ (pc = "committing" /\ Feeding')
  BY Commit DEF Commit, AdvanceCursor, AdvanceCursorFails, AdvanceStops, LeaveCommit, Feeding
<1> QED BY <1>1, <1>2, <1>3, <1>4, Inv5Same

\* The messages of a batch that is registered have no goroutine and no result.
LEMMA Inv5Register ==
    ASSUME Inv1, Inv5, RegisterBatch PROVE Inv5'
<1>1. /\ pc = "register" /\ nextBatchID' = nextBatchID + 1 /\ next' = 1
      /\ UNCHANGED <<sent, prev, tails, phase, result, ctxDone>>
      /\ pc' \in {"committing", "feed"}
  BY DEF RegisterBatch, AfterRegister, outerVars, orderVars, deliverVars
<1>2. nextBatchID \in Nat /\ \A i \in Job : i[1] \in Nat /\ i[2] \in Nat \ {0}
  BY BoundsAssumption DEF Inv1, TypeCore, Job
<1>3. \A i \in Job : /\ Scheduled(i)' <=> Scheduled(i)
                     /\ Passed(i)' <=> Passed(i)
                     /\ Begun(i)' <=> Begun(i)
                     /\ Wire(i)' = Wire(i) /\ Key(i)' = Key(i)
  BY <1>1 DEF Scheduled, Passed, Begun, Wire, Key, Messages, Executing, DoneClosed, Consumed
<1>4. \A i \in Job : i[1] < nextBatchID => (Known(i)' <=> Known(i))
  BY <1>1, <1>2 DEF Known, Messages, Wire
<1>5. \A i \in Job : ~(i[1] < nextBatchID) => phase[i] = "new" /\ result[i] = "none"
  BY DEF Inv1, JobsKnown, Inv5, Ends
<1>6. \A i \in Job : ~(i[1] < nextBatchID) => ~Scheduled(i) /\ ~Begun(i)
  BY <1>5 DEF Scheduled, Begun, Executing, Consumed
<1>7. ASSUME NEW i \in Job, NEW j \in Job, j[1] < nextBatchID, Earlier(i, j)'
      PROVE  Earlier(i, j)
  <2>1. Known(i)' /\ Known(j)' /\ Before(i, j) /\ Key(i) = Key(j)
    BY <1>3, <1>7 DEF Earlier, Before
  <2>2. i[1] < nextBatchID
    BY <1>2, <1>7, <2>1 DEF Before
  <2> QED BY <1>4, <1>7, <2>1, <2>2 DEF Earlier
<1>8. Fed'
  <2> SUFFICES ASSUME NEW i \in Job, Known(i)', Feeding' /\ i[1] = Current' => i[2] < next'
               PROVE  Scheduled(i)
    BY <1>3 DEF Fed
  <2>1. Feeding' /\ Current' = nextBatchID
    BY <1>1, <1>2 DEF Feeding, Current
  <2>2. i[1] # nextBatchID
    BY <1>1, <1>2, <2>1
  <2>3. i[1] < nextBatchID
    BY <1>1, <1>2, <2>2 DEF Known
  <2>4. ~Feeding
    BY <1>1 DEF Feeding
  <2> QED BY <1>1, <1>4, <2>3, <2>4 DEF Inv5, Fed
<1>9. Links'
  <2> SUFFICES ASSUME NEW j \in Job, Scheduled(j)
               PROVE  /\ prev[j] # NoJob =>
                            /\ prev[j] \in Job /\ Scheduled(prev[j])
                            /\ Before(prev[j], j) /\ Key(prev[j]) = Key(j)
                      /\ \A i \in Job : Earlier(i, j)'
                                        => UpTo(i, prev[j]) \/ Passed(i) \/ ctxDone
    BY <1>1, <1>3 DEF Links, UpTo, Before
  <2>1. j[1] < nextBatchID
    BY <1>6
  <2> QED BY <1>7, <2>1 DEF Inv5, Links
<1>10. Tails'
  BY <1>1, <1>3 DEF Inv5, Tails, UpTo, Before
<1>11. Ends'
  BY <1>1 DEF Inv5, Ends, Executing, DoneClosed, Consumed
<1>12. Ordered'
  BY <1>3, <1>6, <1>7 DEF Inv5, Ordered
<1> QED BY <1>8, <1>9, <1>10, <1>11, <1>12 DEF Inv5

\* The new goroutine waits for the last one of its conversation, or all of
\* those are settled; all of them come before it.
LEMMA Inv5Submit ==
    ASSUME Inv1, Inv5, SubmitMessage PROVE Inv5'
<1>1. /\ pc = "pending" /\ Feeding
      /\ next <= Len(Messages(Current)) /\ Messages(Current)[next] # Malformed
      /\ nextBatchID \in Nat \ {0} /\ next \in Nat
  BY BoundsAssumption DEF SubmitMessage, Feeding, Inv1, Control, TypeCore
<1>2. PICK j \in Job : /\ j = <<Current, next>> /\ j[1] = Current /\ j[2] = next
                      /\ phase[j] = "new"
  BY <1>1, CurrentFacts, UnscheduledNew
<1>3. /\ pc = "pending" /\ pc' = "feed" /\ next' = next + 1
      /\ prev' = [prev EXCEPT ![j] = tails[Key(j)]]
      /\ tails' = [tails EXCEPT ![Key(j)] = j]
      /\ phase' = [phase EXCEPT ![j] = "queued"]
      /\ UNCHANGED <<sent, nextBatchID, result, ctxDone>>
  BY <1>2 DEF SubmitMessage, Key, outerVars, batchVars, deliverVars
<1>4. Feeding' /\ Current' = Current
  BY <1>3 DEF Feeding, Current
<1>5. Known(j)
  BY <1>1, <1>2 DEF Known, Current, Wire
<1>6. Key(j) \in ConversationKeys
  BY <1>2, <1>5, KnownWire, WireFacts DEF Key
<1>7. \A i \in Job : Scheduled(i) => Before(i, j) /\ i # j
  <2> SUFFICES ASSUME NEW i \in Job, Scheduled(i) PROVE Before(i, j) /\ i # j
    OBVIOUS
  <2>1. i[1] < nextBatchID /\ (i[1] = Current => i[2] < next)
    BY <1>1 DEF Inv1, JobsKnown, Scheduled
  <2>2. i[1] \in Nat /\ i[2] \in Nat
    BY BoundsAssumption DEF Job
  <2> QED BY <1>1, <1>2, <2>1, <2>2 DEF Before, Current
<1>8. \A i \in Job : Known(i) /\ Before(i, j) => Scheduled(i)
  <2>1. \A i \in Job : Before(i, j) /\ i[1] = Current => i[2] < next
    BY <1>1, <1>2, BoundsAssumption DEF Before, Job
  <2> QED BY <1>3, <2>1 DEF Inv5, Fed
<1>9. /\ phase'[j] = "queued" /\ \A i \in Job : i # j => phase'[i] = phase[i]
      /\ prev'[j] = tails[Key(j)] /\ \A i \in Job : i # j => prev'[i] = prev[i]
      /\ tails'[Key(j)] = j
      /\ \A k \in ConversationKeys : k # Key(j) => tails'[k] = tails[k]
  BY <1>3, <1>2, <1>6 DEF Inv1, TypeCore
<1>10. Scheduled(j)' /\ \A i \in Job : i # j => (Scheduled(i)' <=> Scheduled(i))
  BY <1>9 DEF Scheduled
<1>11. \A i \in Job : /\ Passed(i)' <=> Passed(i)
                      /\ Begun(i)' <=> Begun(i)
  BY <1>3, <1>2, <1>9 DEF Passed, Begun, DoneClosed, Executing, Consumed
<1>12. \A i \in Job : /\ Wire(i)' = Wire(i) /\ Key(i)' = Key(i)
                      /\ Known(i)' <=> Known(i)
  BY <1>3 DEF Wire, Key, Known, Messages
<1>13. \A i, k \in Job : Earlier(i, k)' <=> Earlier(i, k)
  BY <1>12 DEF Earlier, Before
<1>14. Fed'
  <2> SUFFICES ASSUME NEW i \in Job, Known(i), i[1] = Current => i[2] < next + 1
               PROVE  Scheduled(i)'
    BY <1>3, <1>4, <1>12 DEF Fed
  <2>1. CASE i = j
    BY <1>10, <2>1
  <2>2. CASE i # j
    <3>1. i[1] = Current => i[2] # next
      BY <1>2, <2>2 DEF Job
    <3>2. i[1] = Current => i[2] < next
      BY <1>1, <3>1 DEF Job
    <3>3. Scheduled(i)
      BY <1>3, <3>2 DEF Inv5, Fed
    <3> QED BY <1>10, <2>2, <3>3
  <2> QED BY <2>1, <2>2
<1>15. ASSUME tails[Key(j)] # NoJob
       PROVE  LET t == tails[Key(j)]
              IN  t \in Job /\ Scheduled(t) /\ Key(t) = Key(j) /\ Before(t, j) /\ t # j
  BY <1>6, <1>7, <1>15 DEF Inv5, Tails
<1>16. \A i \in Job : Earlier(i, j) => UpTo(i, tails[Key(j)]) \/ Passed(i) \/ ctxDone
  BY <1>6, <1>8 DEF Inv5, Tails, Earlier
<1>17. Links'
  <2>0. ASSUME NEW k \in Job, Scheduled(k)',
               prev'[k] # NoJob => /\ prev'[k] \in Job /\ prev'[k] # j /\ Before(prev'[k], k)
                                   /\ \E t \in Job : t = prev'[k] /\ Scheduled(t)
                                                     /\ Key(t) = Key(k)
        PROVE  (prev[k] # NoJob => /\ prev[k] \in Job /\ Scheduled(prev[k])
                                   /\ Before(prev[k], k) /\ Key(prev[k]) = Key(k))'
    <3> SUFFICES ASSUME prev'[k] # NoJob
                 PROVE  Scheduled(prev[k])' /\ Before(prev[k], k)' /\ Key(prev[k])' = Key(k)'
      BY <2>0
    <3>1. PICK t \in Job : t = prev'[k] /\ t # j /\ Scheduled(t) /\ Key(t) = Key(k)
      BY <2>0
    <3>2. Scheduled(t)' /\ Key(t)' = Key(k)'
      BY <1>10, <1>12, <3>1
    <3>3. Scheduled(prev[k])' = Scheduled(t)' /\ Key(prev[k])' = Key(t)'
      BY <3>1 DEF Scheduled, Key, Wire, Messages
    <3>4. Before(prev[k], k)' <=> Before(prev'[k], k)
      BY DEF Before
    <3> QED BY <2>0, <3>2, <3>3, <3>4
  <2> SUFFICES ASSUME NEW k \in Job, Scheduled(k)'
               PROVE  /\ prev'[k] # NoJob =>
                            /\ prev'[k] \in Job /\ prev'[k] # j /\ Before(prev'[k], k)
                            /\ \E t \in Job : t = prev'[k] /\ Scheduled(t) /\ Key(t) = Key(k)
                      /\ \A i \in Job : Earlier(i, k)
                                        => UpTo(i, prev'[k]) \/ Passed(i) \/ ctxDone
    BY <1>3, <1>11, <1>13, <2>0 DEF Links, UpTo, Before
  <2>1. CASE k = j
    BY <1>9, <1>15, <1>16, <2>1
  <2>2. CASE k # j
    <3>1. Scheduled(k) /\ prev'[k] = prev[k]
      BY <1>9, <1>10, <2>2
    <3>2. prev[k] # NoJob => prev[k] # j
      <4>1. ~Scheduled(j)
        BY <1>2 DEF Scheduled
      <4> QED BY <3>1, <4>1 DEF Inv5, Links
    <3> QED BY <3>1, <3>2 DEF Inv5, Links
  <2> QED BY <2>1, <2>2
<1>18. Tails'
  <2>0. ASSUME NEW k \in ConversationKeys,
               tails'[k] # NoJob => \E t \in Job : t = tails'[k] /\ Scheduled(t)' /\ Key(t) = k
        PROVE  (tails[k] # NoJob => /\ tails[k] \in Job /\ Scheduled(tails[k])
                                    /\ Key(tails[k]) = k)'
    <3> SUFFICES ASSUME tails'[k] # NoJob
                 PROVE  tails'[k] \in Job /\ Scheduled(tails[k])' /\ Key(tails[k])' = k
      OBVIOUS
    <3>1. PICK t \in Job : t = tails'[k] /\ Scheduled(t)' /\ Key(t) = k
      BY <2>0
    <3>2. Scheduled(tails[k])' = Scheduled(t)' /\ Key(tails[k])' = Key(t)'
      BY <3>1 DEF Scheduled, Key, Wire, Messages
    <3> QED BY <1>12, <3>1, <3>2
  <2> SUFFICES ASSUME NEW k \in ConversationKeys
               PROVE  /\ tails'[k] # NoJob =>
                            \E t \in Job : t = tails'[k] /\ Scheduled(t)' /\ Key(t) = k
                      /\ \A i \in Job : Scheduled(i)' /\ Key(i) = k
                                        => UpTo(i, tails'[k]) \/ Passed(i) \/ ctxDone
    BY <1>3, <1>11, <1>12, <2>0 DEF Tails, UpTo, Before
  <2>1. CASE k = Key(j)
    <3>1. j # NoJob
      BY <1>2, BoundsAssumption DEF Job, NoJob
    <3>2. \A i \in Job : Scheduled(i)' => i = j \/ Before(i, j)
      BY <1>7, <1>10
    <3> QED BY <1>2, <1>9, <1>10, <2>1, <3>1, <3>2 DEF UpTo
  <2>2. CASE k # Key(j)
    <3>1. tails'[k] = tails[k]
      BY <1>9, <2>2
    <3>2. \A i \in Job : Scheduled(i)' /\ Key(i) = k => Scheduled(i)
      BY <1>10, <2>2
    <3>3. tails[k] # NoJob => tails[k] \in Job /\ Scheduled(tails[k]) /\ Key(tails[k]) = k
      BY DEF Inv5, Tails
    <3>4. \A t \in Job : Scheduled(t) => Scheduled(t)'
      BY <1>10
    <3> QED BY <3>1, <3>2, <3>3, <3>4 DEF Inv5, Tails
  <2> QED BY <2>1, <2>2
<1>19. Ends'
  BY <1>3, <1>2, <1>9 DEF Inv5, Ends, Executing, DoneClosed, Consumed
<1>20. Ordered'
  BY <1>11, <1>13 DEF Inv5, Ordered
<1> QED BY <1>14, <1>17, <1>18, <1>19, <1>20 DEF Inv5

\* Messages that never get a goroutine end without having begun.
LEMMA Inv5Dropped ==
    ASSUME Inv1, Inv5, UNCHANGED <<sent, nextBatchID, prev, tails>>,
           pc' \in {"cancel", "waiting"}, ctxDone => ctxDone',
           \A i \in Job :
              \/ phase'[i] = phase[i] /\ result'[i] = result[i]
              \/ /\ phase[i] = "new" /\ phase'[i] = "dropped"
                 /\ result'[i] = "cancelled" \/ ~Known(i)
    PROVE  Inv5'
<1>1. \A i \in Job : Scheduled(i)' <=> Scheduled(i)
  BY DEF Scheduled
<1>2. \A i \in Job : Passed(i) => Passed(i)'
  BY DEF Passed, DoneClosed, Consumed
<1>3. \A i \in Job : Known(i) /\ Begun(i)' => Begun(i)
  BY DEF Begun, Executing, Consumed
<1>4. Links' /\ Tails' /\ Ordered'
  BY <1>1, <1>2, <1>3, LinksKept, TailsKept, OrderedKept DEF Inv5
<1>5. Fed'
  BY DEF Fed
<1>6. Ends'
  BY DEF Inv5, Ends, Executing, DoneClosed, Consumed
<1> QED BY <1>4, <1>5, <1>6 DEF Inv5

LEMMA Inv5Processor ==
    ASSUME Inv1, Inv5, Processor PROVE Inv5'
<1>1. CASE SelectBatch \/ SelectClosed \/ FeedDecodes \/ StopFeeding
           \/ ProcessorReturns \/ AcquireSlot
  <2>1. UNCHANGED <<sent, nextBatchID, next, prev, tails, phase, result, ctxDone>>
    BY <1>1 DEF SelectBatch, SelectClosed, FeedDecodes, StopFeeding,
       ProcessorReturns, AcquireSlot, Goto, outerVars, batchVars, feedVars, orderVars,
       deliverVars
  <2>2. \/ pc' \in {"cancel", "waiting", "draining", "done"}
        \/ pc \in {"committing", "feed", "pending"} /\ Feeding'
        \/ pc \in {"select", "slot", "register"} /\ ~Feeding'
    BY <1>1 DEF SelectBatch, SelectClosed, FeedDecodes, StopFeeding, ProcessorReturns,
       AcquireSlot, Goto, Feeding
  <2> QED BY <2>1, <2>2, Inv5Same
<1>2. CASE FeedDone
  <2>1. /\ pc = "feed" /\ pc' = "select" /\ next > Len(Messages(Current))
        /\ UNCHANGED <<sent, nextBatchID, next, prev, tails, phase, result, ctxDone>>
    BY <1>2 DEF FeedDone, Goto, outerVars, batchVars, feedVars, orderVars, deliverVars
  <2>2. \A i \in Job : /\ Scheduled(i)' <=> Scheduled(i)
                       /\ Passed(i)' <=> Passed(i)
                       /\ Begun(i)' <=> Begun(i)
    BY <2>1 DEF Scheduled, Passed, Begun, DoneClosed, Executing, Consumed
  <2>3. Links' /\ Tails' /\ Ordered'
    BY <2>1, <2>2, LinksKept, TailsKept, OrderedKept DEF Inv5
  <2>4. Ends'
    BY <2>1 DEF Inv5, Ends, Executing, DoneClosed, Consumed
  <2>5. Fed'
    <3> SUFFICES ASSUME NEW i \in Job, Known(i) PROVE Scheduled(i)
      BY <2>1, <2>2, KnownSame DEF Fed
    <3>1. Len(Messages(Current)) \in Nat /\ next \in Nat
      BY <2>1, CurrentFacts, BoundsAssumption DEF Feeding, Inv1, TypeCore
    <3>2. i[1] = Current => i[2] < next
      BY <2>1, <3>1 DEF Known, Job
    <3> QED BY <2>1, <3>2 DEF Inv5, Fed
  <2> QED BY <2>3, <2>4, <2>5 DEF Inv5
<1>3. CASE RegisterBatch
  BY <1>3, Inv5Register
<1>4. CASE FeedDecodeFails
  <2>1. /\ Feeding /\ next <= Len(Messages(Current)) /\ Messages(Current)[next] = Malformed
        /\ phase' = [phase EXCEPT ![<<Current, next>>] = "dropped"]
        /\ result' = [result EXCEPT ![<<Current, next>>] = "err"]
        /\ UNCHANGED <<sent, nextBatchID, prev, tails>> /\ pc' = "cancel"
    BY <1>4 DEF FeedDecodeFails, Feeding, outerVars, orderVars
  <2>2. PICK j \in Job : j = <<Current, next>> /\ phase[j] = "new"
    BY <2>1, CurrentFacts, UnscheduledNew
  <2>3. ~Known(j)
    BY <2>1, <2>2 DEF Known, Wire
  <2>4. ctxDone => ctxDone'
    BY <1>4 DEF FeedDecodeFails, Complete, RecordFailure, batchVars
  <2>5. /\ phase'[j] = "dropped"
        /\ \A i \in Job : i # j => phase'[i] = phase[i] /\ result'[i] = result[i]
    BY <2>1, <2>2 DEF Inv1, TypeCore
  <2> QED BY <2>1, <2>2, <2>3, <2>4, <2>5, Inv5Dropped
<1>5. CASE SubmitMessage
  BY <1>5, Inv5Submit
<1>6. CASE CancelRest
  <2>1. /\ Feeding /\ pc' = "waiting"
        /\ UNCHANGED <<sent, nextBatchID, prev, tails, ctxDone>>
        /\ phase' = [j \in Job |-> IF j \in Unscheduled THEN "dropped" ELSE phase[j]]
        /\ result' = [j \in Job |-> IF j \in Unscheduled THEN "cancelled" ELSE result[j]]
    BY <1>6 DEF CancelRest, CancelUnscheduled, Feeding, outerVars, feedVars, orderVars
  <2>2. \A i \in Job : i \in Unscheduled => phase[i] = "new"
    BY <2>1, UnscheduledNew
  <2> QED BY <2>1, <2>2, Inv5Dropped
<1> QED BY <1>1, <1>2, <1>3, <1>4, <1>5, <1>6, Processor DEF Processor

LEMMA Inv5Invariant == Spec => [](Inv1 /\ Inv3 /\ Inv5)
<1>1. Init => Inv5
  BY Inv5Init
<1>2. Inv1 /\ Inv3 /\ Inv5 /\ [Next]_vars => Inv5'
  <2> SUFFICES ASSUME Inv1, Inv3, Inv5, [Next]_vars PROVE Inv5'
    OBVIOUS
  <2>1. CASE UNCHANGED vars
    <3>1. UNCHANGED <<sent, nextBatchID, next, prev, tails, phase, result, ctxDone, pc>>
      BY <2>1 DEF vars, outerVars, batchVars, feedVars, orderVars, deliverVars
    <3> QED BY <3>1, Inv5Same
  <2> QED BY <2>1, Inv5Surroundings, Inv5Commit, Inv5Processor, Inv5Message
          DEF Next, Terminated
<1> QED BY <1>1, <1>2, Inv3Invariant, PTL DEF Spec

\* No goroutine looks at a message before every earlier message of the same
\* conversation was consumed and its goroutine has closed its done channel, for
\* any number of batches, messages, conversations and handlers, and although a
\* goroutine removes itself from tails while others are being scheduled.
THEOREM OrderInvariant == Spec => []ConversationOrder
<1>1. Inv5 => ConversationOrder
  BY DEF Inv5, Ordered, Earlier, Begun, Passed, Key, ConversationOrder
<1> QED BY <1>1, Inv5Invariant, PTL

----------------------------------------------------------------------------
(***************************************************************************)
(* Replays and context tokens.                                             *)
(***************************************************************************)

Checked(j) == phase[j] \in {"checked", "handling", "recording"} \/ result[j] = "acked"

Looked(j) ==
    \/ phase[j] \in {"handling", "recording"}
    \/ /\ phase[j] \in {"finished", "committing", "exiting"} \cup DoneClosed
       /\ result[j] \in Consumed \cup {"err"}

\* j repeats a message that was acknowledged before it.
Repeats(j, i) ==
    /\ Known(i) /\ Known(j) /\ Before(i, j) /\ result[i] = "acked"
    /\ ReplayKeys(Wire(j)) # {} /\ StrongestKey(Wire(j)) \in ReplayKeys(Wire(i))

\* An acknowledged message is remembered under all of its identities.
Remembered ==
    \A i \in Job : Known(i) /\ result[i] = "acked" => ReplayKeys(Wire(i)) \subseteq seen

\* What has passed the check repeats nothing, also not what was acknowledged
\* after the check.
NotRepeated == \A i, j \in Job : Checked(j) => ~Repeats(j, i)

\* A stored token is that of a message of its user which was looked at.
Stored ==
    \A u \in Users : context[u] # NoJob =>
       \E c \in Job : c = context[u] /\ Known(c) /\ PeerUserID(Wire(c)) = u /\ Looked(c)

\* What the application may answer was looked at.
Handed == \A c \in handed : c \in Job /\ Known(c) /\ Looked(c)

Inv6 == Remembered /\ NotRepeated /\ Stored /\ Handed

\* Steps that acknowledge nothing, check nothing and store no token.
LEMMA Inv6Kept ==
    ASSUME Inv1, Inv6, nextBatchID' = nextBatchID,
           \A b \in 1..(nextBatchID - 1) : sent'[b] = sent[b],
           UNCHANGED <<seen, context, handed>>,
           \A i \in Job : Known(i) /\ result'[i] = "acked" => result[i] = "acked",
           \A i \in Job : Known(i) /\ Checked(i)' => Checked(i),
           \A i \in Job : Looked(i) => Looked(i)'
    PROVE  Inv6'
<1>1. \A i \in Job : /\ Known(i)' <=> Known(i)
                     /\ Known(i) => Wire(i)' = Wire(i)
  BY KnownSame DEF Known
<1>2. Remembered'
  BY <1>1 DEF Inv6, Remembered
<1>3. \A i, j \in Job : Repeats(j, i)' => Repeats(j, i) /\ Known(j)
  BY <1>1 DEF Repeats, Before
<1>4. NotRepeated'
  BY <1>3 DEF Inv6, NotRepeated
<1>5. Stored' /\ Handed'
  BY <1>1 DEF Inv6, Stored, Handed
<1> QED BY <1>2, <1>4, <1>5 DEF Inv6

LEMMA Inv6Init == Init => Inv6
<1> SUFFICES ASSUME Init PROVE Inv6
  OBVIOUS
<1>1. /\ nextBatchID = 1 /\ context = [u \in Users |-> NoJob] /\ handed = {}
  BY DEF Init
<1>2. \A i \in Job : ~Known(i)
  BY <1>1 DEF Known, Job
<1> QED BY <1>1, <1>2 DEF Inv6, Remembered, NotRepeated, Repeats, Stored, Handed

\* A batch that is registered has no message that was checked or acknowledged.
LEMMA Inv6Register ==
    ASSUME Inv1, Inv5, Inv6, RegisterBatch PROVE Inv6'
<1>1. /\ nextBatchID' = nextBatchID + 1
      /\ UNCHANGED <<sent, phase, result, seen, context, handed>>
  BY DEF RegisterBatch, outerVars, deliverVars
<1>2. nextBatchID \in Nat /\ \A i \in Job : i[1] \in Nat
  BY BoundsAssumption DEF Inv1, TypeCore, Job
<1>3. \A i \in Job : ~(i[1] < nextBatchID) => phase[i] = "new" /\ result[i] = "none"
  BY DEF Inv1, JobsKnown, Inv5, Ends
<1>4. \A i \in Job : ~(i[1] < nextBatchID) => ~Checked(i) /\ ~Looked(i) /\ result[i] # "acked"
  BY <1>3 DEF Checked, Looked, DoneClosed
<1>5. \A i \in Job : /\ Wire(i)' = Wire(i)
                     /\ Checked(i)' <=> Checked(i)
                     /\ Looked(i)' <=> Looked(i)
                     /\ i[1] < nextBatchID => (Known(i)' <=> Known(i))
  BY <1>1, <1>2 DEF Wire, Messages, Checked, Looked, Known, DoneClosed, Consumed
<1>6. Remembered'
  BY <1>1, <1>4, <1>5 DEF Inv6, Remembered
<1>7. ASSUME NEW i \in Job, NEW j \in Job, Checked(j), Repeats(j, i)' PROVE FALSE
  <2>1. i[1] < nextBatchID /\ j[1] < nextBatchID
    BY <1>1, <1>4, <1>7 DEF Repeats
  <2>2. Repeats(j, i)
    BY <1>1, <1>5, <1>7, <2>1 DEF Repeats, Before
  <2> QED BY <1>7, <2>2 DEF Inv6, NotRepeated
<1>8. NotRepeated'
  BY <1>5, <1>7 DEF NotRepeated
<1>9. Stored' /\ Handed'
  BY <1>1, <1>4, <1>5 DEF Inv6, Stored, Handed
<1> QED BY <1>6, <1>8, <1>9 DEF Inv6

LEMMA Inv6Processor ==
    ASSUME Inv1, Inv5, Inv6, Processor PROVE Inv6'
<1>1. CASE RegisterBatch
  BY <1>1, Inv6Register
<1>2. CASE SelectBatch \/ SelectClosed \/ FeedDone \/ FeedDecodes \/ StopFeeding
           \/ ProcessorReturns \/ AcquireSlot
  <2>1. UNCHANGED <<sent, nextBatchID, phase, result, seen, context, handed>>
    BY <1>2 DEF SelectBatch, SelectClosed, FeedDone, FeedDecodes, StopFeeding,
       ProcessorReturns, AcquireSlot, Goto, outerVars, feedVars, deliverVars
  <2>2. \A i \in Job : (Checked(i)' <=> Checked(i)) /\ (Looked(i)' <=> Looked(i))
    BY <2>1 DEF Checked, Looked, DoneClosed, Consumed
  <2> QED BY <2>1, <2>2, Inv6Kept
<1>3. CASE FeedDecodeFails \/ SubmitMessage \/ CancelRest
  <2>1. UNCHANGED <<sent, nextBatchID, seen, context, handed>>
    BY <1>3 DEF FeedDecodeFails, SubmitMessage, CancelRest, outerVars, feedVars, deliverVars
  <2>2. Feeding
    BY <1>3 DEF FeedDecodeFails, SubmitMessage, CancelRest, Feeding
  <2>3. \A i \in Job : \/ phase'[i] = phase[i] /\ result'[i] = result[i]
                       \/ /\ phase[i] = "new" /\ phase'[i] \in {"queued", "dropped"}
                          /\ result'[i] \in {result[i], "err", "cancelled"}
    <3>1. CASE FeedDecodeFails
      <4>1. /\ next <= Len(Messages(Current))
            /\ phase' = [phase EXCEPT ![<<Current, next>>] = "dropped"]
            /\ result' = [result EXCEPT ![<<Current, next>>] = "err"]
        BY <3>1 DEF FeedDecodeFails
      <4>2. PICK j \in Job : j = <<Current, next>> /\ phase[j] = "new"
        BY <2>2, <4>1, CurrentFacts, UnscheduledNew
      <4> QED BY <4>1, <4>2 DEF Inv1, TypeCore
    <3>2. CASE SubmitMessage
      <4>1. /\ next <= Len(Messages(Current)) /\ result' = result
            /\ phase' = [phase EXCEPT ![<<Current, next>>] = "queued"]
        BY <3>2 DEF SubmitMessage, deliverVars, Inv1, Control
      <4>2. PICK j \in Job : j = <<Current, next>> /\ phase[j] = "new"
        BY <2>2, <4>1, CurrentFacts, UnscheduledNew
      <4> QED BY <4>1, <4>2 DEF Inv1, TypeCore
    <3>3. CASE CancelRest
      BY <2>2, <3>3, UnscheduledNew DEF CancelRest
    <3> QED BY <1>3, <3>1, <3>2, <3>3
  <2>4. \A i \in Job : /\ Checked(i)' => Checked(i)
                       /\ Looked(i) => Looked(i)'
                       /\ result'[i] = "acked" => result[i] = "acked"
    BY <2>3 DEF Checked, Looked, DoneClosed, Consumed
  <2> QED BY <2>1, <2>4, Inv6Kept
<1> QED BY <1>1, <1>2, <1>3, Processor DEF Processor

\* The check itself: an earlier message with that identity would be in seen.
LEMMA Inv6Check ==
    ASSUME Inv1, Inv5, Inv6, NEW j \in Job, CheckDelivery(j) PROVE Inv6'
<1>1. /\ phase[j] = "started" /\ result[j] = "none" /\ Known(j)
      /\ UNCHANGED <<sent, nextBatchID, seen, context, handed>>
  BY DEF CheckDelivery, Return, Continue, JobGoto, outerVars, feedVars, Inv5, Ends,
     Executing, Inv1, JobsKnown
<1>2. \/ /\ ~Replayed(Wire(j)) /\ result' = result
         /\ phase' = [phase EXCEPT ![j] = "checked"]
      \/ /\ phase' = [phase EXCEPT ![j] = "finished"]
         /\ \E r \in {"err", "skipped"} : result' = [result EXCEPT ![j] = r]
  BY DEF CheckDelivery, Return, Continue, JobGoto
<1>3. /\ \A i \in Job : i # j => phase'[i] = phase[i] /\ result'[i] = result[i]
      /\ ~Checked(j) /\ ~Looked(j)
      /\ \A i \in Job : result'[i] = "acked" => result[i] = "acked"
  BY <1>1, <1>2 DEF Inv1, TypeCore, Checked, Looked, DoneClosed
<1>4. \A i \in Job : Looked(i) => Looked(i)'
  BY <1>3 DEF Looked, DoneClosed, Consumed
<1>5. \A i \in Job : i # j /\ Checked(i)' => Checked(i)
  BY <1>3 DEF Checked
<1>6. CASE ~Checked(j)'
  BY <1>1, <1>3, <1>4, <1>5, <1>6, Inv6Kept
<1>7. CASE Checked(j)'
  <2>1. ~Replayed(Wire(j))
    BY <1>2, <1>7 DEF Checked, Inv1, TypeCore
  <2>2. \A i \in Job : Wire(i)' = Wire(i) /\ (Known(i)' <=> Known(i))
    BY <1>1 DEF Wire, Messages, Known
  <2>3. \A i, k \in Job : Repeats(k, i)' => Repeats(k, i)
    BY <1>3, <2>2 DEF Repeats, Before
  <2>4. \A i \in Job : ~Repeats(j, i)
    BY <2>1 DEF Inv6, Remembered, Repeats, Replayed
  <2>5. NotRepeated'
    BY <1>5, <2>3, <2>4 DEF Inv6, NotRepeated
  <2>6. Remembered'
    BY <1>1, <1>3, <2>2 DEF Inv6, Remembered
  <2>7. Stored' /\ Handed'
    BY <1>1, <1>4, <2>2 DEF Inv6, Stored, Handed
  <2> QED BY <2>5, <2>6, <2>7 DEF Inv6
<1> QED BY <1>6, <1>7

\* While j is recorded, no later message of its conversation has been checked.
LEMMA Inv6Record ==
    ASSUME Inv1, Inv5, Inv6, NEW j \in Job, NEW w \in BOOLEAN, RecordReplay(j, w) PROVE Inv6'
<1>1. /\ phase[j] = "recording" /\ result[j] = "none" /\ Known(j)
      /\ UNCHANGED <<sent, nextBatchID, context, handed>>
      /\ phase' = [phase EXCEPT ![j] = "finished"]
  BY DEF RecordReplay, Return, JobGoto, outerVars, feedVars, Inv5, Ends, Executing, Inv1,
     JobsKnown
<1>2. \/ result' = [result EXCEPT ![j] = "err"] /\ seen' = seen
      \/ /\ result' = [result EXCEPT ![j] = "acked"]
         /\ seen' = seen \cup ReplayKeys(Wire(j))
  BY DEF RecordReplay, Return
<1>3. \A i \in Job : i # j => phase'[i] = phase[i] /\ result'[i] = result[i]
  BY <1>1, <1>2 DEF Inv1, TypeCore
<1>4. \A i \in Job : Looked(i) => Looked(i)'
  <2>1. phase'[j] = "finished" /\ result'[j] \in Consumed \cup {"err"}
    BY <1>1, <1>2 DEF Inv1, TypeCore, Consumed
  <2> QED BY <1>3, <2>1 DEF Looked, DoneClosed, Consumed
<1>5. \A i \in Job : Checked(i)' => Checked(i)
  BY <1>1, <1>3 DEF Checked
<1>6. \A i \in Job : Wire(i)' = Wire(i) /\ (Known(i)' <=> Known(i))
  BY <1>1 DEF Wire, Messages, Known
<1>7. Remembered'
  <2>1. result'[j] = "acked" => ReplayKeys(Wire(j)) \subseteq seen'
    BY <1>2 DEF Inv1, TypeCore
  <2> QED BY <1>2, <1>3, <1>6, <2>1 DEF Inv6, Remembered
<1>8. NotRepeated'
  <2> SUFFICES ASSUME NEW i \in Job, NEW k \in Job, Checked(k), Repeats(k, i)' PROVE FALSE
    BY <1>5 DEF NotRepeated
  <2>1. CASE i # j
    <3>1. Repeats(k, i)
      BY <1>3, <1>6, <2>1 DEF Repeats, Before
    <3> QED BY <3>1 DEF Inv6, NotRepeated
  <2>2. CASE i = j
    <3>1. Earlier(i, k)
      <4>1. Earlier(i, k)'
        <5>1. /\ PeerUserID(Wire(i)) # NoUser
              /\ PeerUserID(Wire(k)) = PeerUserID(Wire(i))
          BY <1>6 DEF Repeats, ReplayKeys, StrongestKey
        <5> QED BY <1>6, <5>1 DEF Repeats, Earlier, Key, ConversationKey
      <4> QED BY <1>1, <4>1, KnownSame
    <3>2. Begun(k)
      BY DEF Checked, Begun, Executing, Consumed
    <3>3. Passed(j)
      BY <2>2, <3>1, <3>2 DEF Inv5, Ordered
    <3> QED BY <1>1, <3>3 DEF Passed, DoneClosed
  <2> QED BY <2>1, <2>2
<1>9. Stored' /\ Handed'
  BY <1>1, <1>4, <1>6 DEF Inv6, Stored, Handed
<1> QED BY <1>7, <1>8, <1>9 DEF Inv6

LEMMA Inv6Remember ==
    ASSUME Inv1, Inv5, Inv6, NEW j \in Job, NEW w \in BOOLEAN, RememberContext(j, w)
    PROVE  Inv6'
<1>1. /\ phase[j] = "checked" /\ result[j] = "none" /\ Known(j)
      /\ UNCHANGED <<sent, nextBatchID, seen>>
  BY DEF RememberContext, Return, Continue, JobGoto, outerVars, feedVars, Inv5, Ends,
     Executing, Inv1, JobsKnown
<1>2. \/ /\ phase' = [phase EXCEPT ![j] = "finished"]
         /\ result' = [result EXCEPT ![j] = "err"] /\ context' = context
         /\ handed' = handed
      \/ /\ \E p \in {"handling", "recording"} : phase' = [phase EXCEPT ![j] = p]
         /\ result' = result /\ handed' \in {handed, handed \cup {j}}
         /\ \/ context' = context
            \/ /\ PeerUserID(Wire(j)) # NoUser
               /\ context' = [context EXCEPT ![PeerUserID(Wire(j))] = j]
  BY DEF RememberContext, Return, Continue, JobGoto, AfterRemember, CarriesToken, Inv1, TypeCore
<1>3. /\ \A i \in Job : i # j => phase'[i] = phase[i] /\ result'[i] = result[i]
      /\ Checked(j) /\ ~Looked(j)
      /\ \A i \in Job : result'[i] = "acked" => result[i] = "acked"
  BY <1>1, <1>2 DEF Inv1, TypeCore, Checked, Looked, DoneClosed
<1>4. \A i \in Job : Looked(i) => Looked(i)'
  BY <1>3 DEF Looked, DoneClosed, Consumed
<1>5. \A i \in Job : Checked(i)' => Checked(i)
  BY <1>3 DEF Checked
<1>6. CASE context' = context /\ handed' = handed
  BY <1>1, <1>3, <1>4, <1>5, <1>6, Inv6Kept
<1>7. CASE ~(context' = context /\ handed' = handed)
  <2>1. \A i \in Job : Wire(i)' = Wire(i) /\ (Known(i)' <=> Known(i))
    BY <1>1 DEF Wire, Messages, Known
  <2>2. Remembered'
    BY <1>1, <1>3, <2>1 DEF Inv6, Remembered
  <2>3. \A i, k \in Job : Repeats(k, i)' => Repeats(k, i)
    BY <1>3, <2>1 DEF Repeats, Before
  <2>4. NotRepeated'
    BY <1>5, <2>3 DEF Inv6, NotRepeated
  <2>5. Looked(j)'
    BY <1>2, <1>7 DEF Looked, Inv1, TypeCore
  <2>6. \A u \in Users : context'[u] = context[u]
                         \/ (context'[u] = j /\ PeerUserID(Wire(j)) = u)
    BY <1>2 DEF Inv1, TypeCore
  <2>7. Stored'
    BY <1>1, <1>4, <2>1, <2>5, <2>6 DEF Inv6, Stored
  <2>8. Handed'
    BY <1>1, <1>2, <1>4, <2>1, <2>5 DEF Inv6, Handed
  <2> QED BY <2>2, <2>4, <2>7, <2>8 DEF Inv6
<1> QED BY <1>6, <1>7

LEMMA Inv6Message ==
    ASSUME Inv1, Inv3, Inv5, Inv6, NEW j \in Job, Message(j) PROVE Inv6'
<1>1. CASE CheckDelivery(j)
  BY <1>1, Inv6Check
<1>2. CASE \E w \in BOOLEAN : RecordReplay(j, w)
  BY <1>2, Inv6Record
<1>3. CASE \E w \in BOOLEAN : RememberContext(j, w)
  BY <1>3, Inv6Remember
<1>4. CASE HookFails(j) \/ (\E a \in MessageActions, e \in BOOLEAN : HandlerReturns(j, a, e))
  <2>1. /\ phase[j] = "handling" /\ UNCHANGED <<sent, nextBatchID, seen, context, handed>>
        /\ \/ phase' = [phase EXCEPT ![j] = "recording"] /\ result' = result
           \/ /\ phase' = [phase EXCEPT ![j] = "finished"]
              /\ result' = [result EXCEPT ![j] = "err"]
    BY <1>4 DEF HookFails, HandlerReturns, Return, Continue, JobGoto, outerVars, feedVars
  <2>2. /\ \A i \in Job : i # j => phase'[i] = phase[i] /\ result'[i] = result[i]
        /\ Checked(j) /\ Looked(j)'
        /\ \A i \in Job : result'[i] = "acked" => result[i] = "acked"
    BY <2>1 DEF Inv1, TypeCore, Checked, Looked, DoneClosed
  <2>3. \A i \in Job : (Checked(i)' => Checked(i)) /\ (Looked(i) => Looked(i)')
    BY <2>2 DEF Checked, Looked, DoneClosed, Consumed
  <2> QED BY <2>1, <2>2, <2>3, Inv6Kept
<1>5. CASE Start(j) \/ CancelQueued(j) \/ CompleteJob(j) \/ CloseDone(j) \/ Exit(j)
  <2>1. UNCHANGED <<sent, nextBatchID, seen, context, handed>>
    BY <1>5 DEF Start, CancelQueued, CompleteJob, CloseDone, Exit, JobGoto, outerVars,
       feedVars, deliverVars
  <2>2. \/ /\ phase[j] = "queued"
           /\ \E p \in {"started", "exiting"} : phase' = [phase EXCEPT ![j] = p]
           /\ result' = result \/ result' = [result EXCEPT ![j] = "cancelled"]
        \/ /\ phase[j] \in {"finished", "exiting", "closed"} /\ result' = result
           /\ \E p \in {"committing", "exiting", "closed", "exited"} :
                 phase' = [phase EXCEPT ![j] = p]
    BY <1>5 DEF Start, CancelQueued, CompleteJob, CloseDone, Exit, JobGoto, deliverVars
  <2>3. \A i \in Job : i # j => phase'[i] = phase[i] /\ result'[i] = result[i]
    BY <2>2 DEF Inv1, TypeCore
  <2>4. /\ Checked(j)' => Checked(j)
        /\ Looked(j) => Looked(j)'
        /\ result'[j] = "acked" => result[j] = "acked"
    BY <2>2 DEF Checked, Looked, DoneClosed, Consumed, Inv1, TypeCore
  <2>5. \A i \in Job : (Checked(i)' => Checked(i)) /\ (Looked(i) => Looked(i)')
    BY <2>3, <2>4 DEF Checked, Looked, DoneClosed, Consumed
  <2> QED BY <2>1, <2>3, <2>4, <2>5, Inv6Kept
<1> QED BY <1>1, <1>2, <1>3, <1>4, <1>5, Message(j) DEF Message

\* A reply stores the token of a message that was looked at, or an earlier one.
Replies == (\E j \in Job : Reply(j)) \/ (\E u \in Users : ReplyEarlier(u))

LEMMA Inv6Reply ==
    ASSUME Inv1, Inv6, Replies PROVE Inv6'
<1>1. UNCHANGED <<sent, nextBatchID, phase, result, seen, handed>>
  BY DEF Replies, Reply, ReplyEarlier, StoresAgain, outerVars, feedVars
<1>2. \A i \in Job : /\ Wire(i)' = Wire(i) /\ (Known(i)' <=> Known(i))
                     /\ (Checked(i)' <=> Checked(i)) /\ (Looked(i)' <=> Looked(i))
  BY <1>1 DEF Wire, Messages, Known, Checked, Looked, DoneClosed, Consumed
<1>3. Remembered'
  BY <1>1, <1>2 DEF Inv6, Remembered
<1>4. NotRepeated'
  BY <1>1, <1>2 DEF Inv6, NotRepeated, Repeats, Before
<1>5. Handed'
  BY <1>1, <1>2 DEF Inv6, Handed
<1>6. ASSUME NEW u \in Users
      PROVE  \/ context'[u] \in {context[u], NoJob}
             \/ context'[u] \in handed /\ PeerUserID(Wire(context'[u])) = u
  BY DEF Replies, Reply, ReplyEarlier, StoresAgain, Inv1, TypeCore
<1>7. Stored'
  BY <1>2, <1>6 DEF Inv6, Stored, Handed
<1> QED BY <1>3, <1>4, <1>5, <1>7 DEF Inv6

LEMMA Inv6Others ==
    ASSUME Inv1, Inv6, Surroundings \/ Commit \/ UNCHANGED vars,
           ~Replies
    PROVE  Inv6'
<1>1. UNCHANGED <<nextBatchID, result, seen, context, handed>>
  BY DEF Replies, Surroundings, Enqueue, CloseBatches, CancelPoll, InvalidateSession, Goto, Commit,
     AdvanceCursor, AdvanceCursorFails, AdvanceStops, LeaveCommit, vars, feedVars, deliverVars
<1>2. \A i \in Job : \/ phase'[i] = phase[i]
                     \/ phase[i] = "committing" /\ phase'[i] = "exiting"
  BY DEF Replies, Surroundings, Enqueue, CloseBatches, CancelPoll, InvalidateSession, Goto, Commit,
     AdvanceCursor, AdvanceCursorFails, AdvanceStops, LeaveCommit, vars
<1>3. \A b \in 1..Len(sent) : sent'[b] = sent[b]
  <2>1. ASSUME NEW batch \in Batches, Enqueue(batch)
        PROVE  \A b \in 1..Len(sent) : sent'[b] = sent[b]
    BY <2>1 DEF Enqueue, Inv1, TypeCore
  <2>2. ASSUME ~\E batch \in Batches : Enqueue(batch) PROVE sent' = sent
    BY <2>2 DEF Replies, Surroundings, CloseBatches, CancelPoll, InvalidateSession, Commit,
       AdvanceCursor, AdvanceCursorFails, AdvanceStops, LeaveCommit, vars, outerVars
  <2> QED BY <2>1, <2>2
<1>4. \A b \in 1..(nextBatchID - 1) : b \in 1..Len(sent)
  BY BoundsAssumption DEF Inv1, TypeCore, Control
<1>5. \A i \in Job : (Checked(i)' <=> Checked(i)) /\ (Looked(i) => Looked(i)')
  BY <1>1, <1>2 DEF Checked, Looked, DoneClosed, Consumed
<1> QED BY <1>1, <1>3, <1>4, <1>5, Inv6Kept

LEMMA Inv6Invariant == Spec => [](Inv1 /\ Inv3 /\ Inv5 /\ Inv6)
<1>1. Init => Inv6
  BY Inv6Init
<1>2. Inv1 /\ Inv3 /\ Inv5 /\ Inv6 /\ [Next]_vars => Inv6'
  BY Inv6Others, Inv6Reply, Inv6Processor, Inv6Message DEF Next, Terminated
<1> QED BY <1>1, <1>2, Inv5Invariant, PTL DEF Spec

\* No handler is called for, and nothing is acknowledged of, a message whose
\* strongest identity is one of an earlier acknowledged message, although the
\* look at the replay store and the commit to it lie on both sides of the
\* handler: only the order inside the conversation closes that gap.
THEOREM ReplayInvariant == Spec => []ReplaySuppressed
<1>1. Inv6 => ReplaySuppressed
  BY DEF Inv6, NotRepeated, Repeats, Checked, ReplaySuppressed
<1> QED BY <1>1, Inv6Invariant, PTL

\* A delivery replaces the stored context token of a user only by that of a later
\* message, whatever the goroutines of other conversations do and whatever the
\* application answers meanwhile; only a reply to a message that the application
\* had before moves it back.
THEOREM ContextForward == Spec => DeliveryMovesForward
<1> DEFINE Forward == \A u \in Users : \/ context'[u] = context[u]
                                       \/ context[u] = NoJob
                                       \/ Before(context[u], context'[u])
                                       \/ context'[u] \in handed \cup {NoJob}
<1>1. Inv1 /\ Inv3 /\ Inv5 /\ Inv6 /\ [Next]_vars => Forward \/ UNCHANGED vars
  <2> SUFFICES ASSUME Inv1, Inv3, Inv5, Inv6, Next PROVE Forward
    BY DEF vars
  <2>1. ASSUME NEW j \in Job, NEW w \in BOOLEAN, RememberContext(j, w) PROVE Forward
    <3> SUFFICES ASSUME NEW u \in Users, context'[u] # context[u], context[u] # NoJob
                 PROVE  Before(context[u], context'[u])
      OBVIOUS
    <3>1. /\ phase[j] = "checked" /\ context'[u] = j /\ PeerUserID(Wire(j)) = u
      BY <2>1 DEF RememberContext, Inv1, TypeCore
    <3>2. PICK c \in Job : c = context[u] /\ Known(c) /\ PeerUserID(Wire(c)) = u /\ Looked(c)
      BY DEF Inv6, Stored
    <3>3. Known(j)
      BY <3>1 DEF Inv1, JobsKnown
    <3>4. ~Before(j, c)
      <4> SUFFICES ASSUME Before(j, c) PROVE FALSE
        OBVIOUS
      <4>1. Earlier(j, c)
        BY <3>1, <3>2, <3>3 DEF Earlier, Key, ConversationKey
      <4>2. Begun(c)
        BY <3>2 DEF Looked, Begun, Executing
      <4>3. Passed(j)
        BY <4>1, <4>2 DEF Inv5, Ordered
      <4> QED BY <3>1, <4>3 DEF Passed, DoneClosed
    <3>5. c # j
      BY <3>1, <3>2 DEF Looked, DoneClosed
    <3>6. Before(c, j)
      BY <3>4, <3>5, BoundsAssumption DEF Before, Job
    <3> QED BY <3>1, <3>2, <3>6
  <2>2. ASSUME context' = context PROVE Forward
    BY <2>2
  <2>3. ASSUME NEW j \in Job, Message(j), ~\E w \in BOOLEAN : RememberContext(j, w)
        PROVE  context' = context
    BY <2>3 DEF Message, Start, CancelQueued, CheckDelivery, HookFails, HandlerReturns,
       RecordReplay, CompleteJob, CloseDone, Exit, deliverVars
  <2>4. ASSUME Surroundings \/ Commit \/ Processor \/ Terminated, ~Replies
        PROVE  context' = context
    BY <2>4 DEF Replies, Surroundings, Enqueue, CloseBatches, CancelPoll, InvalidateSession, Goto,
       Commit, AdvanceCursor, AdvanceCursorFails, AdvanceStops, LeaveCommit, Processor,
       SelectBatch, SelectClosed, AcquireSlot, RegisterBatch, FeedDone, FeedDecodes,
       FeedDecodeFails, SubmitMessage, StopFeeding, CancelRest, ProcessorReturns, Terminated,
       vars, deliverVars
  <2>5. ASSUME Replies PROVE Forward
    BY <2>5 DEF Replies, Reply, ReplyEarlier, StoresAgain, Inv1, TypeCore
  <2> HIDE DEF Forward
  <2> QED BY <2>1, <2>2, <2>3, <2>4, <2>5 DEF Next
<1>2. [](Inv1 /\ Inv3 /\ Inv5 /\ Inv6) /\ [][Next]_vars => [][Forward]_vars
  BY <1>1, PTL
<1> QED BY <1>2, Inv6Invariant, PTL DEF Spec, DeliveryMovesForward

----------------------------------------------------------------------------
(***************************************************************************)
(* The dispatcher implements OrderedDelivery.                              *)
(***************************************************************************)

Settled == {j \in Job : result[j] \in Consumed}

\* A message is consumed when every earlier one of its conversation is.
LEMMA RefinesConsume ==
    ASSUME Inv1, Inv5, NEW j \in Job, phase[j] \in Executing, NEW r \in Consumed,
           result' = [result EXCEPT ![j] = r], UNCHANGED <<sent, nextCommitID, cursor>>
    PROVE  OrderedDelivery!Consume(j)
<1>1. result[j] = "none" /\ Known(j)
  BY DEF Inv5, Ends, Inv1, JobsKnown, Executing
<1>2. Settled' = Settled \cup {j}
  BY DEF Settled, Inv1, TypeCore, Consumed
<1>3. j \notin Settled
  BY <1>1 DEF Settled, Consumed
<1>4. nextBatchID \in Nat /\ Len(sent) \in Nat /\ nextBatchID <= Len(sent) + 1
  BY BoundsAssumption DEF Inv1, TypeCore, Control
<1>5. OrderedDelivery!Decodable(j)
  BY <1>1, <1>4, BoundsAssumption DEF OrderedDelivery!Decodable, OrderedDelivery!Accepted,
     OrderedDelivery!MessageAt, Known, Wire, Messages, Job
<1>6. OrderedDelivery!Turn(j)
  <2> SUFFICES ASSUME NEW i \in Job, OrderedDelivery!Decodable(i), Before(i, j),
                      OrderedDelivery!SameConversation(i, j)
               PROVE  i \in Settled
    BY DEF OrderedDelivery!Turn, OrderedDelivery!Job, OrderedDelivery!Before, Job, Before,
       Settled
  <2>1. i[1] < nextBatchID
    BY <1>1, <1>4, BoundsAssumption, SMTT(30) DEF Known, Before, Job
  <2>2. Earlier(i, j)
    <3>1. Known(i)
      BY <2>1 DEF Known, OrderedDelivery!Decodable, OrderedDelivery!Accepted,
         OrderedDelivery!MessageAt, Wire, Messages
    <3>2. Key(i) = Key(j)
      BY DEF OrderedDelivery!SameConversation, OrderedDelivery!MessageAt,
         OrderedDelivery!ConversationKey, OrderedDelivery!PeerUserID, ConversationKey,
         PeerUserID, Key, Wire, Messages
    <3> QED BY <1>1, <3>1, <3>2 DEF Earlier
  <2>3. Passed(i)
    BY <2>2 DEF Inv5, Ordered, Begun
  <2> QED BY <2>3 DEF Passed, Settled
<1> QED BY <1>2, <1>3, <1>5, <1>6 DEF OrderedDelivery!Consume, Settled

LEMMA RefinesCommit ==
    ASSUME Inv1, Inv3, AdvanceCursor PROVE OrderedDelivery!Commit
<1>1. /\ nextCommitID' = nextCommitID + 1 /\ nextCommitID < nextBatchID
      /\ cursor' = IF sent[nextCommitID].cursor # NoCursor
                   THEN sent[nextCommitID].cursor ELSE cursor
      /\ UNCHANGED <<sent, result>>
  BY DEF AdvanceCursor, FrontierComplete, outerVars, deliverVars
<1>2. nextCommitID \in 1..Len(sent) /\ Len(sent) \in Nat
  BY <1>1, BoundsAssumption DEF Inv1, TypeCore, Control
<1>3. /\ (nextCommitID - 1) + 1 = nextCommitID /\ nextCommitID - 1 < Len(sent)
      /\ nextCommitID' - 1 = (nextCommitID - 1) + 1
  BY <1>1, <1>2
<1>4. ASSUME NEW i \in 1..Len(sent[nextCommitID].messages)
      PROVE  <<nextCommitID, i>> \in Settled
  <2>1. Len(Messages(nextCommitID)) \in Nat
    BY <1>2, BatchFacts, BoundsAssumption
  <2>2. PICK j \in Job : j = <<nextCommitID, i>> /\ j[1] = nextCommitID /\ j[2] = i
    <3>1. <<nextCommitID, i>> \in JobsOf(nextCommitID)
      BY DEF JobsOf, Messages
    <3> QED BY <1>2, <3>1, JobsOfFacts
  <2>3. Inv3'
    BY Inv3Advance
  <2>4. j[1] < nextCommitID' /\ j[2] <= Len(Messages(j[1])')
    BY <1>1, <1>2, <2>1, <2>2 DEF Messages
  <2>5. result'[j] \in Consumed
    BY <2>3, <2>4 DEF Inv3, Outcomes, Consumed
  <2> QED BY <1>1, <2>2, <2>5 DEF Settled
<1>5. Settled' = Settled
  BY <1>1 DEF Settled, Consumed
<1> QED BY <1>1, <1>3, <1>4, <1>5 DEF OrderedDelivery!Commit, Settled

\* Steps that the abstract specification does not see.
LEMMA RefinesStutter ==
    ASSUME UNCHANGED <<sent, nextCommitID, cursor>>,
           \A i \in Job : result'[i] \in Consumed <=> result[i] \in Consumed
    PROVE  UNCHANGED OrderedDelivery!vars
<1>1. Settled' = Settled
  BY DEF Settled, Consumed
<1> QED BY <1>1 DEF OrderedDelivery!vars, Settled

LEMMA RefinesMessage ==
    ASSUME Inv1, Inv5, NEW j \in Job, Message(j)
    PROVE  OrderedDelivery!Consume(j) \/ UNCHANGED OrderedDelivery!vars
<1>1. UNCHANGED <<sent, nextCommitID, cursor>>
  BY Message(j) DEF Message, Start, CancelQueued, CheckDelivery, RememberContext, HookFails,
     HandlerReturns, RecordReplay, CompleteJob, CloseDone, Exit, JobGoto, Return, Continue,
     commitVars, outerVars
<1>2. \/ result' = result
      \/ /\ phase[j] \in {"queued"} \cup Executing
         /\ \E r \in {"err", "cancelled"} : result' = [result EXCEPT ![j] = r]
      \/ phase[j] \in Executing /\ \E r \in Consumed : result' = [result EXCEPT ![j] = r]
  BY Message(j) DEF Message, Start, CancelQueued, CheckDelivery, RememberContext, HookFails,
     HandlerReturns, RecordReplay, CompleteJob, CloseDone, Exit, Return, Continue, Executing,
     Consumed, deliverVars
<1>3. CASE result' = result
  BY <1>1, <1>3, RefinesStutter
<1>4. CASE /\ phase[j] \in {"queued"} \cup Executing
           /\ \E r \in {"err", "cancelled"} : result' = [result EXCEPT ![j] = r]
  <2>1. result[j] = "none"
    BY <1>4 DEF Inv5, Ends
  <2>2. \A i \in Job : result'[i] \in Consumed <=> result[i] \in Consumed
    BY <1>4, <2>1 DEF Inv1, TypeCore, Consumed
  <2> QED BY <1>1, <2>2, RefinesStutter
<1>5. CASE phase[j] \in Executing /\ \E r \in Consumed : result' = [result EXCEPT ![j] = r]
  BY <1>1, <1>5, RefinesConsume
<1> QED BY <1>2, <1>3, <1>4, <1>5

LEMMA RefinesProcessor ==
    ASSUME Inv1, Inv5, Processor PROVE UNCHANGED OrderedDelivery!vars
<1>1. UNCHANGED <<sent, nextCommitID, cursor>>
  BY Processor DEF Processor, SelectBatch, SelectClosed, AcquireSlot, RegisterBatch, FeedDone,
     FeedDecodes, FeedDecodeFails, SubmitMessage, StopFeeding, CancelRest, ProcessorReturns,
     Goto, commitVars, outerVars
<1>2. CASE FeedDecodeFails
  <2>1. /\ Feeding /\ next <= Len(Messages(Current))
        /\ result' = [result EXCEPT ![<<Current, next>>] = "err"]
    BY <1>2 DEF FeedDecodeFails, Feeding
  <2>2. PICK j \in Job : j = <<Current, next>> /\ phase[j] = "new"
    BY <2>1, CurrentFacts, UnscheduledNew
  <2>3. result[j] = "none" /\ result' = [result EXCEPT ![j] = "err"]
    BY <2>1, <2>2 DEF Inv5, Ends
  <2>4. \A i \in Job : result'[i] \in Consumed <=> result[i] \in Consumed
    BY <2>3 DEF Inv1, TypeCore, Consumed
  <2> QED BY <1>1, <2>4, RefinesStutter
<1>3. CASE CancelRest
  <2>1. \A i \in Job : i \in Unscheduled => result[i] = "none"
    BY <1>3, UnscheduledNew DEF CancelRest, Feeding, Inv5, Ends
  <2>2. \A i \in Job : result'[i] \in Consumed <=> result[i] \in Consumed
    BY <1>3, <2>1 DEF CancelRest, Consumed
  <2> QED BY <1>1, <2>2, RefinesStutter
<1>4. ASSUME ~FeedDecodeFails, ~CancelRest PROVE result' = result
  BY Processor, <1>4 DEF Processor, SelectBatch, SelectClosed, AcquireSlot, RegisterBatch,
     FeedDone, FeedDecodes, SubmitMessage, StopFeeding, ProcessorReturns, Goto, deliverVars
<1> QED BY <1>1, <1>2, <1>3, <1>4, RefinesStutter

LEMMA RefinesNext ==
    ASSUME Inv1, Inv3, Inv5, [Next]_vars
    PROVE  [OrderedDelivery!Next]_(OrderedDelivery!vars)
<1>1. ASSUME NEW batch \in Batches, Enqueue(batch) PROVE OrderedDelivery!Accept(batch)
  <2>1. /\ Len(sent) < MaxBatches /\ sent' = Append(sent, batch)
        /\ UNCHANGED <<result, nextCommitID, cursor>>
    BY <1>1 DEF Enqueue, Goto, commitVars, deliverVars
  <2>2. Settled' = Settled
    BY <2>1 DEF Settled, Consumed
  <2> QED BY <2>1, <2>2 DEF OrderedDelivery!Accept, Settled
<1>2. ASSUME CloseBatches \/ CancelPoll \/ InvalidateSession \/ AdvanceCursorFails
             \/ AdvanceStops \/ (\E j \in Job : Reply(j))
             \/ (\E u \in Users : ReplyEarlier(u)) \/ UNCHANGED vars
      PROVE  UNCHANGED OrderedDelivery!vars
  <2>1. UNCHANGED <<sent, nextCommitID, cursor, result>>
    BY <1>2 DEF CloseBatches, CancelPoll, InvalidateSession, AdvanceCursorFails, AdvanceStops,
       Reply, ReplyEarlier, StoresAgain, LeaveCommit, Goto, vars, outerVars, commitVars, deliverVars
  <2> QED BY <2>1, RefinesStutter
<1>3. ASSUME NEW j \in Job, Message(j)
      PROVE  (\E i \in OrderedDelivery!Job : OrderedDelivery!Consume(i))
             \/ UNCHANGED OrderedDelivery!vars
  BY <1>3, RefinesMessage DEF OrderedDelivery!Job, Job
<1> QED BY <1>1, <1>2, <1>3, RefinesCommit, RefinesProcessor
        DEF Next, Terminated, Surroundings, Commit, OrderedDelivery!Next

\* The dispatcher with its goroutines, locks, channels and cancellations
\* implements in-order consumption with a cursor that follows the consumed
\* prefix, for any batches, conversations and number of handlers.
THEOREM Refinement == Spec => ImplementsOrderedDelivery
<1>1. Init => OrderedDelivery!Init
  <2> SUFFICES ASSUME Init PROVE OrderedDelivery!Init
    OBVIOUS
  <2>1. Settled = {}
    BY DEF Init, Settled, Consumed
  <2> QED BY <2>1 DEF Init, OrderedDelivery!Init, Settled
<1>2. Inv1 /\ Inv3 /\ Inv5 /\ [Next]_vars => [OrderedDelivery!Next]_(OrderedDelivery!vars)
  BY RefinesNext
<1> QED BY <1>1, <1>2, Inv5Invariant, PTL
        DEF Spec, ImplementsOrderedDelivery, OrderedDelivery!Spec
============================================================================
