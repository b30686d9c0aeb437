--------------------------- MODULE RunLoopProofs ---------------------------
(***************************************************************************)
(* Proofs about RunLoop for any server log, batches and number of faults.  *)
(***************************************************************************)
EXTENDS RunLoop, SequenceTheorems, TLAPS

(***************************************************************************)
(* The inductive invariant.                                                *)
(***************************************************************************)
Types ==
    /\ arrived \in Nat /\ arrived <= Len(ServerLog)
    /\ stored \in Nat /\ pollCursor \in Nat
    /\ sent \in Seq(Answers) /\ (pc = "send" => batch \in Answers)
    /\ taken \in Nat /\ taken <= Len(sent) /\ committed \in Nat /\ committed <= taken
    /\ consumed \subseteq Job /\ handling \subseteq Job
    /\ recorded \in [Positions -> Nat]
    /\ pc \in Places /\ session \in {"ready", "reauth", "changed"}
    /\ processor \in {"none", "running", "sent", "done"}
    /\ running \in BOOLEAN /\ pollDone \in BOOLEAN /\ stopRequested \in BOOLEAN

\* Where Run is, where its processor is.
Phases ==
    /\ running <=> pc # "idle"
    /\ pc \in {"idle", "load", "notifyStart"} => processor = "none"
    /\ pc \in {"poll", "request", "sleep", "send", "stop"} => processor # "none"
    /\ pc = "defer" => processor \in {"sent", "done"}
    /\ pc = "notifyStop" => processor = "done"
    /\ pc = "finish" => processor \in {"none", "done"}
    /\ handling # {} => processor = "running"
    /\ processor = "none" =>
          sent = <<>> /\ taken = 0 /\ consumed = {} /\ handling = {} /\ failure = "none"

\* A batch is a part of the server's log; its cursor is its end or its start.
Slice(b) ==
    /\ b.first >= 1 /\ b.cursor \in {b.first - 1, b.first - 1 + Len(b.messages)}
    /\ \A k \in 1..Len(b.messages) :
          b.first + k - 1 \in Positions /\ b.messages[k] = ServerLog[b.first + k - 1]

\* The position after the first n batches of the run.
Following(n) == IF n < Len(sent) THEN sent[n + 1].first ELSE pollCursor + 1

\* The batches of a run follow each other, and the stored cursor is among them.
Chain ==
    /\ \A i \in 1..Len(sent) : Slice(sent[i]) /\ Following(i) = sent[i].cursor + 1
    /\ pc = "send" => Slice(batch) /\ batch.first = pollCursor + 1
    /\ processor # "none" => Following(committed) = stored + 1

\* Whatever is consumed has been recorded; what is being handled is next in its
\* conversation and, if it has an identity, new.
Recording ==
    /\ NothingLost
    /\ \A j \in consumed : D!Accepted(j) /\ recorded[Position(j)] >= 1
    /\ \A j \in handling :
          /\ D!Decodable(j) /\ D!Turn(j) /\ j \notin consumed
          /\ ReplayKeys(Wire(j)) # {} => recorded[Position(j)] = 0

\* The identities on disk are those of the messages recorded.
Identities ==
    /\ RecordedOnce
    /\ \A k \in seen : \E m \in Positions :
          recorded[m] >= 1 /\ k \in ReplayKeys(ServerLog[m])
    /\ \A m \in Positions : recorded[m] >= 1 => ReplayKeys(ServerLog[m]) \subseteq seen
    /\ pc = "notifyStart" \/ processor # "none" => memory = seen

\* Why Run ends, and where the error of the processor is.
Known == result # {} \/ stopRequested \/ session # "ready" \/ errCh # "none"

Reasons ==
    /\ pc = "idle" => ~pollDone
    /\ pollDone \/ pc = "stop" => Known
    /\ pc \in {"defer", "notifyStop", "finish"} => result # {} \/ stopRequested
    /\ processor \in {"none", "running"} => errCh = "none"
    /\ pc \in {"defer", "notifyStop", "finish"} => errCh = "none"
    /\ processor = "sent" => errCh # "none" \/ result # {}
    /\ processor \in {"sent", "done"} /\ failure = "delivery" =>
          errCh = "delivery" \/ "delivery" \in result

Inv == Types /\ Phases /\ Chain /\ Recording /\ Identities /\ Reasons

----------------------------------------------------------------------------
LEMMA InvInit == Init => Inv
<1> SUFFICES ASSUME Init PROVE Inv
  OBVIOUS
<1>1. /\ sent = <<>> /\ Len(sent) = 0 /\ stored = 0 /\ consumed = {} /\ handling = {}
      /\ seen = {} /\ pc = "idle" /\ processor = "none" /\ errCh = "none"
      /\ recorded = [m \in Positions |-> 0] /\ pollCursor = 0 /\ taken = 0 /\ committed = 0
      /\ arrived = 0 /\ failure = "none" /\ session = "ready"
  BY ServerAssumption DEF Init
<1>2. running = FALSE /\ pollDone = FALSE /\ stopRequested = FALSE
  BY DEF Init
<1>3. Types
  <2>1. sent \in Seq(Answers) /\ Len(ServerLog) \in Nat /\ 0 <= Len(ServerLog)
        /\ recorded \in [Positions -> Nat]
    BY <1>1, ServerAssumption
  <2>2. running \in BOOLEAN /\ pollDone \in BOOLEAN /\ stopRequested \in BOOLEAN
    BY <1>2
  <2> QED BY <1>1, <2>1, <2>2 DEF Types, Places
<1>4. Phases
  BY <1>1, <1>2 DEF Phases
<1>5. Chain
  BY <1>1 DEF Chain
<1>6. Recording
  BY <1>1 DEF Recording, NothingLost
<1>7. Identities
  BY <1>1 DEF Identities, RecordedOnce
<1>8. Reasons
  BY <1>1, <1>2 DEF Reasons
<1> QED BY <1>3, <1>4, <1>5, <1>6, <1>7, <1>8 DEF Inv

(***************************************************************************)
(* Steps that leave the batches, the deliveries and the stores alone.      *)
(***************************************************************************)
FlagTypes ==
    /\ pc \in Places /\ session \in {"ready", "reauth", "changed"}
    /\ processor \in {"none", "running", "sent", "done"}
    /\ running \in BOOLEAN /\ pollDone \in BOOLEAN /\ stopRequested \in BOOLEAN

store == <<arrived, stored, seen, memory, sent, taken, consumed, committed, handling,
           recorded, pollCursor>>

LEMMA RecordingFrame ==
    ASSUME Recording, UNCHANGED <<sent, consumed, handling, recorded, stored>>
    PROVE  Recording'
BY DEF Recording, NothingLost, Position, Wire, D!Accepted, D!Decodable, D!Turn, D!MessageAt,
       D!SameConversation

LEMMA QuietKeeps ==
    ASSUME Inv, UNCHANGED store, FlagTypes', Phases', Reasons',
           pc' = "send" => pc = "send" /\ batch' = batch,
           pc' = "notifyStart" => pc = "notifyStart",
           processor' # "none" => processor # "none"
    PROVE  Inv'
<1>1. UNCHANGED <<arrived, stored, seen, memory, sent, taken, consumed, committed, handling,
                  recorded, pollCursor>>
  BY DEF store
<1>2. Types'
  BY <1>1 DEF Inv, Types, FlagTypes
<1>3. Chain'
  BY <1>1 DEF Inv, Chain, Slice, Following
<1>4. Recording'
  BY <1>1, RecordingFrame DEF Inv
<1>5. Identities'
  BY <1>1 DEF Inv, Identities, RecordedOnce
<1> QED BY <1>2, <1>3, <1>4, <1>5 DEF Inv

\* Run goes on to a place and the processor stays as it is.
LEMMA RunMoves ==
    ASSUME Inv,
           \/ BeginRun \/ LoadFails \/ NotifyStartFails \/ LoopHead \/ AnswerError
           \/ AnswerExpired \/ Sleep \/ SendAborted \/ Cancel \/ StopResult
           \/ DeferredWait \/ NotifyStop
    PROVE  Inv'
<1> USE DEF outsideVars, deliveryVars, runVars, loopVars, store
<1>1. Types /\ Phases /\ Reasons /\ FlagTypes
  BY DEF Inv, Types, FlagTypes
<1>2. CASE BeginRun
  <2>1. /\ pc = "idle" /\ pc' = "load" /\ running' = TRUE /\ result' = {} /\ UNCHANGED store
        /\ UNCHANGED <<session, stopRequested, processor, errCh, failure, pollDone, batch>>
        /\ session = "ready"
    BY <1>1, <1>2 DEF BeginRun, Phases
  <2>2. FlagTypes'
    BY <1>1, <2>1 DEF FlagTypes, Places
  <2>3. Phases'
    BY <1>1, <2>1 DEF Phases
  <2>4. Reasons'
    BY <1>1, <2>1 DEF Reasons, Known, Phases
  <2> QED BY <2>1, <2>2, <2>3, <2>4, QuietKeeps
<1>3. CASE LoadFails
  <2>1. /\ pc = "load" /\ pc' = "finish" /\ result' = result \cup {"load"} /\ UNCHANGED store
        /\ UNCHANGED <<session, stopRequested, processor, errCh, failure, pollDone, batch, running>>
    BY <1>1, <1>3 DEF LoadFails, Goto
  <2>2. FlagTypes'
    BY <1>1, <2>1 DEF FlagTypes, Places
  <2>3. Phases'
    BY <1>1, <2>1 DEF Phases
  <2>4. Reasons'
    BY <1>1, <2>1 DEF Reasons, Known, Phases
  <2> QED BY <2>1, <2>2, <2>3, <2>4, QuietKeeps
<1>4. CASE NotifyStartFails
  <2>1. /\ pc = "notifyStart" /\ pc' = "finish" /\ result' # {} /\ result \subseteq result'
        /\ session' \in {"reauth", "changed"} /\ UNCHANGED store
        /\ UNCHANGED <<stopRequested, processor, errCh, failure, pollDone, batch, running>>
    BY <1>1, <1>4 DEF NotifyStartFails, Goto, SessionErr, FlagTypes
  <2>2. FlagTypes'
    BY <1>1, <2>1 DEF FlagTypes, Places
  <2>3. Phases'
    BY <1>1, <2>1 DEF Phases
  <2>4. Reasons'
    BY <1>1, <2>1 DEF Reasons, Known, Phases
  <2> QED BY <2>1, <2>2, <2>3, <2>4, QuietKeeps
<1>5. CASE LoopHead
  <2>1. /\ pc = "poll" /\ result \subseteq result' /\ UNCHANGED store
        /\ UNCHANGED <<session, stopRequested, processor, failure, pollDone, batch, running>>
        /\ \/ /\ errCh # "none" /\ pc' = "defer" /\ errCh \in result' /\ errCh' = "none"
           \/ /\ UNCHANGED errCh /\ pc' = "stop" /\ (pollDone \/ session # "ready")
           \/ /\ UNCHANGED errCh /\ pc' = "request" /\ UNCHANGED result
    BY <1>1, <1>5 DEF LoopHead, Goto, SessionErr
  <2>2. FlagTypes'
    BY <1>1, <2>1 DEF FlagTypes, Places
  <2>3. Phases'
    BY <1>1, <2>1 DEF FlagTypes, Phases, Reasons
  <2>4. Reasons'
    BY <1>1, <2>1 DEF Reasons, Known, Phases
  <2> QED BY <2>1, <2>2, <2>3, <2>4, QuietKeeps
<1>6. CASE AnswerError
  <2>1. /\ pc = "request" /\ result \subseteq result' /\ UNCHANGED store
        /\ UNCHANGED <<session, stopRequested, processor, errCh, failure, pollDone, batch, running>>
        /\ \/ pc' = "stop" /\ (pollDone \/ session # "ready")
           \/ pc' = "sleep" /\ UNCHANGED result
    BY <1>1, <1>6 DEF AnswerError, Goto
  <2>2. FlagTypes'
    BY <1>1, <2>1 DEF FlagTypes, Places
  <2>3. Phases'
    BY <1>1, <2>1 DEF Phases
  <2>4. Reasons'
    BY <1>1, <2>1 DEF Reasons, Known, Phases
  <2> QED BY <2>1, <2>2, <2>3, <2>4, QuietKeeps
<1>7. CASE AnswerExpired
  <2>1. /\ pc = "request" /\ pc' = "stop" /\ result' # {} /\ result \subseteq result'
        /\ session' = "reauth" /\ UNCHANGED store
        /\ UNCHANGED <<stopRequested, processor, errCh, failure, pollDone, batch, running>>
    BY <1>1, <1>7 DEF AnswerExpired, Goto
  <2>2. FlagTypes'
    BY <1>1, <2>1 DEF FlagTypes, Places
  <2>3. Phases'
    BY <1>1, <2>1 DEF Phases
  <2>4. Reasons'
    BY <1>1, <2>1 DEF Reasons, Known, Phases
  <2> QED BY <2>1, <2>2, <2>3, <2>4, QuietKeeps
<1>8. CASE Sleep
  <2>1. /\ pc = "sleep" /\ UNCHANGED result /\ UNCHANGED store
        /\ UNCHANGED <<session, stopRequested, processor, errCh, failure, pollDone, batch, running>>
        /\ (pc' = "stop" /\ pollDone) \/ pc' = "poll"
    BY <1>1, <1>8 DEF Sleep, Goto
  <2>2. FlagTypes'
    BY <1>1, <2>1 DEF FlagTypes, Places
  <2>3. Phases'
    BY <1>1, <2>1 DEF Phases
  <2>4. Reasons'
    BY <1>1, <2>1 DEF Reasons, Known, Phases
  <2> QED BY <2>1, <2>2, <2>3, <2>4, QuietKeeps
<1>9. CASE SendAborted
  <2>1. /\ pc = "send" /\ result \subseteq result' /\ UNCHANGED store
        /\ UNCHANGED <<session, stopRequested, processor, failure, pollDone, batch, running>>
        /\ \/ /\ errCh # "none" /\ pc' = "defer" /\ errCh \in result' /\ errCh' = "none"
           \/ /\ UNCHANGED errCh /\ pc' = "stop" /\ pollDone
    BY <1>1, <1>9 DEF SendAborted, SendAborts, Goto
  <2>2. FlagTypes'
    BY <1>1, <2>1 DEF FlagTypes, Places
  <2>3. Phases'
    BY <1>1, <2>1 DEF FlagTypes, Phases, Reasons
  <2>4. Reasons'
    BY <1>1, <2>1 DEF Reasons, Known, Phases
  <2> QED BY <2>1, <2>2, <2>3, <2>4, QuietKeeps
<1>10. CASE Cancel
  <2>1. /\ pc \in {"stop", "defer"} /\ UNCHANGED <<pc, result>> /\ UNCHANGED store
        /\ pollDone' = TRUE
        /\ UNCHANGED <<session, stopRequested, processor, errCh, failure, batch, running>>
    BY <1>1, <1>10 DEF Cancel
  <2>2. FlagTypes'
    BY <1>1, <2>1 DEF FlagTypes, Places
  <2>3. Phases'
    BY <1>1, <2>1 DEF Phases
  <2>4. Reasons'
    BY <1>1, <2>1 DEF Reasons, Known, Phases
  <2> QED BY <2>1, <2>2, <2>3, <2>4, QuietKeeps
<1>11. CASE StopResult
  <2>1. /\ pc = "stop" /\ pc' = "defer" /\ result \subseteq result' /\ UNCHANGED store
        /\ UNCHANGED <<session, stopRequested, processor, failure, pollDone, batch, running>>
        /\ processor = "done" /\ errCh' = "none"
        /\ errCh # "none" => errCh \in result'
        /\ session # "ready" => session \in result'
    BY <1>1, <1>11 DEF StopResult, ProcessorDone, StopErrors, InChannel, SessionErr, Goto
  <2>2. FlagTypes'
    BY <1>1, <2>1 DEF FlagTypes, Places
  <2>3. Phases'
    BY <1>1, <2>1 DEF Phases
  <2>4. Reasons'
    BY <1>1, <2>1 DEF Reasons, Known, Phases
  <2> QED BY <2>1, <2>2, <2>3, <2>4, QuietKeeps
<1>12. CASE DeferredWait
  <2>1. /\ pc = "defer" /\ pc' = "notifyStop" /\ UNCHANGED result /\ UNCHANGED store
        /\ UNCHANGED <<session, stopRequested, processor, errCh, failure, pollDone, batch, running>>
        /\ processor = "done"
    BY <1>1, <1>12 DEF DeferredWait, DeferredDone, Goto
  <2>2. FlagTypes'
    BY <1>1, <2>1 DEF FlagTypes, Places
  <2>3. Phases'
    BY <1>1, <2>1 DEF Phases
  <2>4. Reasons'
    BY <1>1, <2>1 DEF Reasons, Known, Phases
  <2> QED BY <2>1, <2>2, <2>3, <2>4, QuietKeeps
<1>13. CASE NotifyStop
  <2>1. /\ pc = "notifyStop" /\ pc' = "finish" /\ result \subseteq result' /\ UNCHANGED store
        /\ session' \in {session, "reauth"}
        /\ UNCHANGED <<stopRequested, processor, errCh, failure, pollDone, batch, running>>
    BY <1>1, <1>13 DEF NotifyStop, Goto
  <2>2. FlagTypes'
    BY <1>1, <2>1 DEF FlagTypes, Places
  <2>3. Phases'
    BY <1>1, <2>1 DEF Phases
  <2>4. Reasons'
    BY <1>1, <2>1 DEF Reasons, Known, Phases
  <2> QED BY <2>1, <2>2, <2>3, <2>4, QuietKeeps
<1> QED BY <1>2, <1>3, <1>4, <1>5, <1>6, <1>7, <1>8, <1>9, <1>10, <1>11, <1>12, <1>13

\* The processor ends or fails, the run is cancelled, the session changes.
LEMMA Interrupts ==
    ASSUME Inv,
           \/ ProcessorReturns \/ ProcessorCancels \/ Stop \/ LoseSession \/ CancelPoll
           \/ Reauthenticate \/ CommitFails \/ (\E j \in Job : DeliveryRefused(j))
           \/ UNCHANGED vars
    PROVE  Inv'
<1> USE DEF outsideVars, deliveryVars, runVars, loopVars, store
<1>1. Types /\ Phases /\ Reasons /\ FlagTypes
  BY DEF Inv, Types, FlagTypes
<1>2. CASE ProcessorReturns
  <2>1. /\ processor = "running" /\ handling = {} /\ UNCHANGED store
        /\ processor' = (IF failure = "none" THEN "done" ELSE "sent") /\ errCh' = failure
        /\ UNCHANGED <<session, stopRequested, failure, pollDone, batch, running, pc, result>>
        /\ failure = "none" => pollDone
    BY <1>1, <1>2 DEF ProcessorReturns, Working
  <2>2. FlagTypes'
    BY <1>1, <2>1 DEF FlagTypes, Places
  <2>3. Phases'
    BY <1>1, <2>1 DEF Phases
  <2>4. Reasons'
    BY <1>1, <2>1 DEF Reasons, Known, Phases
  <2> QED BY <2>1, <2>2, <2>3, <2>4, QuietKeeps
<1>3. CASE ProcessorCancels
  <2>1. /\ processor = "sent" /\ processor' = "done" /\ pollDone' = TRUE /\ UNCHANGED store
        /\ UNCHANGED <<session, stopRequested, failure, errCh, batch, running, pc, result>>
    BY <1>1, <1>3 DEF ProcessorCancels
  <2>2. FlagTypes'
    BY <1>1, <2>1 DEF FlagTypes, Places
  <2>3. Phases'
    BY <1>1, <2>1 DEF Phases
  <2>4. Reasons'
    BY <1>1, <2>1 DEF Reasons, Known, Phases
  <2> QED BY <2>1, <2>2, <2>3, <2>4, QuietKeeps
<1>4. CASE Stop
  <2>1. /\ running /\ pollDone' = TRUE /\ stopRequested' = TRUE /\ UNCHANGED store
        /\ UNCHANGED <<session, processor, failure, errCh, batch, running, pc, result>>
    BY <1>1, <1>4 DEF Stop
  <2>2. FlagTypes'
    BY <1>1, <2>1 DEF FlagTypes, Places
  <2>3. Phases'
    BY <1>1, <2>1 DEF Phases
  <2>4. Reasons'
    BY <1>1, <2>1 DEF Reasons, Known, Phases
  <2> QED BY <2>1, <2>2, <2>3, <2>4, QuietKeeps
<1>5. CASE LoseSession
  <2>1. /\ session = "ready" /\ session' = "reauth" /\ UNCHANGED store
        /\ UNCHANGED <<stopRequested, processor, failure, errCh, pollDone, batch, running,
                       pc, result>>
    BY <1>1, <1>5 DEF LoseSession
  <2>2. FlagTypes'
    BY <1>1, <2>1 DEF FlagTypes, Places
  <2>3. Phases'
    BY <1>1, <2>1 DEF Phases
  <2>4. Reasons'
    BY <1>1, <2>1 DEF Reasons, Known, Phases
  <2> QED BY <2>1, <2>2, <2>3, <2>4, QuietKeeps
<1>6. CASE CancelPoll
  <2>1. /\ running /\ session = "reauth" /\ pollDone' = TRUE /\ UNCHANGED store
        /\ UNCHANGED <<session, stopRequested, processor, failure, errCh, batch, running, pc,
                       result>>
    BY <1>1, <1>6 DEF CancelPoll
  <2>2. FlagTypes'
    BY <1>1, <2>1 DEF FlagTypes, Places
  <2>3. Phases'
    BY <1>1, <2>1 DEF Phases
  <2>4. Reasons'
    BY <1>1, <2>1 DEF Reasons, Known, Phases
  <2> QED BY <2>1, <2>2, <2>3, <2>4, QuietKeeps
<1>7. CASE Reauthenticate
  <2>1. /\ session = "reauth" /\ session' = (IF running THEN "changed" ELSE "ready")
        /\ running => pollDone
        /\ UNCHANGED store
        /\ UNCHANGED <<stopRequested, processor, failure, errCh, pollDone, batch, running,
                       pc, result>>
    BY <1>1, <1>7 DEF Reauthenticate
  <2>2. FlagTypes'
    BY <1>1, <2>1 DEF FlagTypes, Places
  <2>3. Phases'
    BY <1>1, <2>1 DEF Phases
  <2>4. Reasons'
    BY <1>1, <2>1 DEF Reasons, Known, Phases
  <2> QED BY <2>1, <2>2, <2>3, <2>4, QuietKeeps
<1>8. CASE CommitFails
  <2>1. /\ processor = "running" /\ failure' \in {failure, "delivery"} /\ UNCHANGED store
        /\ UNCHANGED <<session, stopRequested, processor, errCh, pollDone, batch, running,
                       pc, result>>
    BY <1>1, <1>8 DEF CommitFails, FirstError
  <2>2. FlagTypes'
    BY <1>1, <2>1 DEF FlagTypes, Places
  <2>3. Phases'
    BY <1>1, <2>1 DEF Phases
  <2>4. Reasons'
    BY <1>1, <2>1 DEF Reasons, Known, Phases
  <2> QED BY <2>1, <2>2, <2>3, <2>4, QuietKeeps
<1>9. CASE \E j \in Job : DeliveryRefused(j)
  <2>1. /\ processor = "running" /\ UNCHANGED store
        /\ UNCHANGED <<session, stopRequested, processor, errCh, pollDone, batch, running,
                       pc, result>>
    BY <1>1, <1>9 DEF DeliveryRefused, MayStart, Working
  <2>2. FlagTypes'
    BY <1>1, <2>1 DEF FlagTypes, Places
  <2>3. Phases'
    BY <1>1, <2>1 DEF Phases
  <2>4. Reasons'
    BY <1>1, <2>1 DEF Reasons, Known, Phases
  <2> QED BY <2>1, <2>2, <2>3, <2>4, QuietKeeps
<1>10. CASE UNCHANGED vars
  <2>1. /\ UNCHANGED store
        /\ UNCHANGED <<session, stopRequested, processor, failure, errCh, pollDone, batch,
                       running, pc, result>>
    BY <1>1, <1>10 DEF vars
  <2>2. FlagTypes'
    BY <1>1, <2>1 DEF FlagTypes, Places
  <2>3. Phases'
    BY <1>1, <2>1 DEF Phases
  <2>4. Reasons'
    BY <1>1, <2>1 DEF Reasons, Known, Phases
  <2> QED BY <2>1, <2>2, <2>3, <2>4, QuietKeeps
<1> QED BY <1>2, <1>3, <1>4, <1>5, <1>6, <1>7, <1>8, <1>9, <1>10

----------------------------------------------------------------------------
(***************************************************************************)
(* The server, and the beginning and the end of a run.                     *)
(***************************************************************************)
LEMMA ArriveKeeps ==
    ASSUME Inv, Arrive
    PROVE  Inv'
<1> USE DEF deliveryVars, runVars, loopVars
<1>1. /\ arrived' = arrived + 1 /\ arrived < Len(ServerLog)
      /\ UNCHANGED <<stored, seen, memory, sent, taken, consumed, committed, handling,
                     recorded, pollCursor>>
      /\ UNCHANGED <<session, stopRequested, processor, failure, errCh, pollDone, batch,
                     running, pc, result>>
  BY DEF Arrive
<1>2. Types'
  <2>1. running' \in BOOLEAN /\ pollDone' \in BOOLEAN /\ stopRequested' \in BOOLEAN
    BY <1>1 DEF Inv, Types
  <2>2. arrived' \in Nat /\ arrived' <= Len(ServerLog)
    BY <1>1, ServerAssumption DEF Inv, Types
  <2> QED BY <1>1, <2>1, <2>2 DEF Inv, Types
<1>3. Phases'
  BY <1>1 DEF Inv, Phases
<1>4. Chain'
  BY <1>1 DEF Inv, Chain, Slice, Following
<1>5. Recording'
  BY <1>1, RecordingFrame DEF Inv
<1>6. Identities'
  BY <1>1 DEF Inv, Identities, RecordedOnce
<1>7. Reasons'
  BY <1>1 DEF Inv, Reasons, Known
<1> QED BY <1>2, <1>3, <1>4, <1>5, <1>6, <1>7 DEF Inv

LEMMA LoadKeeps ==
    ASSUME Inv, Load
    PROVE  Inv'
<1> USE DEF outsideVars, loopVars
<1>1. /\ pc = "load" /\ pc' = "notifyStart" /\ memory' = seen /\ UNCHANGED result
      /\ UNCHANGED <<arrived, stored, seen, sent, taken, consumed, committed, handling,
                     recorded, pollCursor>>
      /\ UNCHANGED <<session, stopRequested, processor, failure, errCh, pollDone, batch,
                     running>>
  BY DEF Load, LoadedReplay, Goto
<1>2. Types'
  <2>1. running' \in BOOLEAN /\ pollDone' \in BOOLEAN /\ stopRequested' \in BOOLEAN
    BY <1>1 DEF Inv, Types
  <2> QED BY <1>1, <2>1 DEF Inv, Types, Places
<1>3. Phases'
  BY <1>1 DEF Inv, Phases
<1>4. Chain'
  BY <1>1 DEF Inv, Chain, Slice, Following
<1>5. Recording'
  BY <1>1, RecordingFrame DEF Inv
<1>6. Identities'
  BY <1>1 DEF Inv, Identities, RecordedOnce
<1>7. Reasons'
  BY <1>1 DEF Inv, Reasons, Known
<1> QED BY <1>2, <1>3, <1>4, <1>5, <1>6, <1>7 DEF Inv

LEMMA NotifyStartKeeps ==
    ASSUME Inv, NotifyStart
    PROVE  Inv'
<1> USE DEF outsideVars, deliveryVars, loopVars
<1>1. /\ pc = "notifyStart" /\ pc' = "poll" /\ pollCursor' = stored /\ UNCHANGED result
      /\ processor' = "running"
      /\ UNCHANGED <<arrived, stored, seen, memory, sent, taken, consumed, committed, handling,
                     recorded>>
      /\ UNCHANGED <<session, stopRequested, failure, errCh, pollDone, batch, running>>
  BY DEF NotifyStart, Goto
<1>2. processor = "none" /\ sent = <<>> /\ Len(sent) = 0 /\ taken = 0 /\ committed = 0
  BY <1>1 DEF Inv, Phases, Types
<1>3. Types'
  <2>1. running' \in BOOLEAN /\ pollDone' \in BOOLEAN /\ stopRequested' \in BOOLEAN
    BY <1>1 DEF Inv, Types
  <2> QED BY <1>1, <2>1 DEF Inv, Types, Places
<1>4. Phases'
  BY <1>1, <1>2 DEF Inv, Phases
<1>5. Chain'
  BY <1>1, <1>2 DEF Inv, Chain, Following, Types
<1>6. Recording'
  BY <1>1, RecordingFrame DEF Inv
<1>7. Identities'
  BY <1>1 DEF Inv, Identities, RecordedOnce
<1>8. Reasons'
  BY <1>1, <1>2 DEF Inv, Reasons, Known
<1> QED BY <1>3, <1>4, <1>5, <1>6, <1>7, <1>8 DEF Inv

LEMMA ForgetKeeps ==
    ASSUME Inv, Forget, running' = FALSE
    PROVE  Inv'
<1>1. /\ pc' = "idle" /\ pollCursor' = 0 /\ sent' = <<>> /\ Len(sent') = 0 /\ taken' = 0
      /\ consumed' = {} /\ committed' = 0 /\ handling' = {} /\ failure' = "none"
      /\ processor' = "none" /\ errCh' = "none"
      /\ session' \in {"ready", session}
      /\ UNCHANGED <<arrived, stored, seen, recorded>>
  BY ServerAssumption DEF Forget
<1>2. pollDone' = FALSE /\ stopRequested' = FALSE
  BY DEF Forget
<1>3. Types'
  <2>1. running' \in BOOLEAN /\ pollDone' \in BOOLEAN /\ stopRequested' \in BOOLEAN
    BY <1>2
  <2>2. sent' \in Seq(Answers)
    BY <1>1
  <2> QED BY <1>1, <2>1, <2>2 DEF Inv, Types, Places
<1>4. Phases'
  BY <1>1 DEF Phases
<1>5. Chain'
  BY <1>1 DEF Chain
<1>6. Recording'
  BY <1>1 DEF Inv, Recording, NothingLost
<1>7. Identities'
  BY <1>1 DEF Inv, Identities, RecordedOnce
<1>8. Reasons'
  BY <1>1, <1>2 DEF Reasons
<1> QED BY <1>3, <1>4, <1>5, <1>6, <1>7, <1>8 DEF Inv

----------------------------------------------------------------------------
(***************************************************************************)
(* Batches: the answers of the server follow each other.                   *)
(***************************************************************************)
LEMMA NewsIsSlice ==
    ASSUME Types, NEW to \in pollCursor..arrived, NEW buf \in {to, NoCursor}
    PROVE  LET b == [messages |-> SubSeq(ServerLog, pollCursor + 1, to),
                     cursor |-> NextCursor(buf), first |-> pollCursor + 1]
           IN  b \in Answers /\ Slice(b)
<1> DEFINE news == SubSeq(ServerLog, pollCursor + 1, to)
           b == [messages |-> news, cursor |-> NextCursor(buf), first |-> pollCursor + 1]
<1>1. /\ pollCursor \in Nat /\ to \in Nat /\ pollCursor <= to /\ to <= Len(ServerLog)
      /\ Len(ServerLog) \in Nat /\ ServerLog \in Seq(Wires)
  BY ServerAssumption DEF Types
<1>2. /\ pollCursor + 1 \in 1..(Len(ServerLog) + 1)
      /\ to \in (pollCursor + 1 - 1)..Len(ServerLog)
  BY <1>1
<1>3. /\ news \in Seq(Wires) /\ Len(news) = to - (pollCursor + 1) + 1
      /\ \A k \in 1..(to - (pollCursor + 1) + 1) : news[k] = ServerLog[pollCursor + 1 + k - 1]
  BY <1>1, <1>2, SubSeqProperties
<1>4. Len(news) = to - pollCursor
  BY <1>1, <1>3
<1>5. NextCursor(buf) \in {pollCursor, to}
  BY <1>1, ServerAssumption DEF NextCursor
<1>6. b.messages = news /\ b.cursor = NextCursor(buf) /\ b.first = pollCursor + 1
  OBVIOUS
<1> HIDE DEF news
<1>7. b \in Answers
  BY <1>1, <1>3, <1>5 DEF Answers
<1> HIDE DEF b
<1>8. b.cursor \in {b.first - 1, b.first - 1 + Len(b.messages)}
  BY <1>1, <1>4, <1>5, <1>6
<1>9. ASSUME NEW k \in 1..Len(b.messages)
      PROVE  b.first + k - 1 \in Positions /\ b.messages[k] = ServerLog[b.first + k - 1]
  <2>1. k \in 1..(to - (pollCursor + 1) + 1) /\ k \in 1..(to - pollCursor)
    BY <1>1, <1>3, <1>4, <1>6, <1>9
  <2>2. b.first + k - 1 = pollCursor + 1 + k - 1 /\ b.first + k - 1 \in 1..Len(ServerLog)
    BY <1>1, <1>6, <2>1
  <2> QED BY <1>3, <1>6, <2>1, <2>2 DEF Positions
<1>10. Slice(b)
  BY <1>1, <1>6, <1>8, <1>9 DEF Slice
<1> QED BY <1>7, <1>10 DEF b, news

LEMMA AnswerKeeps ==
    ASSUME Inv, NEW to \in pollCursor..arrived, NEW buf \in {to, NoCursor}, Answer(to, buf)
    PROVE  Inv'
<1> USE DEF deliveryVars, store
<1> DEFINE b == [messages |-> SubSeq(ServerLog, pollCursor + 1, to),
                 cursor |-> NextCursor(buf), first |-> pollCursor + 1]
<1>1. /\ pc = "request" /\ UNCHANGED result
      /\ \/ pc' = "send" /\ batch' = b
         \/ pc' = "poll"
      /\ UNCHANGED <<arrived, stored, seen, memory, sent, taken, consumed, committed, handling,
                     recorded, pollCursor>>
      /\ UNCHANGED <<session, stopRequested, processor, failure, errCh, pollDone, running>>
  BY DEF Answer, Goto
<1>2. b \in Answers /\ Slice(b) /\ b.first = pollCursor + 1
  BY NewsIsSlice DEF Inv
<1> HIDE DEF b
<1>3. Types'
  <2>1. running' \in BOOLEAN /\ pollDone' \in BOOLEAN /\ stopRequested' \in BOOLEAN
    BY <1>1 DEF Inv, Types
  <2> QED BY <1>1, <1>2, <2>1 DEF Inv, Types, Places
<1>4. Phases'
  BY <1>1 DEF Inv, Phases
<1>5. Chain'
  BY <1>1, <1>2 DEF Inv, Chain, Slice, Following
<1>6. Recording'
  BY <1>1, RecordingFrame DEF Inv
<1>7. Identities'
  BY <1>1 DEF Inv, Identities, RecordedOnce
<1>8. Reasons'
  BY <1>1 DEF Inv, Reasons, Known
<1> QED BY <1>3, <1>4, <1>5, <1>6, <1>7, <1>8 DEF Inv

\* A batch that is appended leaves the jobs of the earlier ones as they are.
LEMMA OldJobs ==
    ASSUME Types, batch \in Answers, sent' = Append(sent, batch),
           NEW j \in Job, j[1] <= Len(sent)
    PROVE  /\ sent'[j[1]] = sent[j[1]]
           /\ D!Accepted(j)' <=> D!Accepted(j)
           /\ D!Decodable(j)' <=> D!Decodable(j)
           /\ D!MessageAt(j)' = D!MessageAt(j)
           /\ Wire(j)' = Wire(j) /\ Position(j)' = Position(j)
<1>1. j[1] \in Nat /\ j[1] >= 1 /\ sent \in Seq(Answers) /\ Len(sent) \in Nat
  BY BoundsAssumption DEF Job, Types
<1>2. Len(sent') = Len(sent) + 1 /\ sent'[j[1]] = sent[j[1]]
  BY <1>1, AppendProperties
<1>3. j[1] <= Len(sent')
  BY <1>1, <1>2
<1> QED BY <1>2, <1>3 DEF D!Accepted, D!Decodable, D!MessageAt, Wire, Position

LEMMA SendKeeps ==
    ASSUME Inv, Send
    PROVE  Inv'
<1> USE DEF outsideVars, deliveryVars
<1>1. /\ pc = "send" /\ pc' = "poll" /\ UNCHANGED result
      /\ sent' = Append(sent, batch) /\ pollCursor' = batch.cursor
      /\ UNCHANGED <<arrived, stored, seen, memory, taken, consumed, committed, handling,
                     recorded>>
      /\ UNCHANGED <<session, stopRequested, processor, failure, errCh, pollDone, running>>
  BY DEF Send, Goto
<1>2. /\ batch \in Answers /\ batch.cursor \in Nat /\ Slice(batch)
      /\ batch.first = pollCursor + 1 /\ processor # "none" /\ Types
  BY <1>1 DEF Inv, Types, Chain, Phases, Answers
<1>3. /\ sent \in Seq(Answers) /\ Len(sent) \in Nat /\ sent' \in Seq(Answers)
      /\ Len(sent') = Len(sent) + 1 /\ sent'[Len(sent) + 1] = batch
      /\ \A i \in 1..Len(sent) : sent'[i] = sent[i]
  <2>1. sent \in Seq(Answers) /\ Len(sent) \in Nat
    BY <1>2 DEF Types
  <2> QED BY <1>1, <1>2, <2>1, AppendProperties
<1>4. Types'
  <2>1. running' \in BOOLEAN /\ pollDone' \in BOOLEAN /\ stopRequested' \in BOOLEAN
    BY <1>1 DEF Inv, Types
  <2>2. taken' <= Len(sent')
    BY <1>1, <1>3 DEF Inv, Types
  <2> QED BY <1>1, <1>2, <1>3, <2>1, <2>2 DEF Inv, Types, Places
<1>5. Phases'
  BY <1>1, <1>2 DEF Inv, Phases
<1>6. Chain'
  <2>1. ASSUME NEW n \in 0..Len(sent)
        PROVE  Following(n)' = Following(n)
    <3>1. n < Len(sent') /\ Following(n)' = sent'[n + 1].first
      BY <1>3 DEF Following
    <3>2. CASE n < Len(sent)
      BY <1>3, <3>1, <3>2 DEF Following
    <3>3. CASE n = Len(sent)
      BY <1>2, <1>3, <3>1, <3>3 DEF Following
    <3> QED BY <1>3, <3>2, <3>3
  <2>2. ASSUME NEW i \in 1..Len(sent')
        PROVE  Slice(sent'[i]) /\ Following(i)' = sent'[i].cursor + 1
    <3>1. CASE i \in 1..Len(sent)
      <4>1. Slice(sent[i]) /\ Following(i) = sent[i].cursor + 1 /\ sent'[i] = sent[i]
        BY <1>3, <3>1 DEF Inv, Chain
      <4> QED BY <1>3, <2>1, <3>1, <4>1
    <3>2. CASE i = Len(sent) + 1
      BY <1>1, <1>2, <1>3, <3>2 DEF Following
    <3> QED BY <1>3, <2>2, <3>1, <3>2
  <2>3. Following(committed)' = stored' + 1
    <3>1. committed \in 0..Len(sent) /\ committed' = committed /\ stored' = stored
      BY <1>1, <1>3 DEF Inv, Types
    <3>2. Following(committed) = stored + 1
      BY <1>2 DEF Inv, Chain
    <3>3. Following(committed)' = Following(committed)
      <4>1. Following(committed)' = (IF committed < Len(sent') THEN sent'[committed + 1].first
                                     ELSE pollCursor' + 1)
        BY <3>1 DEF Following
      <4> QED BY <1>2, <1>3, <3>1, <4>1 DEF Following
    <3> QED BY <3>1, <3>2, <3>3
  <2> QED BY <1>1, <2>2, <2>3 DEF Chain, Slice
<1>7. Recording'
  <2>1. NothingLost'
    BY <1>1 DEF Inv, Recording, NothingLost
  <2>2. ASSUME NEW j \in consumed'
        PROVE  (D!Accepted(j) /\ recorded[Position(j)] >= 1)'
    <3>1. j \in Job /\ D!Accepted(j) /\ recorded[Position(j)] >= 1 /\ j[1] <= Len(sent)
      BY <1>1, <1>2, <2>2 DEF Inv, Recording, Types, D!Accepted
    <3> QED BY <1>1, <1>2, <3>1, OldJobs
  <2>3. ASSUME NEW j \in handling'
        PROVE  (/\ D!Decodable(j) /\ D!Turn(j) /\ j \notin consumed
                /\ ReplayKeys(Wire(j)) # {} => recorded[Position(j)] = 0)'
    <3>1. /\ j \in Job /\ D!Decodable(j) /\ D!Turn(j) /\ j \notin consumed /\ j[1] <= Len(sent)
          /\ ReplayKeys(Wire(j)) # {} => recorded[Position(j)] = 0
      BY <1>1, <1>2, <2>3 DEF Inv, Recording, Types, D!Accepted, D!Decodable
    <3>2. ASSUME NEW i \in Job, D!Decodable(i)', Before(i, j), D!SameConversation(i, j)'
          PROVE  i \in consumed'
      <4>1. i[1] <= Len(sent)
        BY <1>3, <3>1, <3>2, BoundsAssumption DEF Before, Job
      <4>2. D!Decodable(i) /\ D!MessageAt(i)' = D!MessageAt(i)
        BY <1>1, <1>2, <3>2, <4>1, OldJobs
      <4>3. D!MessageAt(j)' = D!MessageAt(j)
        BY <1>1, <1>2, <3>1, OldJobs
      <4>4. D!SameConversation(i, j)
        BY <3>2, <4>2, <4>3 DEF D!SameConversation
      <4> QED BY <1>1, <3>1, <3>2, <4>2, <4>4 DEF D!Turn, D!Job, D!Before, Job, Before
    <3>3. D!Turn(j)'
      BY <3>2 DEF D!Turn, D!Job, D!Before, Job, Before
    <3> QED BY <1>1, <1>2, <3>1, <3>3, OldJobs
  <2> QED BY <2>1, <2>2, <2>3 DEF Recording
<1>8. Identities'
  BY <1>1 DEF Inv, Identities, RecordedOnce
<1>9. Reasons'
  BY <1>1 DEF Inv, Reasons, Known
<1> QED BY <1>4, <1>5, <1>6, <1>7, <1>8, <1>9 DEF Inv

----------------------------------------------------------------------------
(***************************************************************************)
(* Deliveries.                                                             *)
(***************************************************************************)
loop == <<arrived, sent, pollCursor, batch, pc, running, pollDone, session, stopRequested,
          processor, errCh, result>>

LEMMA DeliveryKeeps ==
    ASSUME Inv, processor = "running", UNCHANGED loop,
           stored' \in Nat, taken' \in Nat, taken' <= Len(sent),
           committed' \in Nat, committed' <= taken',
           consumed' \subseteq Job, handling' \subseteq Job, recorded' \in [Positions -> Nat],
           Following(committed)' = stored' + 1, Recording', Identities'
    PROVE  Inv'
<1>1. UNCHANGED <<arrived, sent, pollCursor, batch, pc, session, processor, errCh, result>>
  BY DEF loop
<1>2. UNCHANGED <<running, pollDone, stopRequested>>
  BY DEF loop
<1>3. Types'
  <2>1. running' \in BOOLEAN /\ pollDone' \in BOOLEAN /\ stopRequested' \in BOOLEAN
    BY <1>2 DEF Inv, Types
  <2> QED BY <1>1, <2>1 DEF Inv, Types
<1>4. Phases'
  BY <1>1, <1>2 DEF Inv, Phases
<1>5. Chain'
  BY <1>1 DEF Inv, Chain, Slice, Following
<1>6. Reasons'
  BY <1>1, <1>2 DEF Inv, Reasons, Known
<1> QED BY <1>3, <1>4, <1>5, <1>6 DEF Inv

LEMMA StrongestIsKey ==
    ASSUME NEW w, ReplayKeys(w) # {}
    PROVE  StrongestKey(w) \in ReplayKeys(w)
<1>1. /\ PeerUserID(w) # NoUser
      /\ ReplayKeys(w) = {<<PeerUserID(w), kind, Identity(w, kind)>> :
                             kind \in {k \in IdentityKinds : Identity(w, k) # NoID}}
  BY DEF ReplayKeys
<1>2. PICK k \in IdentityKinds : Identity(w, k) # NoID
  BY <1>1
<1>3. StrongestKind(w) \in IdentityKinds /\ Identity(w, StrongestKind(w)) # NoID
  BY <1>2 DEF StrongestKind, IdentityKinds, Identity
<1> QED BY <1>1, <1>3 DEF StrongestKey

\* A job is a message of the server's log.
LEMMA JobPlace ==
    ASSUME Types, Chain, NEW j \in Job, D!Accepted(j)
    PROVE  /\ Position(j) \in Positions /\ Wire(j) = ServerLog[Position(j)]
           /\ D!MessageAt(j) = Wire(j)
<1>1. j[1] \in 1..Len(sent) /\ j[2] \in 1..Len(sent[j[1]].messages)
  BY BoundsAssumption DEF Job, D!Accepted, Types
<1>2. Slice(sent[j[1]])
  BY <1>1 DEF Chain
<1> QED BY <1>1, <1>2 DEF Slice, Position, Wire, D!MessageAt

\* Of two jobs of one conversation only one can have its turn.
LEMMA OneTurn ==
    ASSUME NEW i \in Job, NEW j \in Job, D!Decodable(i), D!Decodable(j), D!Turn(i), D!Turn(j),
           i \notin consumed, j \notin consumed, D!MessageAt(i) = D!MessageAt(j)
    PROVE  i = j
<1>1. D!SameConversation(i, j) /\ D!SameConversation(j, i)
  BY DEF D!SameConversation
<1>2. ~Before(i, j) /\ ~Before(j, i)
  BY <1>1 DEF D!Turn, D!Job, D!Before, Job, Before
<1> QED BY <1>2, BoundsAssumption DEF Before, Job

LEMMA TakeBatchKeeps ==
    ASSUME Inv, TakeBatch
    PROVE  Inv'
<1> USE DEF outsideVars, runVars, loopVars, loop
<1>1. /\ taken' = taken + 1 /\ taken < Len(sent) /\ processor = "running" /\ UNCHANGED loop
      /\ UNCHANGED <<stored, seen, memory, consumed, committed, handling, recorded>>
  BY DEF TakeBatch, Working
<1>2. /\ stored' \in Nat /\ taken' \in Nat /\ taken' <= Len(sent) /\ committed' \in Nat
      /\ committed' <= taken' /\ consumed' \subseteq Job /\ handling' \subseteq Job
      /\ recorded' \in [Positions -> Nat]
  BY <1>1 DEF Inv, Types
<1>3. Following(committed)' = stored' + 1
  BY <1>1 DEF Inv, Chain, Following
<1>4. Recording'
  BY <1>1, RecordingFrame DEF Inv
<1>5. Identities'
  BY <1>1 DEF Inv, Identities, RecordedOnce
<1> QED BY <1>1, <1>2, <1>3, <1>4, <1>5, DeliveryKeeps

LEMMA HandleKeeps ==
    ASSUME Inv, NEW j \in Job, Handle(j)
    PROVE  Inv'
<1> USE DEF outsideVars, runVars, loopVars, loop
<1>1. /\ processor = "running" /\ UNCHANGED loop /\ handling' = handling \cup {j}
      /\ UNCHANGED <<stored, seen, memory, taken, consumed, committed, recorded>>
  BY DEF Handle, MayStart, Working
<1>2. D!Decodable(j) /\ D!Turn(j) /\ j \notin consumed /\ ~Replayed(Wire(j))
  BY DEF Handle, MayStart
<1>3. /\ stored' \in Nat /\ taken' \in Nat /\ taken' <= Len(sent) /\ committed' \in Nat
      /\ committed' <= taken' /\ consumed' \subseteq Job /\ handling' \subseteq Job
      /\ recorded' \in [Positions -> Nat]
  BY <1>1 DEF Inv, Types
<1>4. Following(committed)' = stored' + 1
  BY <1>1 DEF Inv, Chain, Following
<1>5. ReplayKeys(Wire(j)) # {} => recorded[Position(j)] = 0
  <2> SUFFICES ASSUME ReplayKeys(Wire(j)) # {} PROVE recorded[Position(j)] = 0
    OBVIOUS
  <2>1. Position(j) \in Positions /\ Wire(j) = ServerLog[Position(j)]
    BY <1>2, JobPlace DEF Inv, D!Decodable
  <2>2. StrongestKey(Wire(j)) \in ReplayKeys(Wire(j)) /\ StrongestKey(Wire(j)) \notin seen
    BY <1>1, <1>2, StrongestIsKey DEF Replayed, Inv, Identities
  <2>3. ~(recorded[Position(j)] >= 1)
    BY <2>1, <2>2 DEF Inv, Identities
  <2> QED BY <2>1, <2>3 DEF Inv, Types
<1>6. Recording'
  <2>1. sent' = sent /\ consumed' = consumed /\ recorded' = recorded /\ stored' = stored
    BY <1>1
  <2>2. ASSUME NEW i \in handling'
        PROVE  /\ D!Decodable(i) /\ D!Turn(i) /\ i \notin consumed
               /\ ReplayKeys(Wire(i)) # {} => recorded[Position(i)] = 0
    BY <1>1, <1>2, <1>5, <2>2 DEF Inv, Recording
  <2>3. \A i : (D!Decodable(i)' <=> D!Decodable(i)) /\ (D!Turn(i)' <=> D!Turn(i))
               /\ Wire(i)' = Wire(i) /\ Position(i)' = Position(i)
               /\ (D!Accepted(i)' <=> D!Accepted(i))
    BY <2>1 DEF D!Turn, D!Decodable, D!Accepted, D!MessageAt, D!SameConversation, Wire,
                Position
  <2> QED BY <2>1, <2>2, <2>3 DEF Inv, Recording, NothingLost
<1>7. Identities'
  BY <1>1 DEF Inv, Identities, RecordedOnce
<1> QED BY <1>1, <1>3, <1>4, <1>6, <1>7, DeliveryKeeps

LEMMA DeliveryFailsKeeps ==
    ASSUME Inv, NEW j \in Job, DeliveryFails(j)
    PROVE  Inv'
<1> USE DEF outsideVars, runVars, loopVars, loop
<1>1. /\ j \in handling /\ UNCHANGED loop /\ handling' = handling \ {j}
      /\ UNCHANGED <<stored, seen, memory, taken, consumed, committed, recorded>>
  BY DEF DeliveryFails
<1>2. processor = "running"
  BY <1>1 DEF Inv, Phases
<1>3. /\ stored' \in Nat /\ taken' \in Nat /\ taken' <= Len(sent) /\ committed' \in Nat
      /\ committed' <= taken' /\ consumed' \subseteq Job /\ handling' \subseteq Job
      /\ recorded' \in [Positions -> Nat]
  BY <1>1 DEF Inv, Types
<1>4. Following(committed)' = stored' + 1
  BY <1>1, <1>2 DEF Inv, Chain, Following
<1>5. Recording'
  <2>1. sent' = sent /\ consumed' = consumed /\ recorded' = recorded /\ stored' = stored
    BY <1>1
  <2>3. \A i : (D!Decodable(i)' <=> D!Decodable(i)) /\ (D!Turn(i)' <=> D!Turn(i))
               /\ Wire(i)' = Wire(i) /\ Position(i)' = Position(i)
               /\ (D!Accepted(i)' <=> D!Accepted(i))
    BY <2>1 DEF D!Turn, D!Decodable, D!Accepted, D!MessageAt, D!SameConversation, Wire,
                Position
  <2> QED BY <1>1, <2>1, <2>3 DEF Inv, Recording, NothingLost
<1>6. Identities'
  BY <1>1 DEF Inv, Identities, RecordedOnce
<1> QED BY <1>1, <1>2, <1>3, <1>4, <1>5, <1>6, DeliveryKeeps

\* While no batch is sent the jobs stay as they are, and a turn is not lost.
LEMMA SameJobs ==
    ASSUME sent' = sent, consumed \subseteq consumed', NEW i
    PROVE  /\ D!Accepted(i)' <=> D!Accepted(i)
           /\ D!Decodable(i)' <=> D!Decodable(i)
           /\ D!Turn(i) => D!Turn(i)'
           /\ Wire(i)' = Wire(i) /\ Position(i)' = Position(i)
BY DEF D!Turn, D!Decodable, D!Accepted, D!MessageAt, D!SameConversation, Wire, Position

LEMMA SkipKeeps ==
    ASSUME Inv, NEW j \in Job, Skip(j)
    PROVE  Inv'
<1> USE DEF outsideVars, runVars, loopVars, loop
<1>1. /\ processor = "running" /\ UNCHANGED loop /\ consumed' = consumed \cup {j}
      /\ UNCHANGED <<stored, seen, memory, taken, handling, committed, recorded>>
  BY DEF Skip, MayStart, Working, D!Consume
<1>2. D!Decodable(j) /\ j \notin handling /\ Replayed(Wire(j))
  BY DEF Skip, MayStart
<1>3. /\ stored' \in Nat /\ taken' \in Nat /\ taken' <= Len(sent) /\ committed' \in Nat
      /\ committed' <= taken' /\ consumed' \subseteq Job /\ handling' \subseteq Job
      /\ recorded' \in [Positions -> Nat]
  BY <1>1 DEF Inv, Types
<1>4. Following(committed)' = stored' + 1
  BY <1>1 DEF Inv, Chain, Following
<1>5. D!Accepted(j) /\ recorded[Position(j)] >= 1
  <2>1. D!Accepted(j) /\ Position(j) \in Positions /\ Wire(j) = ServerLog[Position(j)]
    BY <1>2, JobPlace DEF Inv, D!Decodable
  <2>2. ReplayKeys(Wire(j)) # {} /\ StrongestKey(Wire(j)) \in seen
    BY <1>1, <1>2 DEF Replayed, Inv, Identities
  <2>3. PICK m \in Positions :
            recorded[m] >= 1 /\ StrongestKey(Wire(j)) \in ReplayKeys(ServerLog[m])
    BY <2>2 DEF Inv, Identities
  <2>4. m = Position(j)
    BY <2>1, <2>2, <2>3, IdentitiesAssumption DEF Positions
  <2> QED BY <2>1, <2>3, <2>4
<1>6. Recording'
  <2>1. /\ sent' = sent /\ consumed \subseteq consumed' /\ recorded' = recorded
        /\ stored' = stored /\ handling' = handling
    BY <1>1
  <2>2. ASSUME NEW i \in consumed'
        PROVE  (D!Accepted(i) /\ recorded[Position(i)] >= 1)'
    <3>1. D!Accepted(i) /\ recorded[Position(i)] >= 1
      BY <1>1, <1>5, <2>2 DEF Inv, Recording
    <3> QED BY <2>1, <3>1, SameJobs
  <2>3. ASSUME NEW i \in handling'
        PROVE  (/\ D!Decodable(i) /\ D!Turn(i) /\ i \notin consumed
                /\ ReplayKeys(Wire(i)) # {} => recorded[Position(i)] = 0)'
    <3>1. /\ D!Decodable(i) /\ D!Turn(i) /\ i \notin consumed
          /\ ReplayKeys(Wire(i)) # {} => recorded[Position(i)] = 0
      BY <2>1, <2>3 DEF Inv, Recording
    <3>2. i \notin consumed'
      BY <1>1, <1>2, <2>3, <3>1
    <3> QED BY <2>1, <3>1, <3>2, SameJobs
  <2> QED BY <2>1, <2>2, <2>3 DEF Inv, Recording, NothingLost
<1>7. Identities'
  BY <1>1 DEF Inv, Identities, RecordedOnce
<1> QED BY <1>1, <1>3, <1>4, <1>6, <1>7, DeliveryKeeps

LEMMA RecordKeeps ==
    ASSUME Inv, NEW j \in Job, Record(j)
    PROVE  Inv'
<1> USE DEF outsideVars, runVars, loopVars, loop
<1> DEFINE p == Position(j)
<1>1. /\ UNCHANGED loop /\ consumed' = consumed \cup {j} /\ handling' = handling \ {j}
      /\ UNCHANGED <<stored, taken, committed>>
      /\ seen' = memory \cup ReplayKeys(Wire(j)) /\ memory' = seen'
      /\ j \in handling /\ recorded' = [recorded EXCEPT ![p] = @ + 1]
  BY DEF Record, D!Consume
<1>2. processor = "running"
  BY <1>1 DEF Inv, Phases
<1>3. /\ D!Decodable(j) /\ D!Turn(j) /\ j \notin consumed /\ D!Accepted(j)
      /\ ReplayKeys(Wire(j)) # {} => recorded[p] = 0
  BY <1>1 DEF Inv, Recording, D!Decodable
<1>4. p \in Positions /\ Wire(j) = ServerLog[p] /\ D!MessageAt(j) = Wire(j)
  BY <1>3, JobPlace DEF Inv
<1> HIDE DEF p
<1>5. /\ recorded' \in [Positions -> Nat] /\ recorded'[p] = recorded[p] + 1
      /\ \A m \in Positions : m # p => recorded'[m] = recorded[m]
      /\ \A m \in Positions : recorded[m] >= 1 => recorded'[m] >= 1
      /\ recorded'[p] >= 1 /\ recorded \in [Positions -> Nat]
  BY <1>1, <1>4 DEF Inv, Types
<1>6. /\ stored' \in Nat /\ taken' \in Nat /\ taken' <= Len(sent) /\ committed' \in Nat
      /\ committed' <= taken' /\ consumed' \subseteq Job /\ handling' \subseteq Job
  BY <1>1 DEF Inv, Types
<1>7. Following(committed)' = stored' + 1
  BY <1>1, <1>2 DEF Inv, Chain, Following
<1>8. Recording'
  <2>1. sent' = sent /\ consumed \subseteq consumed' /\ stored' = stored
    BY <1>1
  <2>2. NothingLost'
    <3>1. ASSUME NEW m \in 1..stored
          PROVE  recorded'[m] >= 1
      <4>1. recorded[m] >= 1
        BY <3>1 DEF Inv, Recording, NothingLost
      <4>2. CASE m \in Positions
        BY <1>5, <4>1, <4>2
      <4>3. CASE m \notin Positions
        BY <1>1, <1>4, <4>1, <4>3, <1>5
      <4> QED BY <4>2, <4>3
    <3> QED BY <2>1, <3>1 DEF NothingLost
  <2>3. ASSUME NEW i \in consumed'
        PROVE  (D!Accepted(i) /\ recorded[Position(i)] >= 1)'
    <3>1. CASE i = j
      <4>1. (D!Accepted(j))' /\ Position(j)' = p
        BY <1>3, <2>1, SameJobs DEF p
      <4> QED BY <1>5, <3>1, <4>1
    <3>2. CASE i # j
      <4>1. i \in Job /\ D!Accepted(i) /\ recorded[Position(i)] >= 1
        BY <1>1, <2>3, <3>2 DEF Inv, Recording, Types
      <4>2. Position(i) \in Positions
        BY <4>1, JobPlace DEF Inv
      <4>3. (D!Accepted(i))' /\ Position(i)' = Position(i)
        BY <2>1, <4>1, SameJobs
      <4> QED BY <1>5, <4>1, <4>2, <4>3
    <3> QED BY <3>1, <3>2
  <2>4. ASSUME NEW i \in handling'
        PROVE  (/\ D!Decodable(i) /\ D!Turn(i) /\ i \notin consumed
                /\ ReplayKeys(Wire(i)) # {} => recorded[Position(i)] = 0)'
    <3>1. /\ i \in Job /\ i # j /\ D!Decodable(i) /\ D!Turn(i) /\ i \notin consumed
          /\ ReplayKeys(Wire(i)) # {} => recorded[Position(i)] = 0
          /\ D!Accepted(i)
      BY <1>1, <2>4 DEF Inv, Recording, Types, D!Decodable
    <3>2. /\ Position(i) \in Positions /\ Wire(i) = ServerLog[Position(i)]
          /\ D!MessageAt(i) = Wire(i)
      BY <3>1, JobPlace DEF Inv
    <3>3. Position(i) # p
      BY <1>3, <1>4, <3>1, <3>2, OneTurn
    <3>4. i \notin consumed'
      BY <1>1, <3>1
    <3>5. recorded'[Position(i)] = recorded[Position(i)]
      BY <1>5, <3>2, <3>3
    <3>6. /\ (D!Decodable(i))' /\ (D!Turn(i))' /\ Wire(i)' = Wire(i)
          /\ Position(i)' = Position(i)
      BY <2>1, <3>1, SameJobs
    <3> QED BY <3>1, <3>4, <3>5, <3>6
  <2> QED BY <2>2, <2>3, <2>4 DEF Recording
<1>9. Identities'
  <2>1. memory = seen /\ seen \subseteq seen' /\ ReplayKeys(ServerLog[p]) \subseteq seen'
    BY <1>1, <1>2, <1>4 DEF Inv, Identities
  <2>2. RecordedOnce'
    <3>1. ASSUME NEW m \in Positions, ReplayKeys(ServerLog[m]) # {}
          PROVE  recorded'[m] <= 1
      <4>1. CASE m = p
        BY <1>3, <1>4, <1>5, <3>1, <4>1
      <4>2. CASE m # p
        <5>1. recorded[m] <= 1
          BY <3>1 DEF Inv, Identities, RecordedOnce
        <5> QED BY <1>5, <4>2, <5>1
      <4> QED BY <4>1, <4>2
    <3> QED BY <3>1 DEF RecordedOnce
  <2>3. ASSUME NEW k \in seen'
        PROVE  \E m \in Positions : recorded'[m] >= 1 /\ k \in ReplayKeys(ServerLog[m])
    <3>1. CASE k \in ReplayKeys(ServerLog[p])
      BY <1>4, <1>5, <3>1
    <3>2. CASE k \in seen
      <4>1. PICK m \in Positions : recorded[m] >= 1 /\ k \in ReplayKeys(ServerLog[m])
        BY <3>2 DEF Inv, Identities
      <4> QED BY <1>5, <4>1
    <3> QED BY <1>1, <1>4, <2>1, <2>3, <3>1, <3>2
  <2>4. ASSUME NEW m \in Positions, recorded'[m] >= 1
        PROVE  ReplayKeys(ServerLog[m]) \subseteq seen'
    <3>1. CASE m = p
      BY <2>1, <3>1
    <3>2. CASE m # p
      <4>1. ReplayKeys(ServerLog[m]) \subseteq seen
        BY <1>5, <2>4, <3>2 DEF Inv, Identities
      <4> QED BY <2>1, <4>1
    <3> QED BY <3>1, <3>2
  <2> QED BY <1>1, <2>2, <2>3, <2>4 DEF Identities
<1> QED BY <1>1, <1>2, <1>5, <1>6, <1>7, <1>8, <1>9, DeliveryKeeps

LEMMA CommitKeeps ==
    ASSUME Inv, Commit
    PROVE  Inv'
<1> USE DEF outsideVars, runVars, loopVars, loop
<1> DEFINE b == sent[committed + 1]
<1>1. /\ processor = "running" /\ committed < taken /\ UNCHANGED loop
      /\ \A i \in 1..Len(b.messages) : <<committed + 1, i>> \in consumed
      /\ committed' = committed + 1
      /\ stored' = (IF b.cursor # NoCursor THEN b.cursor ELSE stored)
      /\ UNCHANGED <<seen, memory, taken, consumed, handling, recorded>>
  BY DEF Commit, D!Commit
<1>2. /\ committed \in Nat /\ committed + 1 \in 1..Len(sent) /\ Len(sent) \in Nat
      /\ sent \in Seq(Answers) /\ stored \in Nat
  BY <1>1 DEF Inv, Types
<1>3. b \in Answers /\ b.cursor \in Nat /\ b.first \in Nat /\ Len(b.messages) \in Nat
  <2>1. b \in Answers
    BY <1>2
  <2> QED BY <2>1 DEF Answers
<1>4. /\ b.first = stored + 1 /\ Slice(b)
      /\ Following(committed + 1) = b.cursor + 1
  <2>1. Slice(b) /\ Following(committed + 1) = b.cursor + 1
    BY <1>2 DEF Inv, Chain
  <2>2. Following(committed) = stored + 1 /\ Following(committed) = b.first
    BY <1>1, <1>2 DEF Inv, Chain, Following
  <2> QED BY <2>1, <2>2
<1>5. b.cursor \in {stored, stored + Len(b.messages)}
  BY <1>2, <1>3, <1>4 DEF Slice
<1>6. stored' = b.cursor
  BY <1>1, <1>2, <1>3, <1>5, ServerAssumption
<1>7. /\ stored' \in Nat /\ taken' \in Nat /\ taken' <= Len(sent) /\ committed' \in Nat
      /\ committed' <= taken' /\ consumed' \subseteq Job /\ handling' \subseteq Job
      /\ recorded' \in [Positions -> Nat]
  BY <1>1, <1>3, <1>6 DEF Inv, Types
<1>8. Following(committed)' = stored' + 1
  <2>1. Following(committed)' = Following(committed + 1)
    BY <1>1 DEF Following
  <2> QED BY <1>4, <1>6, <2>1
<1>9. NothingLost'
  <2>1. ASSUME NEW m \in 1..b.cursor
        PROVE  recorded[m] >= 1
    <3>1. CASE m <= stored
      BY <1>2, <1>3, <3>1 DEF Inv, Recording, NothingLost
    <3>2. CASE m > stored
      <4> DEFINE k == m - stored
                 j == <<committed + 1, k>>
      <4>1. k \in 1..Len(b.messages) /\ b.first + k - 1 = m
        BY <1>2, <1>3, <1>4, <1>5, <3>2, SMTT(30)
      <4>2. j \in consumed
        BY <1>1, <4>1
      <4>3. Position(j) = m
        BY <4>1 DEF Position
      <4> QED BY <4>2, <4>3 DEF Inv, Recording
    <3> QED BY <1>2, <1>3, <3>1, <3>2
  <2> QED BY <1>1, <1>6, <2>1 DEF NothingLost
<1>10. Recording'
  <2>1. /\ sent' = sent /\ consumed' = consumed /\ recorded' = recorded
        /\ handling' = handling
    BY <1>1
  <2>2. ASSUME NEW i \in consumed'
        PROVE  (D!Accepted(i) /\ recorded[Position(i)] >= 1)'
    BY <2>1, <2>2, SameJobs DEF Inv, Recording
  <2>3. ASSUME NEW i \in handling'
        PROVE  (/\ D!Decodable(i) /\ D!Turn(i) /\ i \notin consumed
                /\ ReplayKeys(Wire(i)) # {} => recorded[Position(i)] = 0)'
    BY <2>1, <2>3, SameJobs DEF Inv, Recording
  <2> QED BY <1>9, <2>2, <2>3 DEF Recording
<1>11. Identities'
  BY <1>1 DEF Inv, Identities, RecordedOnce
<1> QED BY <1>1, <1>7, <1>8, <1>10, <1>11, DeliveryKeeps

----------------------------------------------------------------------------
(***************************************************************************)
(* Theorems.                                                               *)
(***************************************************************************)
LEMMA InvNext == Inv /\ [Next]_vars => Inv'
<1> SUFFICES ASSUME Inv, [Next]_vars PROVE Inv'
  OBVIOUS
<1>1. CASE UNCHANGED vars
  BY <1>1, Interrupts
<1>2. CASE BeginRun \/ LoadFails \/ AnswerExpired
  BY <1>2, RunMoves
<1>3. CASE Run
  <2>1. CASE FinishRun
    BY <2>1, ForgetKeeps DEF FinishRun, RunningAfter
  <2> QED BY <1>3, <2>1, RunMoves, LoadKeeps, NotifyStartKeeps, SendKeeps DEF Run
<1>4. CASE \E to \in pollCursor..arrived : \E buf \in {to, NoCursor} : Answer(to, buf)
  BY <1>4, AnswerKeeps
<1>5. CASE Processor
  <2>1. ASSUME NEW j \in Job, Handle(j) \/ Skip(j) \/ Record(j) \/ DeliveryRefused(j)
        PROVE  Inv'
    <3>1. CASE DeliveryRefused(j)
      BY <3>1, Interrupts
    <3> QED BY <2>1, <3>1, HandleKeeps, SkipKeeps, RecordKeeps
  <2>2. CASE ProcessorReturns \/ ProcessorCancels
    BY <2>2, Interrupts
  <2> QED BY <1>5, <2>1, <2>2, TakeBatchKeeps, CommitKeeps DEF Processor
<1>6. CASE \E j \in Job : DeliveryFails(j)
  BY <1>6, DeliveryFailsKeeps
<1>7. CASE CommitFails \/ Stop \/ LoseSession \/ CancelPoll \/ Reauthenticate
  BY <1>7, Interrupts
<1>8. CASE Arrive
  BY <1>8, ArriveKeeps
<1>9. CASE Crash
  BY <1>9, ForgetKeeps DEF Crash
<1> QED BY <1>1, <1>2, <1>3, <1>4, <1>5, <1>6, <1>7, <1>8, <1>9 DEF Next

LEMMA Invariant == Spec => []Inv
BY InvInit, InvNext, PTL DEF Spec

\* At least once: whatever fails, is stopped or crashes, and however often Run is
\* called again, the stored cursor never passes a message whose handler did not
\* acknowledge or drop it.
THEOREM AtLeastOnce == Spec => []NothingLost
<1>1. Inv => NothingLost
  BY DEF Inv, Recording
<1> QED BY <1>1, Invariant, PTL

\* At most once: a message with an identity of its own is recorded once, although
\* the server sends it again in the same run or in a later one.
THEOREM AtMostOnce == Spec => []RecordedOnce
<1>1. Inv => RecordedOnce
  BY DEF Inv, Identities
<1> QED BY <1>1, Invariant, PTL

\* Run reports why it ended: nil only after Stop, and the error of a delivery
\* whichever goroutine noticed it first.
THEOREM EndsReported == Spec => []EndReported
<1>1. Inv => EndReported
  BY DEF Inv, Reasons, Phases, EndReported
<1> QED BY <1>1, Invariant, PTL

\* A run leaves no processor and no handler behind.
THEOREM NothingLeftBehind == Spec => []ProcessorGone
<1>1. Inv => ProcessorGone
  BY DEF Inv, Phases, ProcessorGone
<1> QED BY <1>1, Invariant, PTL

----------------------------------------------------------------------------
(***************************************************************************)
(* Types: what Types leaves out.                                           *)
(***************************************************************************)

\* No cursor is ahead of the server.
Behind ==
    /\ stored <= arrived /\ pollCursor <= arrived
    /\ batch \in Answers \cup {NoBatch} /\ batch.cursor <= arrived
    /\ \A i \in 1..Len(sent) : sent[i].cursor <= arrived
    /\ Len(sent) - taken <= UpdateQueueCapacity

Kinds ==
    /\ memory \subseteq AllReplayKeys
    /\ retryDelay \in {1, 2, 4, 8, 10}
    /\ failure \in Errors \cup {"none"} /\ errCh \in Errors \cup {"none"}
    /\ result \subseteq Errors
    /\ faults \in 0..MaxFaults

LEMMA SeenTyped == ASSUME Inv PROVE seen \subseteq AllReplayKeys
<1> SUFFICES ASSUME NEW k \in seen PROVE k \in AllReplayKeys
  OBVIOUS
<1>1. PICK m \in Positions : k \in ReplayKeys(ServerLog[m])
  BY DEF Inv, Identities
<1>2. ServerLog[m] \in Wires
  BY ServerAssumption DEF Positions
<1> QED BY <1>1, <1>2 DEF AllReplayKeys

LEMMA SessionErrors == ASSUME Inv, Kinds PROVE SessionErr \subseteq Errors /\ InChannel \subseteq Errors
BY DEF Inv, Types, Kinds, SessionErr, InChannel, Errors

LEMMA KindsNext == ASSUME Inv, Inv', Kinds, [Next]_vars PROVE Kinds'
<1> USE DEF outsideVars, deliveryVars, runVars, loopVars
<1>0. /\ SessionErr \subseteq Errors /\ InChannel \subseteq Errors /\ seen \subseteq AllReplayKeys
      /\ seen' \subseteq AllReplayKeys /\ MaxFaults \in Nat
      /\ {"load", "reauth", "transport", "delivery", "changed"} \subseteq Errors
      /\ session \in {"ready", "reauth", "changed"}
  <2>1. seen' \subseteq AllReplayKeys
    <3> SUFFICES ASSUME NEW k \in seen' PROVE k \in AllReplayKeys
      OBVIOUS
    <3>1. PICK m \in Positions : k \in ReplayKeys(ServerLog[m])
      BY DEF Inv, Identities
    <3>2. ServerLog[m] \in Wires
      BY ServerAssumption DEF Positions
    <3> QED BY <3>1, <3>2 DEF AllReplayKeys
  <2>2. session \in {"ready", "reauth", "changed"}
    BY DEF Inv, Types
  <2> QED BY <2>1, <2>2, SessionErrors, SeenTyped, RunBoundsAssumption DEF Errors
<1>1. CASE UNCHANGED vars
  BY <1>1 DEF vars, Kinds
<1>2. CASE BeginRun
  BY <1>2 DEF BeginRun, Kinds
<1>3. CASE LoadFails
  BY <1>0, <1>3 DEF LoadFails, Goto, Fault, Kinds
<1>4. CASE AnswerExpired
  BY <1>0, <1>4 DEF AnswerExpired, Goto, Fault, Kinds
<1>5. CASE Load
  BY <1>0, <1>5 DEF Load, LoadedReplay, Goto, Kinds
<1>6. CASE NotifyStart
  BY <1>6 DEF NotifyStart, Goto, Kinds
<1>7. CASE NotifyStartFails
  BY <1>0, <1>7 DEF NotifyStartFails, Goto, Fault, Kinds
<1>8. CASE LoopHead
  BY <1>0, <1>8 DEF LoopHead, Goto, Kinds
<1>9. CASE AnswerError
  BY <1>0, <1>9 DEF AnswerError, Goto, Kinds
<1>10. CASE Sleep
  BY <1>10 DEF Sleep, NextDelay, Goto, Kinds
<1>11. CASE Send
  BY <1>11 DEF Send, Goto, Kinds
<1>12. CASE SendAborted
  BY <1>0, <1>12 DEF SendAborted, SendAborts, Goto, Kinds
<1>13. CASE Cancel
  BY <1>13 DEF Cancel, Kinds
<1>14. CASE StopResult
  BY <1>0, <1>14 DEF StopResult, StopErrors, Goto, Kinds
<1>15. CASE DeferredWait
  BY <1>15 DEF DeferredWait, Goto, Kinds
<1>16. CASE NotifyStop
  BY <1>0, <1>16 DEF NotifyStop, Goto, Fault, Kinds
<1>17. CASE FinishRun
  BY <1>0, <1>17 DEF FinishRun, NormalizeSessionChangeError, Forget, Kinds
<1>18. CASE \E to \in pollCursor..arrived : \E buf \in {to, NoCursor} : Answer(to, buf)
  BY <1>0, <1>18 DEF Answer, Goto, Fault, Kinds
<1>19. CASE TakeBatch
  BY <1>19 DEF TakeBatch, Kinds
<1>20. CASE Commit
  BY <1>20 DEF Commit, Kinds
<1>21. CASE ProcessorReturns \/ ProcessorCancels
  BY <1>21 DEF ProcessorReturns, ProcessorCancels, Kinds
<1>22. ASSUME NEW j \in Job, Handle(j) \/ Skip(j) \/ Record(j) PROVE Kinds'
  BY <1>0, <1>22 DEF Handle, Skip, Record, Kinds
<1>23. ASSUME NEW j \in Job, DeliveryRefused(j) PROVE Kinds'
  BY <1>0, <1>23 DEF DeliveryRefused, FirstError, Kinds
<1>24. CASE CommitFails \/ \E j \in Job : DeliveryFails(j)
  BY <1>0, <1>24 DEF CommitFails, DeliveryFails, FirstError, Fault, Kinds
<1>25. CASE Arrive \/ CancelPoll \/ Reauthenticate
  BY <1>25 DEF Arrive, CancelPoll, Reauthenticate, Kinds
<1>26. CASE Stop \/ LoseSession
  BY <1>0, <1>26 DEF Stop, LoseSession, Fault, Kinds
<1>27. CASE Crash
  BY <1>0, <1>27 DEF Crash, Forget, Fault, Kinds
<1> QED BY <1>1, <1>2, <1>3, <1>4, <1>5, <1>6, <1>7, <1>8, <1>9, <1>10, <1>11, <1>12, <1>13,
           <1>14, <1>15, <1>16, <1>17, <1>18, <1>19, <1>20, <1>21, <1>22, <1>23, <1>24,
           <1>25, <1>26, <1>27 DEF Next, Run, Processor

\* A step that sends nothing and moves no cursor.
LEMMA BehindFrame ==
    ASSUME Inv, Behind, UNCHANGED <<arrived, stored, pollCursor, batch, sent>>,
           taken' = taken \/ taken' = taken + 1
    PROVE  Behind'
BY RunBoundsAssumption DEF Behind, Inv, Types

LEMMA AnswerBehind ==
    ASSUME Inv, Inv', Behind, NEW to \in pollCursor..arrived, NEW buf \in {to, NoCursor},
           Answer(to, buf)
    PROVE  Behind'
<1>1. /\ UNCHANGED <<arrived, stored, pollCursor, sent, taken>>
      /\ batch' = batch \/ (pc' = "send" /\ batch'.cursor = NextCursor(buf))
  BY DEF Answer, Goto, deliveryVars
<1>2. NextCursor(buf) <= arrived
  BY ServerAssumption DEF NextCursor, Inv, Types, Behind
<1>3. pc' = "send" => batch' \in Answers
  BY DEF Inv, Types
<1> QED BY <1>1, <1>2, <1>3 DEF Behind

LEMMA SendBehind == ASSUME Inv, Behind, Send PROVE Behind'
<1>1. /\ UNCHANGED <<arrived, stored, taken>>
      /\ sent' = Append(sent, batch) /\ batch' = NoBatch /\ pollCursor' = batch.cursor
      /\ Len(sent) - taken < UpdateQueueCapacity
  BY DEF Send, outsideVars, deliveryVars
<1>2. sent \in Seq(Answers) /\ batch \in Answers /\ arrived \in Nat /\ taken \in Nat
  BY DEF Inv, Types, Send
<1>3. \A i \in 1..Len(sent') : sent'[i].cursor <= arrived'
  BY <1>1, <1>2 DEF Behind
<1>4. Len(sent') - taken' <= UpdateQueueCapacity
  BY <1>1, <1>2, RunBoundsAssumption
<1> QED BY <1>1, <1>2, <1>3, <1>4, ServerAssumption DEF Behind, NoBatch

LEMMA CommitBehind == ASSUME Inv, Behind, Commit PROVE Behind'
<1>1. /\ UNCHANGED <<arrived, pollCursor, batch, sent, taken>> /\ committed < taken
      /\ stored' = stored \/ stored' = sent[committed + 1].cursor
  BY DEF Commit, D!Commit, outsideVars, loopVars
<1>2. committed + 1 \in 1..Len(sent)
  BY <1>1 DEF Inv, Types
<1> QED BY <1>1, <1>2 DEF Behind

LEMMA ForgetBehind ==
    ASSUME Inv, Behind, Forget
    PROVE  Behind'
BY ServerAssumption, RunBoundsAssumption DEF Inv, Types, Behind, Forget, NoBatch

LEMMA BehindNext == ASSUME Inv, Inv', Behind, [Next]_vars PROVE Behind'
<1> USE DEF outsideVars, deliveryVars, runVars, loopVars
<1>1. CASE UNCHANGED vars
  BY <1>1, BehindFrame DEF vars
<1>2. CASE BeginRun \/ LoadFails \/ AnswerExpired \/ Load \/ NotifyStartFails \/ LoopHead
           \/ AnswerError \/ Sleep \/ SendAborted \/ Cancel
  BY <1>2, BehindFrame
  DEF BeginRun, LoadFails, AnswerExpired, Load, NotifyStartFails, LoopHead, AnswerError,
      Sleep, SendAborted, Cancel
<1>3. CASE StopResult \/ DeferredWait \/ NotifyStop
  BY <1>3, BehindFrame DEF StopResult, DeferredWait, NotifyStop
<1>4. CASE NotifyStart
  BY <1>4 DEF NotifyStart, Behind
<1>5. CASE FinishRun \/ Crash
  BY <1>5, ForgetBehind DEF FinishRun, Crash
<1>6. CASE \E j \in Job : Handle(j) \/ Skip(j) \/ Record(j) \/ DeliveryRefused(j)
                          \/ DeliveryFails(j)
  BY <1>6, BehindFrame DEF Handle, Skip, Record, DeliveryRefused, DeliveryFails, D!Consume
<1>7. CASE TakeBatch \/ ProcessorReturns \/ ProcessorCancels \/ CommitFails
  BY <1>7, BehindFrame DEF TakeBatch, ProcessorReturns, ProcessorCancels, CommitFails
<1>8. CASE Arrive
  <2>1. /\ arrived' = arrived + 1 /\ UNCHANGED <<stored, pollCursor, batch, sent, taken>>
    BY <1>8 DEF Arrive
  <2>2. arrived \in Nat /\ stored \in Nat /\ pollCursor \in Nat /\ sent \in Seq(Answers)
    BY DEF Inv, Types
  <2>3. batch.cursor \in Nat
    BY ServerAssumption DEF Behind, Answers, NoBatch
  <2>4. \A i \in 1..Len(sent) : sent[i].cursor \in Nat
    <3>1. \A i \in 1..Len(sent) : sent[i] \in Answers
      BY <2>2
    <3> QED BY <3>1 DEF Answers
  <2> QED BY <2>1, <2>2, <2>3, <2>4 DEF Behind
<1>9. CASE Stop \/ LoseSession \/ CancelPoll \/ Reauthenticate
  BY <1>9, BehindFrame DEF Stop, LoseSession, CancelPoll, Reauthenticate
<1> QED BY <1>1, <1>2, <1>3, <1>4, <1>5, <1>6, <1>7, <1>8, <1>9,
           AnswerBehind, SendBehind, CommitBehind DEF Next, Run, Processor

\* Every variable of Run keeps its range: no cursor is ahead of the server, the
\* update channel never holds more than updateQueueCapacity batches, and errors
\* are of the kinds Run knows.
THEOREM TypeInvariant == Spec => []TypeOK
<1>1. Init => Behind /\ Kinds
  BY ServerAssumption, RunBoundsAssumption DEF Init, Behind, Kinds, NoBatch
<1>2. Inv /\ Inv' /\ Behind /\ Kinds /\ [Next]_vars => Behind' /\ Kinds'
  BY BehindNext, KindsNext
<1>3. Inv /\ Behind /\ Kinds => TypeOK
  <2> SUFFICES ASSUME Inv, Behind, Kinds PROVE TypeOK
    OBVIOUS
  <2>1. /\ arrived \in 0..Len(ServerLog) /\ stored \in 0..arrived /\ pollCursor \in 0..arrived
        /\ taken \in 0..Len(sent) /\ committed \in 0..taken
    BY ServerAssumption DEF Inv, Types, Behind
  <2>2. seen \subseteq AllReplayKeys
    BY SeenTyped
  <2> QED BY <2>1, <2>2 DEF Inv, Types, Behind, Kinds, TypeOK
<1> QED BY <1>1, <1>2, <1>3, Invariant, PTL DEF Spec
============================================================================
