-------------------------- MODULE OrderedDelivery --------------------------
(***************************************************************************)
(* What the receiving side promises, whatever goroutines it uses: messages *)
(* are consumed one at a time and in order within a conversation, and the  *)
(* stored cursor follows the longest prefix of wholly consumed batches.    *)
(***************************************************************************)
EXTENDS Messages

VARIABLES
    log,        \* the batches accepted so far
    consumed,   \* the messages acknowledged, dropped or skipped as replays
    committed,  \* how many batches are behind the stored cursor
    stored      \* the stored cursor

vars == <<log, consumed, committed, stored>>

Accepted(j) == j[1] <= Len(log) /\ j[2] <= Len(log[j[1]].messages)
MessageAt(j) == log[j[1]].messages[j[2]]
Decodable(j) == Accepted(j) /\ MessageAt(j) # Malformed
SameConversation(i, j) ==
    ConversationKey(MessageAt(i)) = ConversationKey(MessageAt(j))

Init == log = <<>> /\ consumed = {} /\ committed = 0 /\ stored = NoCursor

Accept(batch) ==
    /\ Len(log) < MaxBatches
    /\ log' = Append(log, batch)
    /\ UNCHANGED <<consumed, committed, stored>>

\* Everything before j in its conversation has been consumed.
Turn(j) ==
    \A i \in Job : Decodable(i) /\ Before(i, j) /\ SameConversation(i, j)
                   => i \in consumed

Consume(j) ==
    /\ Decodable(j) /\ j \notin consumed
    /\ Turn(j)
    /\ consumed' = consumed \cup {j}
    /\ UNCHANGED <<log, committed, stored>>

Commit ==
    LET batch == log[committed + 1]
    IN  /\ committed < Len(log)
        /\ \A i \in 1..Len(batch.messages) : <<committed + 1, i>> \in consumed
        /\ committed' = committed + 1
        /\ stored' = IF batch.cursor # NoCursor THEN batch.cursor ELSE stored
        /\ UNCHANGED <<log, consumed>>

Next ==
    \/ \E batch \in Batches : Accept(batch)
    \/ \E j \in Job : Consume(j)
    \/ Commit

Spec == Init /\ [][Next]_vars
============================================================================
