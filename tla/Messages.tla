----------------------------- MODULE Messages -----------------------------
(***************************************************************************)
(* What the server sends and how the bot names it: users, messages as they *)
(* are decoded (run.go: peerUserID, replayKeys; dispatcher.go:             *)
(* conversationKey), batches and the positions of messages in them.        *)
(***************************************************************************)
EXTENDS Integers, Sequences

CONSTANTS
    Users,                  \* user ids other than ""
    NoUser,                 \* the user id ""
    Fallback,               \* fallbackConversationKey
    NoID,                   \* an absent message_id, client_id or seq
    Wires,                  \* the decodable messages the server may send
    Malformed,              \* a message that json.Unmarshal rejects
    Batches,                \* the batches [messages, cursor] the server may send
    NoCursor,               \* the cursor ""
    MaxBatches,             \* bound: batches sent in one run
    MaxLen                  \* bound: messages in one batch

ASSUME KeysAssumption == NoUser \notin Users /\ Fallback \notin Users

ASSUME WiresAssumption ==
    /\ Malformed \notin Wires
    /\ \A w \in Wires : /\ w.type \in {"user", "bot", "other"}
                        /\ w.from \in Users \cup {NoUser}
                        /\ w.to \in Users \cup {NoUser}
                        /\ w.contextToken \in BOOLEAN

ASSUME BatchesAssumption ==
    \A b \in Batches : /\ b.messages \in Seq(Wires \cup {Malformed})
                       /\ Len(b.messages) <= MaxLen

ASSUME BoundsAssumption == MaxBatches \in Nat /\ MaxLen \in Nat

ConversationKeys == Users \cup {Fallback}
Cursors == {b.cursor : b \in Batches} \cup {NoCursor}

\* A job is one message of one batch: <<batch, index>>, both counted from 1.
Job == (1..MaxBatches) \X (1..MaxLen)
NoJob == <<0, 0>>
Before(i, j) == i[1] < j[1] \/ (i[1] = j[1] /\ i[2] < j[2])

PeerUserID(w) == CASE w.type = "bot"   -> w.to
                   [] w.type = "user"  -> w.from
                   [] w.type = "other" -> NoUser

ConversationKey(w) ==
    IF PeerUserID(w) # NoUser THEN PeerUserID(w) ELSE Fallback

IdentityKinds == {"message", "client", "seq"}

Identity(w, kind) == CASE kind = "message" -> w.messageID
                       [] kind = "client"  -> w.clientID
                       [] kind = "seq"     -> w.seq

\* The aliases under which a consumed message is remembered.
ReplayKeys(w) ==
    IF PeerUserID(w) = NoUser THEN {}
    ELSE {<<PeerUserID(w), kind, Identity(w, kind)>> :
             kind \in {k \in IdentityKinds : Identity(w, k) # NoID}}

\* keys[0]: the strongest alias present, the only one that suppresses.
StrongestKind(w) == IF w.messageID # NoID THEN "message"
                    ELSE IF w.clientID # NoID THEN "client" ELSE "seq"
StrongestKey(w) ==
    <<PeerUserID(w), StrongestKind(w), Identity(w, StrongestKind(w))>>

AllReplayKeys == UNION {ReplayKeys(w) : w \in Wires}
============================================================================
