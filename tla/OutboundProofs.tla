--------------------------- MODULE OutboundProofs ---------------------------
(***************************************************************************)
(* Proofs about Outbound for any number of callers, contents and sessions. *)
(***************************************************************************)
EXTENDS Outbound, SequenceTheorems, TLAPS

(***************************************************************************)
(* The inductive invariant.                                                *)
(***************************************************************************)
Messages == [item : Parts \cup {"notice", "dangling"}, id : Nat, try : Nat]

Types ==
    /\ generation \in Nat /\ contextToken \in Nat /\ ready \in BOOLEAN
    /\ pc \in [Callers -> Places] /\ content \in [Callers -> Contents]
    /\ gen \in [Callers -> Nat] /\ token \in [Callers -> Nat] /\ next \in [Callers -> Nat]
    /\ attempt \in [Callers -> Nat] /\ uploaded \in [Callers -> SUBSET {"data", "thumb"}]
    /\ thumb \in [Callers -> BOOLEAN] /\ notice \in [Callers -> BOOLEAN]
    /\ clientID \in [Callers -> Nat] /\ returned \in [Callers -> Nat]
    /\ ids \in [Callers -> Nat] /\ tries \in [Callers -> Nat]
    /\ accepted \in [Callers -> Seq(Messages)]
    /\ shown \in [Callers -> Seq(Parts \cup {"dangling"})]
    /\ result \in [Callers -> {"none", "nil", "error"}]

\* The session of a call: its token is of that session or the session is gone.
Bound ==
    /\ contextToken \in {NoToken, generation} /\ generation >= 1
    /\ \A c \in Callers :
        /\ gen[c] <= generation
        /\ pc[c] \notin {"idle", "token", "returned"} =>
              token[c] = gen[c] \/ gen[c] < generation
        /\ pc[c] \in {"urlWait", "sendWait"} => gen[c] = generation

\* Where a call is: which part, with what uploaded, at which try.
Progress(c) ==
    /\ next[c] >= 1 /\ next[c] <= Len(content[c].parts) + 1
    /\ AllSent(c) => pc[c] = "part" \/ (pc[c] = "returned" /\ result[c] = "nil")
    /\ result[c] = "nil" => AllSent(c)
    /\ notice[c] => pc[c] \in {"hook", "send", "sendWait", "returned"}
    /\ pc[c] = "uploaded" => Complete(c)
    /\ pc[c] \in {"hook", "send", "sendWait"} /\ ~notice[c] /\ Part(c) \in Media => Complete(c)
    /\ pc[c] = "idle" <=> tries[c] = 0
    /\ ~content[c].single => tries[c] <= 1 /\ returned[c] = NoID

\* Client ids: those of the call are counted; a single message keeps the id that
\* was returned, any other message has one that was never used.
Named(c) ==
    /\ clientID[c] <= ids[c] /\ returned[c] <= ids[c]
    /\ \A i \in 1..Len(accepted[c]) :
          /\ accepted[c][i].id >= 1 /\ accepted[c][i].id <= ids[c]
          /\ content[c].single => (accepted[c][i].item # "notice" <=>
                                      accepted[c][i].id = returned[c])
    /\ pc[c] \in {"send", "sendWait"} =>
          /\ clientID[c] >= 1
          /\ IF content[c].single /\ ~notice[c] THEN clientID[c] = returned[c]
             ELSE clientID[c] # returned[c] /\ ~Known(c)

\* Tries: an earlier one has at most one notice, as its last message, and the
\* message of this one has not been accepted yet while the call is on its way.
Tried(c) ==
    /\ \A i \in 1..Len(accepted[c]) :
          /\ accepted[c][i].try >= 1 /\ accepted[c][i].try <= tries[c]
          /\ accepted[c][i].item = "notice" /\ accepted[c][i].try = tries[c] =>
                pc[c] = "returned"
          /\ content[c].single /\ next[c] = 1 /\ ~notice[c]
             /\ pc[c] \notin {"failed", "returned"} => accepted[c][i].try # tries[c]
    /\ \A i, j \in 1..Len(accepted[c]) : i < j =>
          /\ accepted[c][i].item = "notice" => accepted[c][i].try # accepted[c][j].try
          /\ accepted[c][i].id = accepted[c][j].id =>
                content[c].single /\ accepted[c][i].try # accepted[c][j].try

\* What the user has been shown: the parts before the next one, and perhaps the
\* next one too if its answer was lost.
Shown(c) ==
    /\ Len(shown[c]) <= Len(content[c].parts)
    /\ \A k \in 1..Len(shown[c]) : shown[c][k] = content[c].parts[k]
    /\ AllSent(c) => Len(shown[c]) = Len(content[c].parts)
    /\ ~content[c].single /\ pc[c] \notin {"failed", "returned"} /\ ~notice[c] =>
          Len(shown[c]) = next[c] - 1
    /\ content[c].single =>
          (shown[c] # <<>> <=> \E i \in 1..Len(accepted[c]) : accepted[c][i].item # "notice")

Inv == Types /\ Bound /\ \A c \in Callers : Progress(c) /\ Named(c) /\ Tried(c) /\ Shown(c)

----------------------------------------------------------------------------
LEMMA ContentTypes ==
    ASSUME Types, NEW c \in Callers
    PROVE  /\ content[c] \in Contents /\ content[c].parts \in Seq(Parts)
           /\ Len(content[c].parts) \in Nat /\ Len(content[c].parts) >= 1
           /\ content[c].single \in BOOLEAN
           /\ content[c].single => /\ content[c].parts = <<"text">> 
                                   /\ Len(content[c].parts) = 1
<1>1. content[c] \in Contents
  BY DEF Types
<1>2. content[c].parts \in Seq(Parts) /\ content[c].parts # <<>>
  BY <1>1, ContentsAssumption
<1>3. content[c].single \in BOOLEAN /\ (content[c].single => content[c].parts = <<"text">>)
  BY <1>1, ContentsAssumption
<1>4. Len(content[c].parts) \in Nat /\ Len(content[c].parts) # 0
  BY <1>2, EmptySeq
<1>5. content[c].single => Len(content[c].parts) = 1
  BY <1>3
<1> QED BY <1>1, <1>2, <1>3, <1>4, <1>5

LEMMA InvInit == Init => Inv
<1> SUFFICES ASSUME Init PROVE Inv
  OBVIOUS
<1>1. Types
  <2>1. /\ generation \in Nat /\ contextToken \in Nat
        /\ pc \in [Callers -> Places] /\ content \in [Callers -> Contents]
        /\ gen \in [Callers -> Nat] /\ token \in [Callers -> Nat] /\ next \in [Callers -> Nat]
        /\ attempt \in [Callers -> Nat] /\ uploaded \in [Callers -> SUBSET {"data", "thumb"}]
    BY DEF Init, Places, NoToken
  <2>2. /\ ready \in BOOLEAN
        /\ thumb \in [Callers -> BOOLEAN] /\ notice \in [Callers -> BOOLEAN]
    BY DEF Init
  <2>3. /\ clientID \in [Callers -> Nat] /\ returned \in [Callers -> Nat]
        /\ ids \in [Callers -> Nat] /\ tries \in [Callers -> Nat]
        /\ result \in [Callers -> {"none", "nil", "error"}]
    BY DEF Init, NoID
  <2>4. /\ accepted \in [Callers -> Seq(Messages)]
        /\ shown \in [Callers -> Seq(Parts \cup {"dangling"})]
    <3>1. <<>> \in Seq(Messages) /\ <<>> \in Seq(Parts \cup {"dangling"})
      OBVIOUS
    <3> QED BY <3>1 DEF Init
  <2> QED BY <2>1, <2>2, <2>3, <2>4 DEF Types
<1>2. Bound
  BY DEF Init, Bound, NoToken
<1>3. ASSUME NEW c \in Callers
      PROVE  Progress(c) /\ Named(c) /\ Tried(c) /\ Shown(c)
  <2>1. /\ pc[c] = "idle" /\ next[c] = 1 /\ accepted[c] = <<>> /\ shown[c] = <<>>
        /\ Len(accepted[c]) = 0 /\ Len(shown[c]) = 0 /\ ids[c] = 0 /\ tries[c] = 0
        /\ clientID[c] = 0 /\ returned[c] = 0 /\ result[c] = "none"
    BY DEF Init, NoID
  <2>2. notice[c] = FALSE
    BY DEF Init
  <2>3. Len(content[c].parts) \in Nat /\ Len(content[c].parts) >= 1
    BY <1>1, ContentTypes
  <2>4. Progress(c)
    BY <2>1, <2>2, <2>3 DEF Progress, AllSent, NoID
  <2>5. Named(c) /\ Tried(c)
    BY <2>1 DEF Named, Tried
  <2>6. Shown(c)
    BY <2>1, <2>3 DEF Shown, AllSent
  <2> QED BY <2>4, <2>5, <2>6
<1> QED BY <1>1, <1>2, <1>3 DEF Inv

(***************************************************************************)
(* The calls are independent of each other.                                *)
(***************************************************************************)
OfCall(d) == <<pc[d], content[d], next[d], uploaded[d], thumb[d], notice[d], clientID[d],
               returned[d], ids[d], tries[d], accepted[d], shown[d], result[d]>>

LEMMA OtherKeeps ==
    ASSUME NEW d, Progress(d), Named(d), Tried(d), Shown(d), UNCHANGED OfCall(d)
    PROVE  Progress(d)' /\ Named(d)' /\ Tried(d)' /\ Shown(d)'
<1>1. /\ pc'[d] = pc[d] /\ content'[d] = content[d] /\ next'[d] = next[d]
      /\ uploaded'[d] = uploaded[d] /\ thumb'[d] = thumb[d] /\ notice'[d] = notice[d]
      /\ clientID'[d] = clientID[d] /\ returned'[d] = returned[d] /\ ids'[d] = ids[d]
      /\ tries'[d] = tries[d] /\ accepted'[d] = accepted[d] /\ shown'[d] = shown[d]
      /\ result'[d] = result[d]
  BY DEF OfCall
<1>2. Progress(d)'
  BY <1>1 DEF Progress, AllSent, Complete, Part
<1>3. Named(d)'
  BY <1>1 DEF Named, Known
<1>4. Tried(d)'
  BY <1>1 DEF Tried
<1>5. Shown(d)'
  BY <1>1 DEF Shown, AllSent
<1> QED BY <1>2, <1>3, <1>4, <1>5

LEMMA CallKeeps ==
    ASSUME Inv, NEW c \in Callers, Types', Bound',
           \A d \in Callers \ {c} : UNCHANGED OfCall(d),
           Progress(c)', Named(c)', Tried(c)', Shown(c)'
    PROVE  Inv'
<1>1. ASSUME NEW d \in Callers
      PROVE  Progress(d)' /\ Named(d)' /\ Tried(d)' /\ Shown(d)'
  BY OtherKeeps DEF Inv
<1> QED BY <1>1 DEF Inv

(***************************************************************************)
(* Moves of one call.                                                      *)
(***************************************************************************)
Moves(c, p) ==
    /\ pc' \in [Callers -> Places] /\ pc'[c] = p
    /\ \A d \in Callers \ {c} : pc'[d] = pc[d]

Results(c, r) ==
    /\ result' \in [Callers -> {"none", "nil", "error"}] /\ result'[c] = r
    /\ \A d \in Callers \ {c} : result'[d] = result[d]

LEMMA GotoMoves ==
    ASSUME Types, NEW c \in Callers, NEW p \in Places, Goto(c, p)
    PROVE  Moves(c, p)
BY DEF Types, Goto, Moves

LEMMA ReturnMoves ==
    ASSUME Types, NEW c \in Callers, NEW r \in {"none", "nil", "error"}, Return(c, r)
    PROVE  Moves(c, "returned") /\ Results(c, r)
<1>1. Moves(c, "returned")
  BY GotoMoves DEF Return, Places
<1>2. Results(c, r)
  BY DEF Types, Return, Results
<1> QED BY <1>1, <1>2

LEMMA SameResults ==
    ASSUME Types, NEW c \in Callers, UNCHANGED result
    PROVE  Results(c, result[c])
BY DEF Types, Results

Failed(c) == IF notice[c] THEN "returned" ELSE "failed"

LEMMA FailMoves ==
    ASSUME Types, NEW c \in Callers, Fail(c)
    PROVE  /\ Moves(c, Failed(c)) /\ UNCHANGED <<next, notice>>
           /\ Results(c, "error") \/ (~notice[c] /\ Results(c, result[c]))
<1>1. CASE notice[c]
  <2>1. Return(c, "error") /\ UNCHANGED <<next, notice>>
    BY <1>1 DEF Fail
  <2>2. Moves(c, "returned") /\ Results(c, "error")
    BY <2>1, ReturnMoves
  <2>3. Failed(c) = "returned"
    BY <1>1 DEF Failed
  <2>4. Moves(c, Failed(c))
    BY <2>2, <2>3 DEF Moves
  <2> QED BY <2>1, <2>2, <2>4
<1>2. CASE ~notice[c]
  <2>1. Goto(c, "failed") /\ UNCHANGED result /\ UNCHANGED <<next, notice>>
    BY <1>2 DEF Fail
  <2>2. Moves(c, "failed")
    BY <2>1, GotoMoves DEF Places
  <2>3. Results(c, result[c])
    BY <2>1, SameResults
  <2> QED BY <1>2, <2>1, <2>2, <2>3 DEF Failed
<1> QED BY <1>1, <1>2

\* A step that sends nothing and makes no client id.
LEMMA QuietKeeps ==
    ASSUME Inv, NEW c \in Callers, NEW p \in Places, Moves(c, p), Bound', Progress(c)',
           ready' \in BOOLEAN, generation' \in Nat, contextToken' \in Nat,
           token' \in [Callers -> Nat], attempt' \in [Callers -> Nat],
           uploaded' \in [Callers -> SUBSET {"data", "thumb"}],
           thumb' \in [Callers -> BOOLEAN], notice' \in [Callers -> BOOLEAN],
           result' \in [Callers -> {"none", "nil", "error"}],
           \A d \in Callers \ {c} :
              UNCHANGED <<uploaded[d], thumb[d], notice[d], result[d]>>,
           UNCHANGED <<content, gen, next, sentVars>>,
           pc[c] # "returned",
           p \notin {"failed", "returned"} /\ ~notice'[c] =>
              pc[c] # "failed" /\ ~notice[c],
           p \in {"send", "sendWait"} => pc[c] = "send" /\ (notice'[c] <=> notice[c])
    PROVE  Inv'
<1>1. UNCHANGED <<content, gen, next, clientID, returned, ids, tries, accepted, shown>>
  BY DEF sentVars, idVars, userVars
<1>2. Types'
  <2>1. /\ generation' \in Nat /\ contextToken' \in Nat
        /\ pc' \in [Callers -> Places] /\ content' \in [Callers -> Contents]
        /\ gen' \in [Callers -> Nat] /\ token' \in [Callers -> Nat] /\ next' \in [Callers -> Nat]
        /\ clientID' \in [Callers -> Nat] /\ returned' \in [Callers -> Nat]
        /\ ids' \in [Callers -> Nat] /\ tries' \in [Callers -> Nat]
        /\ accepted' \in [Callers -> Seq(Messages)]
        /\ shown' \in [Callers -> Seq(Parts \cup {"dangling"})]
    BY <1>1 DEF Inv, Types, Moves
  <2> QED BY <2>1 DEF Types
<1>3. pc'[c] = p
  BY DEF Moves
<1>4. Named(c)'
  BY <1>1, <1>3 DEF Inv, Named, Known
<1>5. Tried(c)'
  <2>1. /\ tries'[c] = tries[c] /\ accepted'[c] = accepted[c] /\ content'[c] = content[c]
        /\ next'[c] = next[c] /\ Tried(c)
    BY <1>1 DEF Inv
  <2>2. ASSUME NEW i \in 1..Len(accepted[c])
        PROVE  /\ accepted[c][i].try >= 1 /\ accepted[c][i].try <= tries[c]
               /\ ~(accepted[c][i].item = "notice" /\ accepted[c][i].try = tries[c])
               /\ content[c].single /\ next[c] = 1 /\ ~notice'[c]
                  /\ p \notin {"failed", "returned"} => accepted[c][i].try # tries[c]
    BY <2>1 DEF Tried
  <2>3. \A i, j \in 1..Len(accepted[c]) : i < j =>
          /\ accepted[c][i].item = "notice" => accepted[c][i].try # accepted[c][j].try
          /\ accepted[c][i].id = accepted[c][j].id =>
                content[c].single /\ accepted[c][i].try # accepted[c][j].try
    BY <2>1 DEF Tried
  <2>4. ASSUME NEW i \in 1..Len(accepted'[c])
        PROVE  /\ accepted'[c][i].try >= 1 /\ accepted'[c][i].try <= tries'[c]
               /\ accepted'[c][i].item = "notice" /\ accepted'[c][i].try = tries'[c] =>
                     pc'[c] = "returned"
               /\ content'[c].single /\ next'[c] = 1 /\ ~notice'[c]
                  /\ pc'[c] \notin {"failed", "returned"} => accepted'[c][i].try # tries'[c]
    BY <1>3, <2>1, <2>2
  <2>5. \A i, j \in 1..Len(accepted'[c]) : i < j =>
          /\ accepted'[c][i].item = "notice" => accepted'[c][i].try # accepted'[c][j].try
          /\ accepted'[c][i].id = accepted'[c][j].id =>
                content'[c].single /\ accepted'[c][i].try # accepted'[c][j].try
    BY <2>1, <2>3
  <2> QED BY <2>4, <2>5 DEF Tried
<1>6. Shown(c)'
  <2>1. /\ shown'[c] = shown[c] /\ accepted'[c] = accepted[c] /\ content'[c] = content[c]
        /\ next'[c] = next[c] /\ Shown(c) /\ (AllSent(c)' <=> AllSent(c))
    BY <1>1 DEF Inv, AllSent
  <2>2. /\ Len(shown'[c]) <= Len(content'[c].parts)
        /\ \A k \in 1..Len(shown'[c]) : shown'[c][k] = content'[c].parts[k]
        /\ AllSent(c)' => Len(shown'[c]) = Len(content'[c].parts)
    BY <2>1 DEF Shown
  <2>3. ~content'[c].single /\ pc'[c] \notin {"failed", "returned"} /\ ~notice'[c] =>
          Len(shown'[c]) = next'[c] - 1
    BY <1>3, <2>1 DEF Shown
  <2>4. content'[c].single =>
          (shown'[c] # <<>> <=> \E i \in 1..Len(accepted'[c]) : accepted'[c][i].item # "notice")
    BY <2>1 DEF Shown
  <2> QED BY <2>2, <2>3, <2>4 DEF Shown
<1>7. \A d \in Callers \ {c} : UNCHANGED OfCall(d)
  BY <1>1 DEF OfCall, Moves
<1> QED BY <1>2, <1>4, <1>5, <1>6, <1>7, CallKeeps

\* The session stays; the call may only wait for an answer in its own.
LEMMA BoundKeeps ==
    ASSUME Inv, NEW c \in Callers, NEW p \in Places, Moves(c, p),
           UNCHANGED <<generation, contextToken, gen, token>>,
           p \notin {"idle", "token", "returned"} => pc[c] \notin {"idle", "token", "returned"},
           p \in {"urlWait", "sendWait"} => gen[c] = generation
    PROVE  Bound'
BY DEF Inv, Bound, Moves

LEMMA FailKeeps ==
    ASSUME Inv, NEW c \in Callers, Fail(c), ~AllSent(c),
           pc[c] \notin {"idle", "token", "failed", "returned"},
           ready' \in BOOLEAN, attempt' \in [Callers -> Nat],
           uploaded' \in [Callers -> SUBSET {"data", "thumb"}], thumb' \in [Callers -> BOOLEAN],
           \A d \in Callers \ {c} : UNCHANGED <<uploaded[d], thumb[d]>>,
           UNCHANGED <<generation, contextToken, argVars, sentVars>>
    PROVE  Inv'
<1>1. Types /\ Progress(c)
  BY DEF Inv
<1>2. /\ Moves(c, Failed(c)) /\ UNCHANGED <<next, notice>>
      /\ Results(c, "error") \/ (~notice[c] /\ Results(c, result[c]))
  BY <1>1, FailMoves
<1>3. UNCHANGED <<content, gen, token, next, notice, clientID, returned, ids, tries>>
  BY <1>2 DEF argVars, sentVars, idVars
<1>4. Failed(c) \in {"failed", "returned"} /\ Failed(c) \in Places
      /\ (notice[c] => Failed(c) = "returned")
  BY DEF Failed, Places
<1>5. Bound'
  BY <1>2, <1>3, <1>4, BoundKeeps
<1>6. pc'[c] = Failed(c) /\ result'[c] \in {"error", result[c]}
  BY <1>2 DEF Moves, Results
<1>7. Progress(c)'
  BY <1>1, <1>3, <1>4, <1>6 DEF Progress, AllSent, Part
<1>8. /\ generation' \in Nat /\ contextToken' \in Nat /\ token' \in [Callers -> Nat]
  BY <1>3 DEF Inv, Types
<1>9. notice' \in [Callers -> BOOLEAN]
  BY <1>3 DEF Inv, Types
<1>10. result' \in [Callers -> {"none", "nil", "error"}]
       /\ \A d \in Callers \ {c} : UNCHANGED <<result[d]>>
  BY <1>2 DEF Results
<1>11. \A d \in Callers \ {c} : UNCHANGED <<uploaded[d], thumb[d], notice[d], result[d]>>
  BY <1>3, <1>10
<1> QED BY <1>2, <1>3, <1>4, <1>5, <1>7, <1>8, <1>9, <1>10, <1>11, QuietKeeps

\* The call goes on to another place.
LEMMA GotoKeeps ==
    ASSUME Inv, NEW c \in Callers, NEW p \in Places, Goto(c, p), UNCHANGED <<next, notice, result>>,
           ~AllSent(c), p \in {"part", "url", "urlWait", "upload", "uploaded", "hook", "sendWait"},
           pc[c] \notin {"idle", "token", "failed", "returned"},
           p \in {"urlWait", "sendWait"} => gen[c] = generation,
           p = "sendWait" => pc[c] = "send", notice[c] => p \in {"hook", "sendWait"},
           p = "uploaded" => Complete(c)',
           p \in {"hook", "sendWait"} /\ ~notice[c] /\ Part(c) \in Media => Complete(c)',
           attempt' \in [Callers -> Nat],
           uploaded' \in [Callers -> SUBSET {"data", "thumb"}], thumb' \in [Callers -> BOOLEAN],
           \A d \in Callers \ {c} : UNCHANGED <<uploaded[d], thumb[d]>>,
           UNCHANGED <<sessionVars, argVars, sentVars>>
    PROVE  Inv'
<1>1. Types /\ Progress(c)
  BY DEF Inv
<1>2. Moves(c, p) /\ pc'[c] = p
  BY <1>1, GotoMoves DEF Moves
<1>3. UNCHANGED <<content, gen, token, clientID, returned, ids, tries, generation, contextToken,
                  ready>>
  BY DEF argVars, sentVars, idVars, sessionVars
<1>4. Bound'
  BY <1>2, <1>3, BoundKeeps
<1>5. Progress(c)'
  <2>1. Part(c)' = Part(c) /\ (AllSent(c)' <=> AllSent(c))
    BY <1>3 DEF Part, AllSent
  <2> QED BY <1>1, <1>2, <1>3, <2>1 DEF Progress
<1>6. generation' \in Nat /\ contextToken' \in Nat /\ token' \in [Callers -> Nat]
  BY <1>3 DEF Inv, Types
<1>7. notice' \in [Callers -> BOOLEAN] /\ ready' \in BOOLEAN
  BY <1>3 DEF Inv, Types
<1>8. result' \in [Callers -> {"none", "nil", "error"}]
  BY DEF Inv, Types
<1>9. \A d \in Callers \ {c} : UNCHANGED <<uploaded[d], thumb[d], notice[d], result[d]>>
  OBVIOUS
<1>10. p \notin {"failed", "returned"} /\ ~notice'[c] => pc[c] # "failed" /\ ~notice[c]
  OBVIOUS
<1>11. p \in {"send", "sendWait"} => pc[c] = "send" /\ (notice'[c] <=> notice[c])
  OBVIOUS
<1>12. UNCHANGED <<content, gen, next, sentVars>>
  BY <1>3
<1> QED BY <1>2, <1>4, <1>5, <1>6, <1>7, <1>8, <1>9, <1>10, <1>11, <1>12, QuietKeeps

LEMMA ReturnKeeps ==
    ASSUME Inv, NEW c \in Callers, NEW r \in {"nil", "error"}, Return(c, r),
           UNCHANGED <<next, notice>>, pc[c] # "returned", AllSent(c) <=> r = "nil",
           Bound', contextToken' \in Nat, token' \in [Callers -> Nat],
           uploaded' \in [Callers -> SUBSET {"data", "thumb"}],
           \A d \in Callers \ {c} : UNCHANGED <<uploaded[d]>>,
           pc[c] # "idle",
           UNCHANGED <<generation, ready, content, gen, attempt, thumb, sentVars>>
    PROVE  Inv'
<1>1. Types /\ Progress(c)
  BY DEF Inv
<1>2. Moves(c, "returned") /\ Results(c, r)
  BY <1>1, ReturnMoves
<1>3. pc'[c] = "returned" /\ result'[c] = r /\ UNCHANGED <<returned, tries>>
  BY <1>2 DEF Moves, Results, sentVars, idVars
<1>4. Progress(c)'
  BY <1>1, <1>3 DEF Progress, AllSent
<1>5. generation' \in Nat /\ attempt' \in [Callers -> Nat] /\ "returned" \in Places
  BY DEF Inv, Types, Places
<1>6. notice' \in [Callers -> BOOLEAN] /\ ready' \in BOOLEAN /\ thumb' \in [Callers -> BOOLEAN]
  BY DEF Inv, Types
<1>7. /\ result' \in [Callers -> {"none", "nil", "error"}]
      /\ \A d \in Callers \ {c} : UNCHANGED <<result[d]>>
  BY <1>2 DEF Results
<1>8. \A d \in Callers \ {c} : UNCHANGED <<uploaded[d], thumb[d], notice[d], result[d]>>
  BY <1>7
<1>9. UNCHANGED <<content, gen, next, sentVars>>
  OBVIOUS
<1> QED BY <1>2, <1>4, <1>5, <1>6, <1>7, <1>8, <1>9, QuietKeeps

LEMMA NotAllSent ==
    ASSUME Inv, NEW c \in Callers, pc[c] \notin {"part", "returned"}
    PROVE  ~AllSent(c)
BY DEF Inv, Progress

LEMMA SameUploads ==
    ASSUME Inv, UNCHANGED uploadVars
    PROVE  /\ attempt' \in [Callers -> Nat] /\ uploaded' \in [Callers -> SUBSET {"data", "thumb"}]
           /\ thumb' \in [Callers -> BOOLEAN] /\ UNCHANGED <<attempt, uploaded, thumb>>
<1>1. UNCHANGED <<attempt, uploaded, thumb>>
  BY DEF uploadVars
<1>2. attempt' \in [Callers -> Nat] /\ uploaded' \in [Callers -> SUBSET {"data", "thumb"}]
  BY <1>1 DEF Inv, Types
<1>3. thumb' \in [Callers -> BOOLEAN]
  BY <1>1 DEF Inv, Types
<1> QED BY <1>1, <1>2, <1>3

LEMMA LookUpTokenKeeps ==
    ASSUME Inv, NEW c \in Callers, LookUpToken(c)
    PROVE  Inv'
<1>1. /\ pc[c] = "token" /\ token' = [token EXCEPT ![c] = contextToken]
      /\ UNCHANGED <<generation, ready, contextToken, content, gen, next, notice, uploadVars,
                     sentVars>>
  BY DEF LookUpToken, sessionVars
<1>2. /\ token' \in [Callers -> Nat] /\ token'[c] = contextToken /\ contextToken' \in Nat
      /\ \A d \in Callers \ {c} : token'[d] = token[d]
      /\ generation' \in Nat
  BY <1>1 DEF Inv, Types
<1>3. ~AllSent(c)
  BY <1>1, NotAllSent
<1>4. CASE contextToken = NoToken
  <2>1. Return(c, "error")
    BY <1>4 DEF LookUpToken
  <2>2. Moves(c, "returned")
    BY <2>1, ReturnMoves DEF Inv
  <2>3. Bound'
    BY <1>1, <1>2, <2>2 DEF Inv, Bound, Moves
  <2> QED BY <1>1, <1>2, <1>3, <2>1, <2>3, ReturnKeeps, SameUploads
<1>5. CASE contextToken # NoToken
  <2>1. Goto(c, "resolve") /\ UNCHANGED result
    BY <1>5 DEF LookUpToken
  <2>2. Moves(c, "resolve") /\ "resolve" \in Places /\ pc'[c] = "resolve"
    BY <2>1, GotoMoves DEF Inv, Places, Moves
  <2>3. contextToken = generation /\ gen[c] <= generation /\ gen[c] \in Nat /\ generation \in Nat
    BY <1>5 DEF Inv, Bound, Types
  <2>4. Bound'
    BY <1>1, <1>2, <2>2, <2>3 DEF Inv, Bound, Moves
  <2>5. UNCHANGED <<returned, tries>>
    BY <1>1 DEF sentVars, idVars
  <2>6. ~notice[c]
    BY <1>1 DEF Inv, Progress
  <2>7. Progress(c)'
    BY <1>1, <1>3, <2>1, <2>2, <2>5, <2>6 DEF Inv, Progress, AllSent
  <2>8. notice' \in [Callers -> BOOLEAN] /\ ready' \in BOOLEAN
    BY <1>1 DEF Inv, Types
  <2>9. result' \in [Callers -> {"none", "nil", "error"}]
    BY <2>1 DEF Inv, Types
  <2>10. \A d \in Callers \ {c} : UNCHANGED <<uploaded[d], thumb[d], notice[d], result[d]>>
    BY <1>1, <2>1, SameUploads
  <2>11. UNCHANGED <<content, gen, next, sentVars>>
    BY <1>1
  <2> QED BY <1>1, <1>2, <2>2, <2>4, <2>6, <2>7, <2>8, <2>9, <2>10, <2>11, SameUploads, QuietKeeps
<1> QED BY <1>4, <1>5

LEMMA PersistTokenKeeps ==
    ASSUME Inv, NEW c \in Callers, PersistToken(c)
    PROVE  Inv'
<1>1. /\ pc[c] = "token" /\ token' = [token EXCEPT ![c] = gen[c]]
      /\ contextToken' \in {contextToken, gen[c]}
      /\ contextToken' = contextToken \/ gen[c] = generation
      /\ UNCHANGED <<generation, ready, content, gen, next, notice, uploadVars, sentVars>>
  BY DEF PersistToken, SessionReady
<1>2. /\ token' \in [Callers -> Nat] /\ token'[c] = gen[c] /\ contextToken' \in Nat
      /\ \A d \in Callers \ {c} : token'[d] = token[d]
      /\ generation' \in Nat
  BY <1>1 DEF Inv, Types
<1>3. ~AllSent(c)
  BY <1>1, NotAllSent
<1>4. CASE Return(c, "error")
  <2>1. Moves(c, "returned")
    BY <1>4, ReturnMoves DEF Inv
  <2>2. Bound'
    BY <1>1, <1>2, <2>1 DEF Inv, Bound, Moves
  <2> QED BY <1>1, <1>2, <1>3, <1>4, <2>2, ReturnKeeps, SameUploads
<1>5. CASE Goto(c, "resolve") /\ UNCHANGED result
  <2>2. Moves(c, "resolve") /\ "resolve" \in Places /\ pc'[c] = "resolve"
    BY <1>5, GotoMoves DEF Inv, Places, Moves
  <2>4. Bound'
    BY <1>1, <1>2, <2>2 DEF Inv, Bound, Moves
  <2>5. UNCHANGED <<returned, tries>>
    BY <1>1 DEF sentVars, idVars
  <2>6. ~notice[c]
    BY <1>1 DEF Inv, Progress
  <2>7. Progress(c)'
    BY <1>1, <1>3, <1>5, <2>2, <2>5, <2>6 DEF Inv, Progress, AllSent
  <2>8. notice' \in [Callers -> BOOLEAN] /\ ready' \in BOOLEAN
    BY <1>1 DEF Inv, Types
  <2>9. result' \in [Callers -> {"none", "nil", "error"}]
    BY <1>5 DEF Inv, Types
  <2>10. \A d \in Callers \ {c} : UNCHANGED <<uploaded[d], thumb[d], notice[d], result[d]>>
    BY <1>1, <1>5, SameUploads
  <2>11. UNCHANGED <<content, gen, next, sentVars>>
    BY <1>1
  <2> QED BY <1>1, <1>2, <2>2, <2>4, <2>6, <2>7, <2>8, <2>9, <2>10, <2>11, SameUploads, QuietKeeps
<1> QED BY <1>4, <1>5 DEF PersistToken

LEMMA ResolveKeeps ==
    ASSUME Inv, NEW c \in Callers, Resolve(c)
    PROVE  Inv'
<1>1. /\ pc[c] = "resolve"
      /\ UNCHANGED <<sessionVars, argVars, next, uploadVars, notice, sentVars>>
  BY DEF Resolve
<1>2. ~AllSent(c) /\ ~notice[c]
  BY <1>1, NotAllSent DEF Inv, Progress
<1>3. /\ attempt' \in [Callers -> Nat] /\ uploaded' \in [Callers -> SUBSET {"data", "thumb"}]
      /\ thumb' \in [Callers -> BOOLEAN] /\ UNCHANGED <<attempt, uploaded, thumb>>
  BY <1>1, SameUploads
<1>4. CASE Goto(c, "part") /\ UNCHANGED result
  <2>1. "part" \in Places
    BY DEF Places
  <2> QED BY <1>1, <1>2, <1>3, <1>4, <2>1, GotoKeeps
<1>5. CASE Return(c, "error")
  <2>1. UNCHANGED <<generation, ready, contextToken, content, gen, token>>
    BY <1>1 DEF sessionVars, argVars
  <2>2. Moves(c, "returned") /\ "returned" \in Places
    BY <1>5, ReturnMoves DEF Inv, Places
  <2>3. Bound'
    BY <2>1, <2>2, BoundKeeps
  <2>4. contextToken' \in Nat /\ token' \in [Callers -> Nat]
    BY <2>1 DEF Inv, Types
  <2> QED BY <1>1, <1>2, <1>3, <1>5, <2>1, <2>3, <2>4, ReturnKeeps
<1> QED BY <1>4, <1>5 DEF Resolve

LEMMA BeginPartKeeps ==
    ASSUME Inv, NEW c \in Callers, BeginPart(c)
    PROVE  Inv'
<1>1. /\ pc[c] = "part" /\ uploaded' = [uploaded EXCEPT ![c] = {}]
      /\ UNCHANGED <<sessionVars, argVars, attempt, thumb, sentVars>>
  BY DEF BeginPart
<1>2. ~notice[c]
  BY <1>1 DEF Inv, Progress
<1>3. /\ attempt' \in [Callers -> Nat] /\ uploaded' \in [Callers -> SUBSET {"data", "thumb"}]
      /\ \A d \in Callers \ {c} : uploaded'[d] = uploaded[d]
  BY <1>1 DEF Inv, Types
<1>4. thumb' \in [Callers -> BOOLEAN] /\ ready' \in BOOLEAN
  BY <1>1 DEF Inv, Types, sessionVars
<1>5. UNCHANGED <<generation, ready, contextToken, content, gen, token, thumb, attempt>>
  BY <1>1 DEF sessionVars, argVars
<1>6. \A d \in Callers \ {c} : UNCHANGED <<uploaded[d], thumb[d]>>
  BY <1>3, <1>5
<1>7. CASE AllSent(c)
  <2>1. Return(c, "nil") /\ UNCHANGED <<next, notice>>
    BY <1>7 DEF BeginPart
  <2>2. Moves(c, "returned") /\ "returned" \in Places
    BY <2>1, ReturnMoves DEF Inv, Places
  <2>3. Bound'
    BY <1>5, <2>2, BoundKeeps
  <2>4. contextToken' \in Nat /\ token' \in [Callers -> Nat]
    BY <1>5 DEF Inv, Types
  <2> QED BY <1>1, <1>3, <1>5, <1>7, <2>1, <2>3, <2>4, ReturnKeeps
<1>8. CASE ~AllSent(c) /\ ~SessionReady(c)
  <2>1. Fail(c)
    BY <1>8 DEF BeginPart
  <2> QED BY <1>1, <1>3, <1>4, <1>5, <1>6, <1>8, <2>1, FailKeeps
<1>9. CASE ~AllSent(c) /\ SessionReady(c)
  <2> DEFINE p == IF Part(c) \in Media THEN "url" ELSE "hook"
  <2>1. Goto(c, p) /\ UNCHANGED <<next, notice, result>>
    BY <1>9 DEF BeginPart
  <2>2. p \in Places /\ p \in {"url", "hook"} /\ (p = "hook" => Part(c) \notin Media)
    BY DEF Places
  <2> HIDE DEF p
  <2> QED BY <1>1, <1>2, <1>3, <1>4, <1>6, <1>9, <2>1, <2>2, GotoKeeps
<1> QED BY <1>7, <1>8, <1>9

LEMMA BeginRequestKeeps ==
    ASSUME Inv, NEW c \in Callers,
           GetUploadURL(c) \/ SendMessage(c)
    PROVE  Inv'
<1>1. \E from \in {"url", "send"} : \E to \in {"urlWait", "sendWait"} :
         /\ (from = "url" <=> to = "urlWait") /\ BeginRequest(c, from, to)
  BY DEF GetUploadURL, SendMessage
<1>2. PICK from \in {"url", "send"}, to \in {"urlWait", "sendWait"} :
         (from = "url" <=> to = "urlWait") /\ BeginRequest(c, from, to)
  BY <1>1
<1>3. /\ pc[c] = from /\ UNCHANGED <<sessionVars, argVars, uploadVars, sentVars>>
  BY <1>2 DEF BeginRequest
<1>4. ~AllSent(c) /\ (pc[c] = "url" => ~notice[c])
  BY <1>3, NotAllSent DEF Inv, Progress
<1>5. /\ attempt' \in [Callers -> Nat] /\ uploaded' \in [Callers -> SUBSET {"data", "thumb"}]
      /\ thumb' \in [Callers -> BOOLEAN] /\ UNCHANGED <<attempt, uploaded, thumb>>
  BY <1>3, SameUploads
<1>6. CASE RequestAllowed(c)
  <2>1. /\ Goto(c, to) /\ UNCHANGED <<next, notice, result>> /\ gen[c] = generation
        /\ to \in Places
    BY <1>2, <1>6 DEF BeginRequest, RequestAllowed, SessionReady, Places
  <2>2. to = "sendWait" => pc[c] = "send"
    BY <1>2, <1>3
  <2>3. to = "sendWait" /\ ~notice[c] /\ Part(c) \in Media => Complete(c)'
    <3>1. UNCHANGED <<uploaded, thumb>>
      BY <1>5
    <3> QED BY <2>2, <3>1 DEF Inv, Progress, Complete
  <2>4. notice[c] => to = "sendWait"
    BY <1>2, <1>3, <1>4
  <2> QED BY <1>2, <1>3, <1>4, <1>5, <2>1, <2>2, <2>3, <2>4, GotoKeeps
<1>7. CASE ~RequestAllowed(c)
  <2>1. Fail(c)
    BY <1>2, <1>7 DEF BeginRequest
  <2>2. UNCHANGED <<generation, contextToken, ready>> /\ ready \in BOOLEAN
    BY <1>3 DEF sessionVars, Inv, Types
  <2> QED BY <1>2, <1>3, <1>4, <1>5, <2>1, <2>2, FailKeeps
<1> QED BY <1>6, <1>7

LEMMA AnswerURLKeeps ==
    ASSUME Inv, NEW c \in Callers, NEW offered \in BOOLEAN, AnswerURL(c, offered)
    PROVE  Inv'
<1>1. /\ pc[c] = "urlWait" /\ Goto(c, "upload") /\ attempt' = [attempt EXCEPT ![c] = 0]
      /\ UNCHANGED <<sessionVars, argVars, next, uploaded, notice, sentVars, result>>
  BY DEF AnswerURL
<1>2. thumb' = [thumb EXCEPT ![c] = (Part(c) = "image" /\ offered)]
  BY DEF AnswerURL
<1>3. ~AllSent(c) /\ ~notice[c] /\ "upload" \in Places
  BY <1>1, NotAllSent DEF Inv, Progress, Places
<1>4. attempt' \in [Callers -> Nat] /\ uploaded' \in [Callers -> SUBSET {"data", "thumb"}]
  BY <1>1 DEF Inv, Types
<1>5. thumb' \in [Callers -> BOOLEAN] /\ \A d \in Callers \ {c} : thumb'[d] = thumb[d]
  <2>1. (Part(c) = "image" /\ offered) \in BOOLEAN
    OBVIOUS
  <2> QED BY <1>2, <2>1 DEF Inv, Types
<1>6. \A d \in Callers \ {c} : UNCHANGED <<uploaded[d], thumb[d]>>
  BY <1>1, <1>5
<1> QED BY <1>1, <1>3, <1>4, <1>5, <1>6, GotoKeeps

LEMMA UploadOKKeeps ==
    ASSUME Inv, NEW c \in Callers, UploadOK(c)
    PROVE  Inv'
<1> DEFINE p == IF thumb[c] /\ Object(c) = "data" THEN "upload" ELSE "uploaded"
<1>1. /\ pc[c] = "upload" /\ Goto(c, p) /\ attempt' = [attempt EXCEPT ![c] = 0]
      /\ uploaded' = [uploaded EXCEPT ![c] = @ \cup {Object(c)}]
      /\ UNCHANGED <<sessionVars, argVars, next, thumb, notice, sentVars, result>>
  BY DEF UploadOK
<1>2. ~AllSent(c) /\ ~notice[c]
  BY <1>1, NotAllSent DEF Inv, Progress
<1>3. p \in {"upload", "uploaded"} /\ p \in Places
  BY DEF Places
<1>4. Object(c) \in {"data", "thumb"}
  BY DEF Object
<1>5. /\ attempt' \in [Callers -> Nat] /\ uploaded' \in [Callers -> SUBSET {"data", "thumb"}]
      /\ uploaded'[c] = uploaded[c] \cup {Object(c)}
      /\ \A d \in Callers \ {c} : uploaded'[d] = uploaded[d]
  BY <1>1, <1>4 DEF Inv, Types
<1>6. thumb' \in [Callers -> BOOLEAN] /\ thumb'[c] = thumb[c]
  BY <1>1 DEF Inv, Types
<1>7. p = "uploaded" => Complete(c)'
  <2>1. CASE Object(c) = "data"
    BY <1>5, <1>6, <2>1 DEF Complete
  <2>2. CASE Object(c) = "thumb"
    <3>1. "data" \in uploaded[c]
      BY <2>2 DEF Object
    <3> QED BY <1>5, <2>2, <3>1 DEF Complete
  <2> QED BY <1>4, <2>1, <2>2
<1>8. \A d \in Callers \ {c} : UNCHANGED <<uploaded[d], thumb[d]>>
  BY <1>1, <1>5
<1> HIDE DEF p
<1> QED BY <1>1, <1>2, <1>3, <1>5, <1>6, <1>7, <1>8, GotoKeeps

LEMMA UploadRetryKeeps ==
    ASSUME Inv, NEW c \in Callers, UploadRetry(c)
    PROVE  Inv'
<1>1. /\ pc[c] = "upload" /\ attempt' = [attempt EXCEPT ![c] = @ + 1]
      /\ UNCHANGED <<sessionVars, argVars, uploaded, thumb, sentVars>>
  BY DEF UploadRetry
<1>2. ~AllSent(c) /\ ~notice[c] /\ "upload" \in Places
  BY <1>1, NotAllSent DEF Inv, Progress, Places
<1>3. attempt' \in [Callers -> Nat] /\ uploaded' \in [Callers -> SUBSET {"data", "thumb"}]
  BY <1>1 DEF Inv, Types
<1>4. thumb' \in [Callers -> BOOLEAN]
  BY <1>1 DEF Inv, Types
<1>5. CASE LastAttempt(c)
  <2>1. Fail(c)
    BY <1>5 DEF UploadRetry
  <2>2. UNCHANGED <<generation, contextToken, ready>> /\ ready \in BOOLEAN
    BY <1>1 DEF sessionVars, Inv, Types
  <2> QED BY <1>1, <1>2, <1>3, <1>4, <2>1, <2>2, FailKeeps
<1>6. CASE ~LastAttempt(c)
  <2>1. UNCHANGED <<pc, next, notice, result>>
    BY <1>6 DEF UploadRetry
  <2>2. Goto(c, "upload")
    BY <1>1, <2>1 DEF Goto, Inv, Types
  <2> QED BY <1>1, <1>2, <1>3, <1>4, <2>1, <2>2, GotoKeeps
<1> QED BY <1>5, <1>6

LEMMA UploadRefusedKeeps ==
    ASSUME Inv, NEW c \in Callers, UploadRefused(c)
    PROVE  Inv'
<1>1. /\ pc[c] = "upload" /\ Fail(c) /\ UNCHANGED <<sessionVars, argVars, uploadVars, sentVars>>
  BY DEF UploadRefused
<1>2. ~AllSent(c)
  BY <1>1, NotAllSent
<1>3. UNCHANGED <<generation, contextToken, ready>> /\ ready \in BOOLEAN
  BY <1>1 DEF sessionVars, Inv, Types
<1> QED BY <1>1, <1>2, <1>3, FailKeeps, SameUploads

LEMMA CheckUploadedKeeps ==
    ASSUME Inv, NEW c \in Callers, CheckUploaded(c)
    PROVE  Inv'
<1>1. /\ pc[c] = "uploaded" /\ UNCHANGED <<sessionVars, argVars, uploadVars, sentVars>>
  BY DEF CheckUploaded
<1>2. ~AllSent(c) /\ ~notice[c] /\ "hook" \in Places /\ Complete(c)
  BY <1>1, NotAllSent DEF Inv, Progress, Places
<1>3. /\ attempt' \in [Callers -> Nat] /\ uploaded' \in [Callers -> SUBSET {"data", "thumb"}]
      /\ thumb' \in [Callers -> BOOLEAN] /\ UNCHANGED <<attempt, uploaded, thumb>>
  BY <1>1, SameUploads
<1>4. Complete(c)'
  BY <1>2, <1>3 DEF Complete
<1>5. CASE SessionReady(c)
  <2>1. Goto(c, "hook") /\ UNCHANGED <<next, notice, result>>
    BY <1>5 DEF CheckUploaded
  <2> QED BY <1>1, <1>2, <1>3, <1>4, <2>1, GotoKeeps
<1>6. CASE ~SessionReady(c)
  <2>1. Fail(c)
    BY <1>6 DEF CheckUploaded
  <2>2. UNCHANGED <<generation, contextToken, ready>> /\ ready \in BOOLEAN
    BY <1>1 DEF sessionVars, Inv, Types
  <2> QED BY <1>1, <1>2, <1>3, <2>1, <2>2, FailKeeps
<1> QED BY <1>5, <1>6

LEMMA AnswerErrorKeeps ==
    ASSUME Inv, NEW c \in Callers, NEW expired \in BOOLEAN, AnswerError(c, expired)
    PROVE  Inv'
<1>1. /\ pc[c] \in {"urlWait", "sendWait"} /\ Fail(c)
      /\ UNCHANGED <<generation, contextToken, argVars, uploadVars, sentVars>>
  BY DEF AnswerError
<1>2. ready' \in BOOLEAN
  BY DEF AnswerError
<1>3. ~AllSent(c)
  BY <1>1, NotAllSent
<1> QED BY <1>1, <1>2, <1>3, FailKeeps, SameUploads

LEMMA NotifyErrorKeeps ==
    ASSUME Inv, NEW c \in Callers, NotifyError(c)
    PROVE  Inv'
<1>1. /\ pc[c] = "failed"
      /\ UNCHANGED <<sessionVars, argVars, next, uploadVars, sentVars>>
  BY DEF NotifyError
<1>2. ~AllSent(c)
  BY <1>1, NotAllSent
<1>3. /\ attempt' \in [Callers -> Nat] /\ uploaded' \in [Callers -> SUBSET {"data", "thumb"}]
      /\ thumb' \in [Callers -> BOOLEAN] /\ UNCHANGED <<attempt, uploaded, thumb>>
  BY <1>1, SameUploads
<1>4. UNCHANGED <<generation, ready, contextToken, content, gen, token>>
  BY <1>1 DEF sessionVars, argVars
<1>5. contextToken' \in Nat /\ token' \in [Callers -> Nat] /\ generation' \in Nat
  BY <1>4 DEF Inv, Types
<1>6. CASE Return(c, "error") /\ UNCHANGED notice
  <2>1. Moves(c, "returned") /\ "returned" \in Places
    BY <1>6, ReturnMoves DEF Inv, Places
  <2>2. Bound'
    BY <1>4, <2>1, BoundKeeps
  <2> QED BY <1>1, <1>2, <1>3, <1>4, <1>5, <1>6, <2>2, ReturnKeeps
<1>7. CASE Goto(c, "hook") /\ notice' = [notice EXCEPT ![c] = TRUE] /\ UNCHANGED result
  <2>1. Moves(c, "hook") /\ "hook" \in Places /\ pc'[c] = "hook"
    BY <1>7, GotoMoves DEF Inv, Places, Moves
  <2>2. Bound'
    BY <1>1, <1>4, <2>1, BoundKeeps
  <2>3. /\ notice' \in [Callers -> BOOLEAN] /\ notice'[c] = TRUE
        /\ \A d \in Callers \ {c} : notice'[d] = notice[d]
    BY <1>7 DEF Inv, Types
  <2>4. ready' \in BOOLEAN
    BY <1>4 DEF Inv, Types
  <2>5. result' \in [Callers -> {"none", "nil", "error"}]
    BY <1>7 DEF Inv, Types
  <2>6. \A d \in Callers \ {c} : UNCHANGED <<uploaded[d], thumb[d], notice[d], result[d]>>
    BY <1>3, <1>7, <2>3
  <2>7. UNCHANGED <<returned, tries>>
    BY <1>1 DEF sentVars, idVars
  <2>8. Progress(c)'
    BY <1>1, <1>2, <1>4, <1>7, <2>1, <2>3, <2>7 DEF Inv, Progress, AllSent
  <2>9. UNCHANGED <<content, gen, next, sentVars>>
    BY <1>1, <1>4
  <2> QED BY <1>1, <1>3, <1>5, <2>1, <2>2, <2>3, <2>4, <2>5, <2>6, <2>8, <2>9, QuietKeeps
<1> QED BY <1>6, <1>7 DEF NotifyError

----------------------------------------------------------------------------
(***************************************************************************)
(* Calls begin and are tried again.                                        *)
(***************************************************************************)
LEMMA BeginKeeps ==
    ASSUME Inv, NEW c \in Callers, Goto(c, "token"),
           gen' = [gen EXCEPT ![c] = generation], tries' = [tries EXCEPT ![c] = @ + 1],
           ~AllSent(c), next[c] = 1 \/ ~content[c].single,
           content[c].single \/ tries[c] = 0, content[c].single \/ ~notice[c],
           content[c].single \/ pc[c] = "idle",
           notice' \in [Callers -> BOOLEAN], ~notice'[c],
           \A d \in Callers \ {c} : notice'[d] = notice[d],
           result' \in [Callers -> {"none", "nil", "error"}], result'[c] # "nil",
           \A d \in Callers \ {c} : result'[d] = result[d],
           UNCHANGED <<sessionVars, content, token, next, uploadVars, clientID, returned, ids,
                       userVars>>
    PROVE  Inv'
<1>1. /\ UNCHANGED <<generation, contextToken, content, token, next, attempt, uploaded,
                     clientID, returned, ids, accepted, shown>>
  BY DEF sessionVars, uploadVars, userVars
<1>2. UNCHANGED <<ready, thumb>>
  BY DEF sessionVars, uploadVars
<1>3. Moves(c, "token") /\ pc'[c] = "token"
  BY GotoMoves DEF Inv, Places, Moves
<1>4. /\ gen' \in [Callers -> Nat] /\ gen'[c] = generation
      /\ tries' \in [Callers -> Nat] /\ tries'[c] = tries[c] + 1 /\ tries[c] \in Nat
      /\ \A d \in Callers \ {c} : tries'[d] = tries[d] /\ gen'[d] = gen[d]
  BY DEF Inv, Types
<1>5. Types'
  <2>1. ready' \in BOOLEAN /\ thumb' \in [Callers -> BOOLEAN]
    BY <1>2 DEF Inv, Types
  <2> QED BY <1>1, <1>3, <1>4, <2>1 DEF Inv, Types, Moves
<1>6. Bound'
  <2>1. generation \in Nat /\ Bound
    BY DEF Inv, Types
  <2>2. /\ UNCHANGED <<generation, contextToken, token>> /\ gen'[c] = generation
        /\ pc'[c] = "token"
        /\ \A d \in Callers \ {c} : pc'[d] = pc[d] /\ gen'[d] = gen[d]
    BY <1>1, <1>3, <1>4 DEF Moves
  <2> QED BY <2>1, <2>2 DEF Bound
<1>7. Progress(c)'
  BY <1>1, <1>3, <1>4 DEF Inv, Progress, AllSent
<1>8. Named(c)'
  BY <1>1, <1>3 DEF Inv, Named
<1>9. \A i \in 1..Len(accepted[c]) :
         /\ accepted[c][i].try >= 1 /\ accepted[c][i].try <= tries[c]
         /\ accepted[c][i] \in Messages /\ accepted[c][i].try \in Nat
  <2>1. accepted[c] \in Seq(Messages)
    BY DEF Inv, Types
  <2>2. \A i \in 1..Len(accepted[c]) : accepted[c][i] \in Messages
    BY <2>1
  <2> QED BY <2>2 DEF Inv, Tried, Messages
<1>10. \A i \in 1..Len(accepted[c]) :
         /\ accepted[c][i].try >= 1 /\ accepted[c][i].try <= tries'[c]
         /\ accepted[c][i].try # tries'[c]
  BY <1>4, <1>9
<1>11. Tried(c)'
  <2>1. Tried(c)
    BY DEF Inv
  <2> QED BY <1>1, <1>3, <1>10, <2>1 DEF Tried
<1>12. Shown(c)'
  <2>1. ~content[c].single => Len(shown[c]) = next[c] - 1
    BY DEF Inv, Shown
  <2> QED BY <1>1, <2>1 DEF Inv, Shown, AllSent
<1>13. \A d \in Callers \ {c} : UNCHANGED OfCall(d)
  BY <1>1, <1>2, <1>3, <1>4 DEF OfCall, Moves
<1> QED BY <1>5, <1>6, <1>7, <1>8, <1>11, <1>12, <1>13, CallKeeps

LEMMA SingleFirst ==
    ASSUME Inv, NEW c \in Callers, ~AllSent(c), content[c].single
    PROVE  next[c] = 1 /\ Len(content[c].parts) = 1 /\ content[c].parts[1] = "text"
<1>1. Types /\ Progress(c) /\ next[c] \in Nat
  BY DEF Inv, Types
<1>2. content[c].parts = <<"text">> /\ Len(content[c].parts) = 1
  BY <1>1, ContentTypes
<1>3. next[c] >= 1 /\ ~(next[c] > 1)
  BY <1>1, <1>2 DEF Progress, AllSent
<1> QED BY <1>1, <1>2, <1>3

LEMMA CallKeepsInv ==
    ASSUME Inv, NEW c \in Callers, Call(c)
    PROVE  Inv'
<1>1. /\ pc[c] = "idle" /\ Goto(c, "token") /\ gen' = [gen EXCEPT ![c] = generation]
      /\ tries' = [tries EXCEPT ![c] = 1]
      /\ UNCHANGED <<sessionVars, content, token, next, uploadVars, notice, clientID,
                     returned, ids, userVars, result>>
  BY DEF Call
<1>2. ~AllSent(c) /\ ~notice[c] /\ tries[c] = 0 /\ result[c] # "nil"
  BY <1>1, NotAllSent DEF Inv, Progress
<1>3. tries' = [tries EXCEPT ![c] = @ + 1]
  BY <1>1, <1>2
<1>4. next[c] = 1 \/ ~content[c].single
  BY <1>2, SingleFirst
<1>5. notice' \in [Callers -> BOOLEAN] /\ notice' = notice
  BY <1>1 DEF Inv, Types
<1>6. result' \in [Callers -> {"none", "nil", "error"}] /\ result' = result
  BY <1>1 DEF Inv, Types
<1> QED BY <1>1, <1>2, <1>3, <1>4, <1>5, <1>6, BeginKeeps

LEMMA RetryKeeps ==
    ASSUME Inv, NEW c \in Callers, Retry(c)
    PROVE  Inv'
<1>1. /\ pc[c] = "returned" /\ result[c] = "error" /\ content[c].single
      /\ Goto(c, "token") /\ gen' = [gen EXCEPT ![c] = generation]
      /\ tries' = [tries EXCEPT ![c] = @ + 1]
      /\ UNCHANGED <<sessionVars, content, token, next, uploadVars, clientID,
                     returned, ids, userVars>>
  BY DEF Retry
<1>2. notice' = [notice EXCEPT ![c] = FALSE] /\ result' = [result EXCEPT ![c] = "none"]
  BY DEF Retry
<1>3. ~AllSent(c)
  BY <1>1 DEF Inv, Progress
<1>4. next[c] = 1
  BY <1>1, <1>3, SingleFirst
<1>5. /\ notice' \in [Callers -> BOOLEAN] /\ ~notice'[c]
      /\ \A d \in Callers \ {c} : notice'[d] = notice[d]
  BY <1>2 DEF Inv, Types
<1>6. /\ result' \in [Callers -> {"none", "nil", "error"}] /\ result'[c] # "nil"
      /\ \A d \in Callers \ {c} : result'[d] = result[d]
  BY <1>2 DEF Inv, Types
<1> QED BY <1>1, <1>3, <1>4, <1>5, <1>6, BeginKeeps

----------------------------------------------------------------------------
(***************************************************************************)
(* Messages get their client ids and are sent.                             *)
(***************************************************************************)
LEMMA MaxOfTwo ==
    ASSUME NEW a \in Nat, NEW b \in Nat
    PROVE  (b <= a => Max({a, b}) = a) /\ (a <= b => Max({a, b}) = b)
BY DEF Max

LEMMA AcceptedTypes ==
    ASSUME Inv, NEW c \in Callers
    PROVE  /\ accepted[c] \in Seq(Messages) /\ Len(accepted[c]) \in Nat
           /\ DOMAIN accepted[c] = 1..Len(accepted[c])
           /\ \A i \in 1..Len(accepted[c]) :
                 /\ accepted[c][i].item \in Parts \cup {"notice", "dangling"}
                 /\ accepted[c][i].id \in Nat /\ accepted[c][i].try \in Nat
<1>1. accepted[c] \in Seq(Messages)
  BY DEF Inv, Types
<1>2. \A i \in 1..Len(accepted[c]) : accepted[c][i] \in Messages
  BY <1>1
<1> QED BY <1>1, <1>2 DEF Messages

LEMMA Identified ==
    ASSUME Inv, NEW c \in Callers, Identify(c)
    PROVE  /\ clientID' \in [Callers -> Nat] /\ returned' \in [Callers -> Nat]
           /\ ids' \in [Callers -> Nat] /\ UNCHANGED tries
           /\ \A d \in Callers \ {c} : UNCHANGED <<clientID[d], returned[d], ids[d]>>
           /\ clientID'[c] >= 1 /\ clientID'[c] <= ids'[c] /\ returned'[c] <= ids'[c]
           /\ ids[c] <= ids'[c]
           /\ ~content[c].single => returned'[c] = returned[c]
           /\ \A i \in 1..Len(accepted[c]) :
                 content[c].single => (accepted[c][i].item # "notice" <=>
                                          accepted[c][i].id = returned'[c])
           /\ IF content[c].single /\ ~notice[c] THEN clientID'[c] = returned'[c]
              ELSE clientID'[c] # returned'[c] /\ clientID'[c] > ids[c]
<1> DEFINE id == MessageID(c)
<1>1. /\ clientID' = [clientID EXCEPT ![c] = id] /\ UNCHANGED tries
      /\ ids' = [ids EXCEPT ![c] = Max({ids[c], id})]
      /\ returned' = [returned EXCEPT ![c] =
                        IF content[c].single /\ ~notice[c] THEN id ELSE returned[c]]
  BY DEF Identify
<1>2. /\ ids[c] \in Nat /\ returned[c] \in Nat /\ returned[c] <= ids[c]
      /\ ids \in [Callers -> Nat] /\ clientID \in [Callers -> Nat]
      /\ returned \in [Callers -> Nat]
  BY DEF Inv, Types, Named
<1>3. \A i \in 1..Len(accepted[c]) :
         /\ accepted[c][i].id \in Nat /\ accepted[c][i].id >= 1 /\ accepted[c][i].id <= ids[c]
         /\ content[c].single => (accepted[c][i].item # "notice" <=>
                                     accepted[c][i].id = returned[c])
  BY AcceptedTypes DEF Inv, Named
<1>4. CASE content[c].single /\ ~notice[c] /\ returned[c] # NoID
  <2>1. id = returned[c]
    BY <1>4 DEF MessageID
  <2> HIDE DEF id
  <2>2. Max({ids[c], id}) = ids[c]
    BY <1>2, <2>1, MaxOfTwo
  <2>3. returned' = [returned EXCEPT ![c] = id]
    BY <1>1, <1>4
  <2>4. clientID'[c] = returned[c] /\ returned'[c] = returned[c] /\ ids'[c] = ids[c]
    BY <1>1, <1>2, <2>1, <2>2, <2>3
  <2>5. returned[c] >= 1
    BY <1>2, <1>4 DEF NoID
  <2> QED BY <1>1, <1>2, <1>3, <1>4, <2>1, <2>2, <2>3, <2>4, <2>5
<1>5. CASE content[c].single /\ ~notice[c] /\ returned[c] = NoID
  <2>1. id = ids[c] + 1
    BY <1>5 DEF MessageID
  <2> HIDE DEF id
  <2>2. Max({ids[c], id}) = ids[c] + 1 /\ id \in Nat
    BY <1>2, <2>1, MaxOfTwo
  <2>3. returned' = [returned EXCEPT ![c] = id]
    BY <1>1, <1>5
  <2>4. clientID'[c] = ids[c] + 1 /\ returned'[c] = ids[c] + 1 /\ ids'[c] = ids[c] + 1
    BY <1>1, <1>2, <2>1, <2>2, <2>3
  <2>5. \A i \in 1..Len(accepted[c]) :
           accepted[c][i].item = "notice" /\ accepted[c][i].id # returned'[c]
    BY <1>2, <1>3, <1>5, <2>4 DEF NoID
  <2> QED BY <1>1, <1>2, <1>5, <2>1, <2>2, <2>3, <2>4, <2>5
<1>6. CASE ~(content[c].single /\ ~notice[c])
  <2>1. id = ids[c] + 1
    BY <1>6 DEF MessageID
  <2> HIDE DEF id
  <2>2. Max({ids[c], id}) = ids[c] + 1 /\ id \in Nat
    BY <1>2, <2>1, MaxOfTwo
  <2>3. returned' = [returned EXCEPT ![c] = returned[c]]
    BY <1>1, <1>6
  <2>4. clientID'[c] = ids[c] + 1 /\ returned' = returned /\ ids'[c] = ids[c] + 1
    BY <1>1, <1>2, <2>1, <2>2, <2>3
  <2> QED BY <1>1, <1>2, <1>3, <1>6, <2>1, <2>2, <2>4
<1> QED BY <1>4, <1>5, <1>6

LEMMA IdentifiedKeeps ==
    ASSUME Inv, NEW c \in Callers, NEW p \in {"send", "failed", "returned"}, Moves(c, p),
           pc[c] = "hook", Identify(c), Progress(c)',
           UNCHANGED <<sessionVars, argVars, next, uploadVars, notice, userVars>>,
           result' \in [Callers -> {"none", "nil", "error"}],
           \A d \in Callers \ {c} : result'[d] = result[d]
    PROVE  Inv'
<1>1. UNCHANGED <<generation, contextToken, content, gen, token, next, accepted, shown>>
  BY DEF sessionVars, argVars, userVars
<1>2. UNCHANGED <<ready, notice>>
  BY DEF sessionVars
<1>3. /\ attempt' \in [Callers -> Nat] /\ uploaded' \in [Callers -> SUBSET {"data", "thumb"}]
      /\ thumb' \in [Callers -> BOOLEAN] /\ UNCHANGED <<attempt, uploaded, thumb>>
  BY SameUploads
<1>4. /\ clientID' \in [Callers -> Nat] /\ returned' \in [Callers -> Nat]
      /\ ids' \in [Callers -> Nat] /\ UNCHANGED tries
      /\ \A d \in Callers \ {c} : UNCHANGED <<clientID[d], returned[d], ids[d]>>
  BY Identified
<1>5. pc'[c] = p /\ p \in Places
  BY DEF Moves, Places
<1>6. Types'
  <2>1. ready' \in BOOLEAN /\ notice' \in [Callers -> BOOLEAN]
    BY <1>2 DEF Inv, Types
  <2> QED BY <1>1, <1>3, <1>4, <2>1 DEF Inv, Types, Moves
<1>7. Bound'
  BY <1>1, <1>5, BoundKeeps
<1>8. Named(c)'
  <2>1. \A i \in 1..Len(accepted[c]) :
           accepted[c][i].id \in Nat /\ accepted[c][i].id >= 1 /\ accepted[c][i].id <= ids[c]
    BY AcceptedTypes DEF Inv, Named
  <2>2. ids[c] \in Nat /\ ids'[c] \in Nat /\ ids[c] <= ids'[c] /\ clientID'[c] \in Nat
    BY <1>4, Identified DEF Inv, Types
  <2>3. \A i \in 1..Len(accepted[c]) :
           accepted[c][i].id >= 1 /\ accepted[c][i].id <= ids'[c]
    BY <2>1, <2>2
  <2>4. \/ content[c].single /\ ~notice[c] /\ clientID'[c] = returned'[c]
        \/ /\ ~(content[c].single /\ ~notice[c]) /\ clientID'[c] # returned'[c]
           /\ clientID'[c] > ids[c]
    BY Identified
  <2>5. clientID'[c] > ids[c] => ~Known(c)'
    <3>1. DOMAIN accepted'[c] = 1..Len(accepted[c])
      BY <1>1, AcceptedTypes
    <3> QED BY <1>1, <2>1, <2>2, <3>1 DEF Known
  <2>6. /\ clientID'[c] >= 1 /\ clientID'[c] <= ids'[c] /\ returned'[c] <= ids'[c]
        /\ \A i \in 1..Len(accepted[c]) :
              content[c].single => (accepted[c][i].item # "notice" <=>
                                       accepted[c][i].id = returned'[c])
    BY Identified
  <2> QED BY <1>1, <1>2, <2>3, <2>4, <2>5, <2>6 DEF Named
<1>9. Tried(c)'
  <2>1. /\ tries'[c] = tries[c] /\ accepted'[c] = accepted[c] /\ content'[c] = content[c]
        /\ next'[c] = next[c] /\ Tried(c)
    BY <1>1, <1>4 DEF Inv
  <2> QED BY <1>2, <1>5, <2>1 DEF Tried
<1>10. Shown(c)'
  BY <1>1, <1>2 DEF Inv, Shown, AllSent
<1>11. \A d \in Callers \ {c} : UNCHANGED OfCall(d)
  BY <1>1, <1>2, <1>3, <1>4 DEF OfCall, Moves
<1> QED BY <1>6, <1>7, <1>8, <1>9, <1>10, <1>11, CallKeeps

LEMMA BeforeSendKeeps ==
    ASSUME Inv, NEW c \in Callers, BeforeSend(c)
    PROVE  Inv'
<1>1. /\ pc[c] = "hook" /\ Identify(c) /\ Goto(c, "send")
      /\ UNCHANGED <<sessionVars, argVars, next, uploadVars, notice, userVars, result>>
  BY DEF BeforeSend
<1>2. Moves(c, "send") /\ pc'[c] = "send"
  BY <1>1, GotoMoves DEF Inv, Places, Moves
<1>3. /\ UNCHANGED <<content, uploaded, thumb, tries>>
      /\ ~content[c].single => returned'[c] = returned[c]
  BY <1>1, Identified DEF argVars, uploadVars
<1>4. ~AllSent(c) /\ Progress(c)
  BY <1>1, NotAllSent DEF Inv
<1>5. Progress(c)'
  BY <1>1, <1>2, <1>3, <1>4 DEF Progress, AllSent, Part, Complete
<1>6. result' \in [Callers -> {"none", "nil", "error"}]
  BY <1>1 DEF Inv, Types
<1> QED BY <1>1, <1>2, <1>5, <1>6, IdentifiedKeeps

LEMMA HookFailsKeeps ==
    ASSUME Inv, NEW c \in Callers, HookFails(c)
    PROVE  Inv'
<1>1. /\ pc[c] = "hook" /\ Identify(c) /\ Fail(c)
      /\ UNCHANGED <<sessionVars, argVars, uploadVars, userVars>>
  BY DEF HookFails
<1>2. /\ Moves(c, Failed(c)) /\ UNCHANGED <<next, notice>>
      /\ Results(c, "error") \/ (~notice[c] /\ Results(c, result[c]))
  BY <1>1, FailMoves DEF Inv
<1>3. /\ UNCHANGED <<content, uploaded, thumb, tries>>
      /\ ~content[c].single => returned'[c] = returned[c]
  BY <1>1, Identified DEF argVars, uploadVars
<1>4. ~AllSent(c) /\ Progress(c)
  BY <1>1, NotAllSent DEF Inv
<1>5. Failed(c) \in {"failed", "returned"} /\ (notice[c] => Failed(c) = "returned")
  BY DEF Failed
<1>6. pc'[c] = Failed(c) /\ result'[c] \in {"error", result[c]}
  BY <1>2 DEF Moves, Results
<1>7. Progress(c)'
  BY <1>1, <1>2, <1>3, <1>4, <1>5, <1>6 DEF Progress, AllSent
<1>8. /\ result' \in [Callers -> {"none", "nil", "error"}]
      /\ \A d \in Callers \ {c} : result'[d] = result[d]
  BY <1>2 DEF Results
<1> QED BY <1>1, <1>2, <1>5, <1>7, <1>8, IdentifiedKeeps

\* What is sent is the part the call is at, or the notice.
LEMMA SentItem ==
    ASSUME Inv, NEW c \in Callers, pc[c] = "sendWait"
    PROVE  /\ notice[c] => Item(c) = "notice"
           /\ ~notice[c] => Item(c) = Part(c)
           /\ Part(c) \in Parts /\ Part(c) = content[c].parts[next[c]]
           /\ next[c] \in 1..Len(content[c].parts)
<1>1. ~AllSent(c) /\ Progress(c) /\ Types /\ next[c] \in Nat
  BY NotAllSent DEF Inv, Types
<1>2. content[c].parts \in Seq(Parts) /\ Len(content[c].parts) \in Nat
  BY <1>1, ContentTypes
<1>3. next[c] \in 1..Len(content[c].parts)
  BY <1>1, <1>2 DEF Progress, AllSent
<1>4. Part(c) \in Parts /\ Part(c) = content[c].parts[next[c]]
  BY <1>2, <1>3 DEF Part
<1>5. notice[c] => Item(c) = "notice"
  BY DEF Item
<1>6. ~notice[c] => Item(c) = Part(c)
  <2>1. ~notice[c] => (Part(c) \in Media => Complete(c))
    BY <1>1 DEF Progress
  <2> QED BY <2>1 DEF Item
<1> QED BY <1>3, <1>4, <1>5, <1>6

LEMMA AnswerSendKeeps ==
    ASSUME Inv, NEW c \in Callers, AnswerSend(c)
    PROVE  Inv'
<1> DEFINE m == [item |-> Item(c), id |-> clientID[c], try |-> tries[c]]
           n == Len(accepted[c])
<1>1. /\ pc[c] = "sendWait" /\ accepted' = [accepted EXCEPT ![c] = Append(accepted[c], m)]
      /\ shown' = [shown EXCEPT ![c] = IF notice[c] \/ Known(c) THEN shown[c]
                                       ELSE Append(shown[c], Item(c))]
      /\ UNCHANGED <<sessionVars, argVars, uploadVars, idVars>>
  BY DEF AnswerSend
<1>2. UNCHANGED <<generation, contextToken, content, gen, token, clientID, returned, ids, tries>>
  BY <1>1 DEF sessionVars, argVars, idVars
<1>3. /\ ~AllSent(c) /\ Types /\ Progress(c) /\ Named(c) /\ Tried(c) /\ Shown(c)
      /\ next[c] \in Nat
  BY <1>1, NotAllSent DEF Inv, Types
<1>4. /\ notice[c] => Item(c) = "notice"
      /\ ~notice[c] => Item(c) = Part(c) /\ Item(c) # "notice"
      /\ Part(c) \in Parts /\ Part(c) = content[c].parts[next[c]]
      /\ next[c] \in 1..Len(content[c].parts) /\ Item(c) \in Parts \cup {"notice"}
  <2>1. "notice" \notin Parts
    BY DEF Parts, Media
  <2> QED BY <1>1, <2>1, SentItem
<1>5. m \in Messages /\ m.item = Item(c) /\ m.id = clientID[c] /\ m.try = tries[c]
  BY <1>3, <1>4 DEF Messages, Types
<1> HIDE DEF m
<1>6. /\ accepted' \in [Callers -> Seq(Messages)] /\ accepted'[c] = Append(accepted[c], m)
      /\ \A d \in Callers \ {c} : accepted'[d] = accepted[d]
      /\ accepted[c] \in Seq(Messages) /\ n \in Nat
  <2>1. accepted[c] \in Seq(Messages)
    BY <1>3 DEF Types
  <2>2. Append(accepted[c], m) \in Seq(Messages)
    BY <1>5, <2>1, AppendProperties
  <2> QED BY <1>1, <1>3, <2>1, <2>2 DEF Types
<1>7. /\ Len(accepted'[c]) = n + 1 /\ accepted'[c][n + 1] = m
      /\ \A i \in 1..n : accepted'[c][i] = accepted[c][i]
  BY <1>5, <1>6, AppendProperties
<1>8. \A i \in 1..(n + 1) : i \in 1..n \/ i = n + 1
  BY <1>6
<1>9. /\ shown[c] \in Seq(Parts \cup {"dangling"}) /\ Len(shown[c]) \in Nat
      /\ shown' \in [Callers -> Seq(Parts \cup {"dangling"})]
      /\ \A d \in Callers \ {c} : shown'[d] = shown[d]
      /\ notice[c] \/ Known(c) => shown'[c] = shown[c]
      /\ ~notice[c] /\ ~Known(c) => shown'[c] = Append(shown[c], Part(c))
  <2>1. shown[c] \in Seq(Parts \cup {"dangling"})
    BY <1>3 DEF Types
  <2>2. CASE notice[c] \/ Known(c)
    <3>1. shown' = [shown EXCEPT ![c] = shown[c]]
      BY <1>1, <2>2
    <3>2. /\ shown' \in [Callers -> Seq(Parts \cup {"dangling"})] /\ shown'[c] = shown[c]
          /\ \A d \in Callers \ {c} : shown'[d] = shown[d]
      BY <1>3, <2>1, <3>1 DEF Types
    <3>3. Len(shown[c]) \in Nat
      BY <2>1
    <3> QED BY <2>1, <2>2, <3>2, <3>3
  <2>3. CASE ~notice[c] /\ ~Known(c)
    <3>1. shown' = [shown EXCEPT ![c] = Append(shown[c], Part(c))]
      BY <1>1, <1>4, <2>3
    <3>2. Append(shown[c], Part(c)) \in Seq(Parts \cup {"dangling"})
      BY <1>4, <2>1, AppendProperties
    <3>3. /\ shown' \in [Callers -> Seq(Parts \cup {"dangling"})]
          /\ shown'[c] = Append(shown[c], Part(c))
          /\ \A d \in Callers \ {c} : shown'[d] = shown[d]
      BY <1>3, <3>1, <3>2 DEF Types
    <3>4. Len(shown[c]) \in Nat
      BY <2>1
    <3> QED BY <2>1, <2>3, <3>3, <3>4
  <2> QED BY <2>2, <2>3
<1>10. \/ /\ notice[c] /\ Moves(c, "returned") /\ Results(c, "error") /\ UNCHANGED <<next, notice>>
       \/ /\ ~notice[c] /\ Moves(c, "part") /\ Results(c, result[c]) /\ UNCHANGED notice
          /\ next' = [next EXCEPT ![c] = next[c] + 1]
       \/ /\ ~notice[c] /\ Moves(c, "failed") /\ UNCHANGED <<next, notice>>
          /\ (Results(c, "error") \/ Results(c, result[c]))
  <2>1. CASE notice[c]
    <3>1. Return(c, "error") /\ UNCHANGED <<next, notice>>
      BY <2>1 DEF AnswerSend
    <3> QED BY <1>3, <2>1, <3>1, ReturnMoves
  <2>2. CASE ~notice[c] /\ Fail(c)
    <3>1. Failed(c) = "failed"
      BY <2>2 DEF Failed
    <3>2. /\ Moves(c, Failed(c)) /\ UNCHANGED <<next, notice>>
          /\ Results(c, "error") \/ (~notice[c] /\ Results(c, result[c]))
      BY <1>3, <2>2, FailMoves
    <3>3. Moves(c, "failed")
      BY <3>1, <3>2 DEF Moves
    <3> QED BY <2>2, <3>2, <3>3
  <2>3. CASE ~notice[c] /\ ~Fail(c)
    <3>1. /\ Goto(c, "part") /\ next' = [next EXCEPT ![c] = next[c] + 1]
          /\ UNCHANGED <<notice, result>>
      BY <2>3 DEF AnswerSend
    <3>2. Moves(c, "part")
      BY <1>3, <3>1, GotoMoves DEF Places
    <3>3. Results(c, result[c])
      BY <1>3, <3>1, SameResults
    <3> QED BY <2>3, <3>1, <3>2, <3>3
  <2> QED BY <2>1, <2>2, <2>3
<1>11. /\ pc' \in [Callers -> Places] /\ pc'[c] \in {"returned", "part", "failed"}
       /\ pc'[c] = "part" => next'[c] = next[c] + 1
       /\ pc'[c] # "part" => next'[c] = next[c]
       /\ next' \in [Callers -> Nat]
       /\ result' \in [Callers -> {"none", "nil", "error"}] /\ result'[c] \in {"error", result[c]}
       /\ \A d \in Callers \ {c} : pc'[d] = pc[d] /\ next'[d] = next[d] /\ result'[d] = result[d]
  <2>1. ASSUME NEW p, p \in {"returned", "part", "failed"}, Moves(c, p)
        PROVE  /\ pc' \in [Callers -> Places] /\ pc'[c] = p
               /\ \A d \in Callers \ {c} : pc'[d] = pc[d]
    BY <2>1 DEF Moves
  <2>2. /\ result' \in [Callers -> {"none", "nil", "error"}]
        /\ result'[c] \in {"error", result[c]}
        /\ \A d \in Callers \ {c} : result'[d] = result[d]
    BY <1>10 DEF Results
  <2>3. CASE UNCHANGED next /\ (Moves(c, "returned") \/ Moves(c, "failed"))
    BY <1>3, <2>1, <2>2, <2>3 DEF Types
  <2>4. CASE Moves(c, "part") /\ next' = [next EXCEPT ![c] = next[c] + 1]
    <3>1. /\ next' \in [Callers -> Nat] /\ next'[c] = next[c] + 1
          /\ \A d \in Callers \ {c} : next'[d] = next[d]
      BY <1>3, <2>4 DEF Types
    <3> QED BY <2>1, <2>2, <2>4, <3>1
  <2> QED BY <1>10, <2>3, <2>4
<1>12. notice' = notice /\ (notice[c] <=> pc'[c] = "returned")
  BY <1>10 DEF Moves
<1>13. Types'
  <2>1. ready' \in BOOLEAN /\ notice' \in [Callers -> BOOLEAN] /\ thumb' \in [Callers -> BOOLEAN]
    BY <1>1, <1>12 DEF Inv, Types, sessionVars, uploadVars
  <2>2. attempt' \in [Callers -> Nat] /\ uploaded' \in [Callers -> SUBSET {"data", "thumb"}]
    BY <1>1, SameUploads
  <2> QED BY <1>2, <1>3, <1>6, <1>9, <1>11, <2>1, <2>2 DEF Types
<1>14. Bound'
  BY <1>1, <1>2, <1>11 DEF Inv, Bound
<1>15. \A d \in Callers \ {c} : UNCHANGED OfCall(d)
  <2>1. UNCHANGED <<uploaded, thumb>>
    BY <1>1 DEF uploadVars
  <2> QED BY <1>2, <1>6, <1>9, <1>11, <1>12, <2>1 DEF OfCall
<1>16. Progress(c)'
  BY <1>1, <1>2, <1>3, <1>4, <1>11, <1>12 DEF Progress, AllSent
<1>17. Named(c)'
  <2>1. \A i \in 1..n :
           /\ accepted'[c][i].id >= 1 /\ accepted'[c][i].id <= ids[c]
           /\ content[c].single => (accepted'[c][i].item # "notice" <=>
                                       accepted'[c][i].id = returned[c])
    BY <1>3, <1>7 DEF Named
  <2>2. /\ m.id >= 1 /\ m.id <= ids[c]
        /\ content[c].single => (m.item # "notice" <=> m.id = returned[c])
    BY <1>1, <1>3, <1>4, <1>5 DEF Named
  <2> QED BY <1>2, <1>3, <1>7, <1>8, <1>11, <2>1, <2>2 DEF Named
<1>18. Tried(c)'
  <2>1. tries'[c] = tries[c] /\ tries[c] \in Nat /\ tries[c] >= 1
    <3>1. tries[c] \in Nat /\ tries[c] # 0
      BY <1>1, <1>3 DEF Progress, Types
    <3> QED BY <1>2, <3>1
  <2>2. \A i \in 1..n : /\ accepted[c][i].try >= 1 /\ accepted[c][i].try <= tries[c]
                        /\ accepted[c][i].item = "notice" => accepted[c][i].try # tries[c]
                        /\ content[c].single /\ ~notice[c] => accepted[c][i].try # tries[c]
    <3>1. content[c].single => next[c] = 1
      BY <1>3, SingleFirst
    <3> QED BY <1>1, <1>3, <3>1 DEF Tried
  <2>3. \A i \in 1..n : accepted[c][i].id = m.id => content[c].single /\ ~notice[c]
    <3>1. DOMAIN accepted[c] = 1..n
      BY AcceptedTypes
    <3> QED BY <1>1, <1>3, <1>5, <3>1 DEF Named, Known
  <2>4. ASSUME NEW i \in 1..(n + 1)
        PROVE  /\ accepted'[c][i].try >= 1 /\ accepted'[c][i].try <= tries[c]
               /\ accepted'[c][i].item = "notice" /\ accepted'[c][i].try = tries[c] =>
                     pc'[c] = "returned"
               /\ content[c].single /\ next'[c] = 1 /\ ~notice[c]
                  /\ pc'[c] \notin {"failed", "returned"} => accepted'[c][i].try # tries[c]
    <3>1. CASE i \in 1..n
      <4>1. next'[c] # 1 \/ pc'[c] # "part"
        BY <1>3, <1>4, <1>11
      <4> QED BY <1>7, <1>11, <2>2, <3>1, <4>1
    <3>2. CASE i = n + 1
      <4>1. next'[c] # 1 \/ pc'[c] # "part"
        BY <1>3, <1>4, <1>11
      <4>2. m.item = "notice" => pc'[c] = "returned"
        BY <1>4, <1>5, <1>12
      <4> QED BY <1>5, <1>7, <1>11, <2>1, <3>2, <4>1, <4>2
    <3> QED BY <1>8, <3>1, <3>2
  <2>5. ASSUME NEW i \in 1..(n + 1), NEW j \in 1..(n + 1), i < j
        PROVE  /\ accepted'[c][i].item = "notice" => accepted'[c][i].try # accepted'[c][j].try
               /\ accepted'[c][i].id = accepted'[c][j].id =>
                     content[c].single /\ accepted'[c][i].try # accepted'[c][j].try
    <3>1. i \in 1..n /\ accepted'[c][i] = accepted[c][i]
      BY <1>6, <1>7, <2>5
    <3>2. CASE j \in 1..n
      <4>1. accepted'[c][j] = accepted[c][j]
        BY <1>7, <3>2
      <4> QED BY <1>3, <2>5, <3>1, <3>2, <4>1 DEF Tried
    <3>3. CASE j = n + 1
      <4>1. accepted'[c][j] = m
        BY <1>7, <3>3
      <4> QED BY <1>5, <2>2, <2>3, <3>1, <4>1
    <3> QED BY <1>8, <3>2, <3>3
  <2> QED BY <1>2, <1>7, <1>12, <2>4, <2>5 DEF Tried
<1>19. Shown(c)'
  <2>1. CASE notice[c]
    <3>1. shown'[c] = shown[c] /\ pc'[c] = "returned" /\ next'[c] = next[c] /\ m.item = "notice"
      BY <1>4, <1>5, <1>9, <1>11, <1>12, <2>1
    <3>2. (\E i \in 1..(n + 1) : accepted'[c][i].item # "notice") <=>
          (\E i \in 1..n : accepted[c][i].item # "notice")
      BY <1>6, <1>7, <1>8, <3>1
    <3> QED BY <1>2, <1>3, <1>7, <3>1, <3>2 DEF Shown, AllSent
  <2>2. CASE ~notice[c] /\ ~Known(c)
    <3>1. shown'[c] = Append(shown[c], Part(c)) /\ m.item # "notice"
      BY <1>4, <1>5, <1>9, <2>2
    <3>2. /\ Len(shown'[c]) = Len(shown[c]) + 1 /\ shown'[c][Len(shown[c]) + 1] = Part(c)
          /\ \A k \in 1..Len(shown[c]) : shown'[c][k] = shown[c][k]
      BY <1>4, <1>9, <3>1, AppendProperties
    <3>3. Len(shown[c]) = next[c] - 1
      <4>1. CASE ~content[c].single
        BY <1>1, <1>3, <2>2, <4>1 DEF Shown
      <4>2. CASE content[c].single
        <5>1. \A i \in 1..n : accepted[c][i].item = "notice"
          <6>1. DOMAIN accepted[c] = 1..n
            BY AcceptedTypes
          <6> QED BY <1>1, <1>3, <2>2, <4>2, <6>1 DEF Named, Known
        <5>2. shown[c] = <<>>
          BY <1>3, <4>2, <5>1 DEF Shown
        <5>3. next[c] = 1
          BY <1>3, <4>2, SingleFirst
        <5> QED BY <5>2, <5>3
      <4> QED BY <4>1, <4>2
    <3>4. /\ Len(shown'[c]) = next[c] /\ Len(shown'[c]) <= Len(content[c].parts)
          /\ \A k \in 1..Len(shown'[c]) : shown'[c][k] = content[c].parts[k]
      <4>1. next[c] \in Nat /\ Len(content[c].parts) \in Nat
        BY <1>3, ContentTypes
      <4>2. \A k \in 1..Len(shown[c]) : shown[c][k] = content[c].parts[k]
        BY <1>3 DEF Shown
      <4>3. Len(shown[c]) \in Nat /\ Len(shown'[c]) = next[c]
            /\ next[c] <= Len(content[c].parts)
        BY <1>4, <1>9, <3>2, <3>3, <4>1
      <4>4. ASSUME NEW k \in 1..Len(shown'[c])
            PROVE  shown'[c][k] = content[c].parts[k]
        <5>1. CASE k \in 1..Len(shown[c])
          BY <3>2, <4>2, <5>1
        <5>2. CASE k = Len(shown[c]) + 1
          <6>1. k = next[c]
            BY <3>3, <4>1, <4>3, <5>2
          <6> QED BY <1>4, <3>2, <5>2, <6>1
        <5> QED BY <3>2, <4>3, <5>1, <5>2
      <4> QED BY <4>3, <4>4
    <3>5. shown'[c] # <<>>
      BY <1>4, <3>4
    <3>6. \E i \in 1..(n + 1) : accepted'[c][i].item # "notice"
      <4>1. n + 1 \in 1..(n + 1)
        BY <1>6
      <4> QED BY <1>7, <3>1, <4>1
    <3>7. Len(content[c].parts) \in Nat
      BY <1>3, ContentTypes
    <3> QED BY <1>2, <1>3, <1>4, <1>7, <1>11, <3>4, <3>5, <3>6, <3>7 DEF AllSent, Shown
  <2>3. CASE ~notice[c] /\ Known(c)
    <3>1. shown'[c] = shown[c] /\ m.item # "notice"
      BY <1>4, <1>5, <1>9, <2>3
    <3>2. content[c].single
      BY <1>1, <1>3, <2>3 DEF Named
    <3>3. next[c] = 1 /\ Len(content[c].parts) = 1
      BY <1>3, <3>2, SingleFirst
    <3>4. PICK i \in 1..n : accepted[c][i].item # "notice"
      <4>1. DOMAIN accepted[c] = 1..n
        BY AcceptedTypes
      <4> QED BY <1>1, <1>3, <2>3, <3>2, <4>1 DEF Named, Known
    <3>5. shown[c] # <<>>
      BY <1>3, <3>2, <3>4 DEF Shown
    <3>6. Len(shown[c]) = 1
      <4>1. Len(shown[c]) # 0
        BY <1>9, <3>5, EmptySeq
      <4>2. Len(shown[c]) <= 1
        BY <1>3, <3>3 DEF Shown
      <4>3. Len(shown[c]) \in Nat
        BY <1>9
      <4>4. \A x \in Nat : x # 0 /\ x <= 1 => x = 1
        OBVIOUS
      <4> QED BY <4>1, <4>2, <4>3, <4>4
    <3>7. \E k \in 1..(n + 1) : accepted'[c][k].item # "notice"
      <4>1. i \in 1..(n + 1)
        BY <1>6
      <4> QED BY <1>7, <3>4, <4>1
    <3> QED BY <1>2, <1>3, <1>7, <3>1, <3>2, <3>3, <3>5, <3>6, <3>7 DEF AllSent, Shown
  <2> QED BY <2>1, <2>2, <2>3
<1> QED BY <1>13, <1>14, <1>15, <1>16, <1>17, <1>18, <1>19, CallKeeps

----------------------------------------------------------------------------
(***************************************************************************)
(* The session, and the theorems.                                          *)
(***************************************************************************)
LEMMA SessionKeeps ==
    ASSUME Inv, UNCHANGED <<pc, argVars, next, uploadVars, notice, sentVars, result>>,
           ready' \in BOOLEAN, generation' \in Nat, contextToken' \in Nat, Bound'
    PROVE  Inv'
<1>1. UNCHANGED <<pc, content, gen, token, next, attempt, uploaded, clientID, returned, ids,
                  tries, accepted, shown, result>>
  BY DEF argVars, uploadVars, sentVars, idVars, userVars
<1>2. UNCHANGED <<thumb, notice>>
  BY DEF uploadVars
<1>3. Types'
  <2>1. thumb' \in [Callers -> BOOLEAN] /\ notice' \in [Callers -> BOOLEAN]
    BY <1>2 DEF Inv, Types
  <2> QED BY <1>1, <2>1 DEF Inv, Types
<1>4. ASSUME NEW d \in Callers
      PROVE  Progress(d)' /\ Named(d)' /\ Tried(d)' /\ Shown(d)'
  <2>1. UNCHANGED OfCall(d)
    BY <1>1, <1>2 DEF OfCall
  <2> QED BY <2>1, OtherKeeps DEF Inv
<1> QED BY <1>3, <1>4 DEF Inv

LEMMA SessionSteps ==
    ASSUME Inv, Receive \/ LoseSession \/ ClearContexts \/ Reauthenticate \/ UNCHANGED vars
    PROVE  Inv'
<1> USE DEF argVars, uploadVars, sentVars, idVars, userVars
<1>1. /\ UNCHANGED <<pc, argVars, next, uploadVars, notice, sentVars, result>>
      /\ ready' \in {TRUE, FALSE, ready}
  BY DEF Receive, LoseSession, ClearContexts, Reauthenticate, vars
<1>2. ready' \in BOOLEAN
  BY <1>1 DEF Inv, Types
<1>3. /\ generation \in Nat /\ contextToken \in Nat /\ gen \in [Callers -> Nat]
      /\ UNCHANGED <<pc, gen, token>>
  BY <1>1 DEF Inv, Types
<1>4. \/ generation' = generation /\ contextToken' \in {contextToken, generation, NoToken}
      \/ /\ generation' = generation + 1 /\ contextToken = NoToken /\ UNCHANGED contextToken
         /\ \A c \in Callers : pc[c] \notin {"urlWait", "sendWait"}
  BY DEF Receive, LoseSession, ClearContexts, Reauthenticate, vars
<1>5. generation' \in Nat /\ contextToken' \in Nat
  BY <1>3, <1>4 DEF NoToken
<1>6. Bound'
  <2>1. Bound
    BY DEF Inv
  <2>2. CASE generation' = generation
    BY <1>3, <1>4, <2>1, <2>2 DEF Bound
  <2>3. CASE generation' = generation + 1 /\ contextToken = NoToken /\ UNCHANGED contextToken
             /\ \A c \in Callers : pc[c] \notin {"urlWait", "sendWait"}
    <3>1. \A c \in Callers : gen[c] \in Nat /\ gen[c] <= generation
      BY <1>3, <2>1 DEF Bound
    <3>2. \A c \in Callers : gen'[c] <= generation' /\ gen'[c] < generation'
      BY <1>3, <2>3, <3>1
    <3> QED BY <1>3, <2>1, <2>3, <3>2 DEF Bound
  <2> QED BY <1>4, <2>2, <2>3
<1> QED BY <1>1, <1>2, <1>5, <1>6, SessionKeeps

LEMMA InvNext == Inv /\ [Next]_vars => Inv'
<1> SUFFICES ASSUME Inv, [Next]_vars PROVE Inv'
  OBVIOUS
<1>1. CASE Receive \/ LoseSession \/ ClearContexts \/ Reauthenticate \/ UNCHANGED vars
  BY <1>1, SessionSteps
<1>2. ASSUME NEW c \in Callers, Call(c) \/ Retry(c) \/ Step(c)
      PROVE  Inv'
  <2>1. CASE Step(c)
    BY <2>1, LookUpTokenKeeps, PersistTokenKeeps, ResolveKeeps, BeginPartKeeps,
       BeginRequestKeeps, AnswerURLKeeps, UploadOKKeeps, UploadRetryKeeps, UploadRefusedKeeps,
       CheckUploadedKeeps, BeforeSendKeeps, HookFailsKeeps, AnswerSendKeeps, NotifyErrorKeeps,
       AnswerErrorKeeps DEF Step
  <2> QED BY <1>2, <2>1, CallKeepsInv, RetryKeeps
<1> QED BY <1>1, <1>2 DEF Next

LEMMA Invariant == Spec => []Inv
BY InvInit, InvNext, PTL DEF Spec

\* A request with a message carries a token of the session it is made in, for any
\* number of callers and whenever the session is lost and replaced meanwhile.
THEOREM TokensMatch == Spec => []TokenOfSession
<1>1. Inv => TokenOfSession
  <2> SUFFICES ASSUME Inv, NEW c \in Callers, pc[c] = "sendWait"
               PROVE  token[c] = gen[c] /\ generation = gen[c]
    BY DEF TokenOfSession
  <2>1. gen[c] = generation /\ generation \in Nat /\ (token[c] = gen[c] \/ gen[c] < generation)
    BY DEF Inv, Types, Bound
  <2> QED BY <2>1
<1> QED BY <1>1, Invariant, PTL

\* The user sees the parts of a content in order, each once and complete, however
\* often answers get lost and a message is sent again with its client id.
THEOREM PartsInOrder == Spec => []PrefixSent
<1>1. Inv => PrefixSent
  <2> SUFFICES ASSUME Inv, NEW c \in Callers
               PROVE  /\ IsPrefix(shown[c], content[c].parts)
                      /\ result[c] = "nil" => shown[c] = content[c].parts
                      /\ \A i, j \in DOMAIN accepted[c] : i < j =>
                            /\ accepted[c][i].item = "notice" =>
                                  accepted[c][i].try # accepted[c][j].try
                            /\ accepted[c][i].id = accepted[c][j].id =>
                                  content[c].single /\ accepted[c][i].try # accepted[c][j].try
    BY DEF PrefixSent
  <2>1. /\ content[c].parts \in Seq(Parts) /\ Len(content[c].parts) \in Nat
        /\ shown[c] \in Seq(Parts \cup {"dangling"}) /\ Len(shown[c]) \in Nat
        /\ content[c].parts \in Seq(Parts \cup {"dangling"})
    <3>1. shown[c] \in Seq(Parts \cup {"dangling"}) /\ Types
      BY DEF Inv, Types
    <3>2. content[c].parts \in Seq(Parts) /\ Len(content[c].parts) \in Nat
      BY <3>1, ContentTypes
    <3> QED BY <3>1, <3>2
  <2>2. /\ Len(shown[c]) <= Len(content[c].parts)
        /\ \A k \in 1..Len(shown[c]) : shown[c][k] = content[c].parts[k]
    BY DEF Inv, Shown
  <2>3. SubSeq(shown[c], 1, Len(shown[c])) = SubSeq(content[c].parts, 1, Len(shown[c]))
    BY <2>1, <2>2
  <2>4. result[c] = "nil" => shown[c] = content[c].parts
    <3> SUFFICES ASSUME result[c] = "nil" PROVE shown[c] = content[c].parts
      OBVIOUS
    <3>1. Len(shown[c]) = Len(content[c].parts)
      BY DEF Inv, Progress, Shown
    <3> QED BY <2>1, <2>2, <3>1, SeqEqual
  <2>5. DOMAIN accepted[c] = 1..Len(accepted[c]) /\ Tried(c)
    BY AcceptedTypes DEF Inv
  <2> QED BY <2>2, <2>3, <2>4, <2>5 DEF IsPrefix, Tried
<1> QED BY <1>1, Invariant, PTL

(***************************************************************************)
(* The type invariant: the bounds on sessions, tries and upload attempts.  *)
(***************************************************************************)
LimitsOf(c) ==
    /\ token[c] <= generation /\ tries[c] <= MaxTries
    /\ attempt[c] <= MaxRetries
    /\ pc[c] = "upload" => attempt[c] < MaxRetries

Limits == generation <= MaxGeneration /\ \A c \in Callers : LimitsOf(c)

\* A step of call c leaves the numbers of the others alone.
LEMMA LimitsKeep ==
    ASSUME Limits, NEW c \in Callers, generation' = generation, LimitsOf(c)',
           \A d \in Callers \ {c} : /\ token'[d] = token[d] /\ tries'[d] = tries[d]
                                    /\ attempt'[d] = attempt[d] /\ pc'[d] = pc[d]
    PROVE  Limits'
BY DEF Limits, LimitsOf

\* Wherever an error takes a call, it leaves the upload.
LEMMA FailPlace ==
    ASSUME Types, NEW c \in Callers, Fail(c)
    PROVE  pc'[c] # "upload" /\ \A d \in Callers \ {c} : pc'[d] = pc[d]
BY DEF Types, Fail, Return, Goto

\* Steps that count nothing and do not enter the upload.
LEMMA PlainLimits ==
    ASSUME Inv, Limits, NEW c \in Callers,
           \/ Resolve(c) \/ BeginPart(c) \/ GetUploadURL(c) \/ SendMessage(c)
           \/ UploadRefused(c) \/ CheckUploaded(c) \/ BeforeSend(c) \/ HookFails(c)
           \/ AnswerSend(c) \/ NotifyError(c) \/ \E expired \in BOOLEAN : AnswerError(c, expired)
    PROVE  Limits'
<1> USE DEF sessionVars, argVars, uploadVars, sentVars, idVars, Identify
<1>1. UNCHANGED <<generation, token, tries, attempt>>
  BY DEF Resolve, BeginPart, GetUploadURL, SendMessage, BeginRequest, UploadRefused,
         CheckUploaded, BeforeSend, HookFails, AnswerSend, NotifyError, AnswerError
<1>2. Types
  BY DEF Inv
<1>3. pc'[c] # "upload" /\ \A d \in Callers \ {c} : pc'[d] = pc[d]
  <2>1. CASE Resolve(c)
    BY <1>2, <2>1 DEF Resolve, Return, Goto, Types
  <2>2. CASE BeginPart(c)
    <3>1. \/ Return(c, "nil") \/ Fail(c)
          \/ Goto(c, IF Part(c) \in Media THEN "url" ELSE "hook")
      BY <2>2 DEF BeginPart
    <3> QED BY <1>2, <3>1, FailPlace DEF Return, Goto, Types
  <2>3. CASE GetUploadURL(c) \/ SendMessage(c)
    <3>1. Fail(c) \/ Goto(c, "urlWait") \/ Goto(c, "sendWait")
      BY <2>3 DEF GetUploadURL, SendMessage, BeginRequest
    <3> QED BY <1>2, <3>1, FailPlace DEF Goto, Types
  <2>4. CASE UploadRefused(c) \/ HookFails(c) \/ \E expired \in BOOLEAN : AnswerError(c, expired)
    BY <1>2, <2>4, FailPlace DEF UploadRefused, HookFails, AnswerError
  <2>5. CASE CheckUploaded(c) \/ BeforeSend(c)
    <3>1. Fail(c) \/ Goto(c, "hook") \/ Goto(c, "send")
      BY <2>5 DEF CheckUploaded, BeforeSend
    <3> QED BY <1>2, <3>1, FailPlace DEF Goto, Types
  <2>6. CASE AnswerSend(c)
    <3>1. notice[c] \in BOOLEAN
      BY <1>2 DEF Types
    <3>2. Return(c, "error") \/ Fail(c) \/ Goto(c, "part")
      BY <2>6, <3>1 DEF AnswerSend
    <3> QED BY <1>2, <3>2, FailPlace DEF Return, Goto, Types
  <2>7. CASE NotifyError(c)
    BY <1>2, <2>7 DEF NotifyError, Return, Goto, Types
  <2> QED BY <2>1, <2>2, <2>3, <2>4, <2>5, <2>6, <2>7
<1> QED BY <1>1, <1>3, LimitsKeep DEF Limits, LimitsOf

\* The three attempts of an upload are counted from zero.
LEMMA UploadLimits ==
    ASSUME Inv, Limits, NEW c \in Callers,
           \/ \E offered \in BOOLEAN : AnswerURL(c, offered)
           \/ UploadOK(c) \/ UploadRetry(c)
    PROVE  Limits'
<1> USE DEF sessionVars, argVars, sentVars, idVars
<1>1. UNCHANGED <<generation, token, tries>>
  BY DEF AnswerURL, UploadOK, UploadRetry
<1>2. Types
  BY DEF Inv
<1>3. CASE (\E offered \in BOOLEAN : AnswerURL(c, offered)) \/ UploadOK(c)
  <2>1. /\ attempt'[c] = 0
        /\ \A d \in Callers \ {c} : attempt'[d] = attempt[d] /\ pc'[d] = pc[d]
    BY <1>2, <1>3 DEF AnswerURL, UploadOK, Goto, Types
  <2> QED BY <1>1, <2>1, LimitsKeep DEF Limits, LimitsOf, MaxRetries
<1>4. CASE UploadRetry(c)
  <2>1. /\ attempt'[c] = attempt[c] + 1 /\ attempt[c] \in Nat /\ pc[c] = "upload"
        /\ \A d \in Callers \ {c} : attempt'[d] = attempt[d]
    BY <1>2, <1>4 DEF UploadRetry, Types
  <2>2. \A d \in Callers \ {c} : pc'[d] = pc[d]
    BY <1>2, <1>4, FailPlace DEF UploadRetry
  <2>3. LastAttempt(c) => pc'[c] # "upload"
    BY <1>2, <1>4, FailPlace DEF UploadRetry
  <2>4. attempt[c] < MaxRetries
    BY <2>1 DEF Limits, LimitsOf
  <2>5. attempt'[c] <= MaxRetries /\ (pc'[c] = "upload" => attempt'[c] < MaxRetries)
    BY <2>1, <2>3, <2>4 DEF LastAttempt, MaxRetries
  <2> QED BY <1>1, <2>1, <2>2, <2>5, LimitsKeep DEF Limits, LimitsOf
<1> QED BY <1>3, <1>4

\* A call and its tries, and the token it takes.
LEMMA CallLimits ==
    ASSUME Inv, Limits, NEW c \in Callers,
           Call(c) \/ Retry(c) \/ LookUpToken(c) \/ PersistToken(c)
    PROVE  Limits'
<1> USE DEF sessionVars, uploadVars, sentVars, idVars
<1>1. Types /\ Bound /\ generation \in Nat /\ gen[c] \in Nat
  BY DEF Inv, Types
<1>2. UNCHANGED <<generation, attempt>>
  BY DEF Call, Retry, LookUpToken, PersistToken
<1>3. pc'[c] # "upload" /\ \A d \in Callers \ {c} : pc'[d] = pc[d]
  BY <1>1 DEF Call, Retry, LookUpToken, PersistToken, Return, Goto, Types
<1>4. CASE Call(c) \/ Retry(c)
  <2>1. /\ token' = token /\ \A d \in Callers \ {c} : tries'[d] = tries[d]
        /\ tries'[c] = 1 \/ (tries'[c] = tries[c] + 1 /\ tries[c] < MaxTries)
    BY <1>1, <1>4 DEF Call, Retry, Types
  <2>2. tries'[c] <= MaxTries
    BY <1>1, <2>1, OutboundAssumption DEF Types
  <2> QED BY <1>2, <1>3, <2>1, <2>2, LimitsKeep DEF Limits, LimitsOf
<1>5. CASE LookUpToken(c) \/ PersistToken(c)
  <2>1. /\ tries' = tries /\ \A d \in Callers \ {c} : token'[d] = token[d]
        /\ token'[c] = contextToken \/ token'[c] = gen[c]
    BY <1>1, <1>5 DEF LookUpToken, PersistToken, Types
  <2>2. token'[c] <= generation
    BY <1>1, <2>1 DEF Bound, NoToken
  <2> QED BY <1>2, <1>3, <2>1, <2>2, LimitsKeep DEF Limits, LimitsOf
<1> QED BY <1>4, <1>5

LEMMA LimitsNext == ASSUME Inv, Limits, [Next]_vars PROVE Limits'
<1>1. CASE Receive \/ LoseSession \/ ClearContexts \/ Reauthenticate \/ UNCHANGED vars
  <2>1. UNCHANGED <<pc, token, tries, attempt>>
    BY <1>1 DEF Receive, LoseSession, ClearContexts, Reauthenticate, vars, argVars,
                uploadVars, sentVars, idVars
  <2>2. /\ generation' = generation \/ (generation' = generation + 1 /\ generation < MaxGeneration)
        /\ generation \in Nat /\ MaxGeneration \in Nat
    BY <1>1, OutboundAssumption DEF Receive, LoseSession, ClearContexts, Reauthenticate, vars,
                                    Inv, Types
  <2>3. generation' <= MaxGeneration /\ generation <= generation'
    BY <2>2 DEF Limits
  <2>4. \A c \in Callers : token'[c] <= generation'
    BY <2>1, <2>2, <2>3 DEF Limits, LimitsOf, Inv, Types
  <2> QED BY <2>1, <2>3, <2>4 DEF Limits, LimitsOf
<1>2. ASSUME NEW c \in Callers, Call(c) \/ Retry(c) \/ Step(c)
      PROVE  Limits'
  <2>1. CASE Step(c)
    BY <2>1, PlainLimits, UploadLimits, CallLimits DEF Step
  <2> QED BY <1>2, <2>1, CallLimits
<1> QED BY <1>1, <1>2 DEF Next

\* Every variable keeps its range: an upload is tried at most three times, a
\* call never holds a token of a session that is still to come, and every message
\* that the server accepted has a client id and a try of its call.
THEOREM TypeInvariant == Spec => []TypeOK
<1>1. Init => Limits
  <2> SUFFICES ASSUME Init PROVE Limits
    OBVIOUS
  <2>1. 1 <= MaxGeneration /\ 0 <= MaxTries
    BY OutboundAssumption
  <2>2. \A c \in Callers : /\ pc[c] = "idle" /\ token[c] = 0 /\ tries[c] = 0
                           /\ attempt[c] = 0
    BY DEF Init, NoToken
  <2>3. generation = 1
    BY DEF Init
  <2> QED BY <2>1, <2>2, <2>3 DEF Limits, LimitsOf, MaxRetries
<1>2. Inv /\ Limits /\ [Next]_vars => Limits'
  BY LimitsNext
<1>3. Inv /\ Limits => TypeOK
  <2> SUFFICES ASSUME Inv, Limits PROVE TypeOK
    OBVIOUS
  <2>1. Types /\ Bound
    BY DEF Inv
  <2>2. generation \in 1..MaxGeneration /\ contextToken \in 0..generation
    BY <2>1, OutboundAssumption DEF Types, Bound, Limits, NoToken
  <2>3. gen \in [Callers -> 0..generation] /\ token \in [Callers -> 0..generation]
    BY <2>1 DEF Types, Bound, Limits, LimitsOf
  <2>4. attempt \in [Callers -> 0..MaxRetries]
    <3>1. attempt \in [Callers -> Nat]
      BY <2>1 DEF Types
    <3>2. \A c \in Callers : attempt[c] \in 0..MaxRetries
      BY <3>1 DEF Limits, LimitsOf, MaxRetries
    <3> QED BY <3>1, <3>2
  <2>5. ASSUME NEW c \in Callers
        PROVE  /\ content[c] \in Contents /\ next[c] \in 1..(Len(content[c].parts) + 1)
               /\ {clientID[c], returned[c]} \subseteq 0..ids[c] /\ tries[c] \in 0..MaxTries
               /\ shown[c] \in Seq(Parts \cup {"dangling"})
               /\ accepted[c] \in Seq([item : Parts \cup {"notice", "dangling"},
                                       id : 1..ids[c], try : 1..tries[c]])
    <3>1. Progress(c) /\ Named(c) /\ Tried(c) /\ LimitsOf(c)
      BY DEF Inv, Limits
    <3>2. next[c] \in 1..(Len(content[c].parts) + 1)
      BY <2>1, <3>1, ContentTypes DEF Types, Progress
    <3>3. {clientID[c], returned[c]} \subseteq 0..ids[c] /\ tries[c] \in 0..MaxTries
      BY <2>1, <3>1, OutboundAssumption DEF Types, Named, LimitsOf
    <3> DEFINE M == [item : Parts \cup {"notice", "dangling"},
                     id : 1..ids[c], try : 1..tries[c]]
    <3>4. accepted[c] \in Seq(Messages) /\ ids[c] \in Nat /\ tries[c] \in Nat
      BY <2>1 DEF Types
    <3>5. \A i \in 1..Len(accepted[c]) : accepted[c][i] \in M
      <4> TAKE i \in 1..Len(accepted[c])
      <4>1. accepted[c][i] \in Messages
        BY <3>4
      <4>2. accepted[c][i].id \in 1..ids[c] /\ accepted[c][i].try \in 1..tries[c]
        BY <3>1, <3>4, <4>1 DEF Named, Tried, Messages
      <4> QED BY <4>1, <4>2 DEF Messages
    <3>6. accepted[c] \in Seq(M)
      <4> HIDE DEF M
      <4> QED BY <3>4, <3>5
    <3> QED BY <2>1, <3>2, <3>3, <3>6 DEF Types
  <2> QED BY <2>1, <2>2, <2>3, <2>4, <2>5 DEF TypeOK, Types
<1> QED BY <1>1, <1>2, <1>3, Invariant, PTL DEF Spec
=============================================================================
