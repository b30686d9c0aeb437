---------------------------- MODULE MCAlgorithms ----------------------------
(***************************************************************************)
(* The sequential algorithms of the bot, each run once on every input of a *)
(* bounded set: chunkText, redact.Error, the times of Run's polls, and the *)
(* encryption of media.                                                    *)
(***************************************************************************)
EXTENDS TextChunks, RedactErrors, PollTiming, MediaDownload

CONSTANTS
    MaxLen,             \* bound: runes of a text
    MaxErrors,          \* bound: errors in one another
    Bytes, MaxBytes     \* bounds: byte values of media, bytes of media

VARIABLE function       \* the function called

vars == <<function, chunkVars, errorVars, pollVars, mediaVars>>

----------------------------------------------------------------------------
SeqsUpTo(S, n) == UNION {[1..k -> S] : k \in 0..n}

MCTexts == SeqsUpTo(Runes, MaxLen)
MCContents == SeqsUpTo(Bytes, MaxBytes)

\* Keys with all hex digits, and with the base64 characters of 62 and 63.
MCKeys == {[i \in 1..KeySize |-> 17 * i - 17], [i \in 1..KeySize |-> 251]}

\* The n-th error, with causes among the earlier ones.
ErrorAt(n) ==
    LET Node(k, s, c, causes) == [kind |-> k, secret |-> s, comparable |-> c,
                                  causes |-> [i \in DOMAIN causes |-> Original(causes[i])]]
        Before == 1..(n - 1)
    IN  {Node("leaf", s, c, <<>>) : s, c \in BOOLEAN}
        \cup {Node(k, s, TRUE, <<m>>) : k \in {"wrap", "url", "as"}, s \in BOOLEAN, m \in Before}
        \cup {Node("multi", s, c, <<m, k>>) : s, c \in BOOLEAN, m, k \in Before}

AsYieldsURL(es) ==
    \A n \in DOMAIN es : es[n].kind = "as" => es[es[n].causes[1].of].kind = "url"

ErrorsUpTo[n \in 0..MaxErrors] ==
    IF n = 0 THEN {<<>>}
    ELSE {Append(es, err) : es \in ErrorsUpTo[n - 1], err \in ErrorAt(n)}

MCErrors == {es \in ErrorsUpTo[MaxErrors] : AsYieldsURL(es)}

----------------------------------------------------------------------------
\* A function that is not called is at the start of some call.
NoText == /\ text = <<>> /\ limit = 0 /\ rest = <<>> /\ chunks = <<>>
          /\ cutting = TRUE /\ sent = <<>>
NoPolls == /\ PollInit /\ wait = Min(FirstWaits)
NoMedium == /\ medium = [data |-> <<>>, key |-> <<>>, ownKey |-> FALSE, other |-> <<>>,
                        form |-> "B"]
            /\ downloaded = <<>> /\ returned = FALSE
NoErrors == errs = <<>> /\ result = <<>>

Init ==
    \/ function = "chunkText" /\ ChunkInit /\ NoPolls /\ NoMedium /\ NoErrors
    \/ function = "Error" /\ ErrorInit /\ NoText /\ NoPolls /\ NoMedium
    \/ function = "Run" /\ PollInit /\ NoText /\ NoMedium /\ NoErrors
    \/ function = "Download" /\ MediaInit /\ NoText /\ NoPolls /\ NoErrors

RunChunkText == ChunkNext /\ UNCHANGED <<function, pollVars, mediaVars, errorVars>>
RunPolls     == PollNext /\ UNCHANGED <<function, chunkVars, mediaVars, errorVars>>
CallDownload ==
    DownloadMedium /\ UNCHANGED <<function, chunkVars, pollVars, errorVars>>
CallError    ==
    Error /\ UNCHANGED <<function, chunkVars, pollVars, mediaVars>>

Next ==
    \/ function = "chunkText" /\ RunChunkText
    \/ function = "Error" /\ CallError
    \/ function = "Run" /\ RunPolls
    \/ function = "Download" /\ CallDownload

Spec == Init /\ [][Next]_vars
=============================================================================
