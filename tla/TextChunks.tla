----------------------------- MODULE TextChunks -----------------------------
(***************************************************************************)
(* chunkText (content.go): how a text is cut into messages, one step for   *)
(* each turn of its loop.  A text is a sequence of runes, of which only    *)
(* line breaks and spaces are told apart.                                  *)
(***************************************************************************)
EXTENDS Integers, Sequences, FiniteSetsExt

CONSTANTS
    Texts, Limits       \* the arguments of chunkText

Runes == {"x", "space", "newline"}

ASSUME TextsAssumption == Texts \subseteq Seq(Runes) /\ Limits \subseteq Int

VARIABLES
    text, limit,        \* the arguments
    rest,               \* the variable text of the loop: what is not cut yet
    chunks, cutting,    \* the result, and whether it is still growing
    sent                \* history: the chunks, one after another

chunkVars == <<text, limit, rest, chunks, cutting, sent>>

ChunkInit ==
    /\ text \in Texts /\ limit \in Limits
    /\ rest = text /\ chunks = <<>> /\ cutting = TRUE /\ sent = <<>>

----------------------------------------------------------------------------
\* After how many runes of s the separator begins: two line breaks, one, a space.
Paragraphs(s) ==
    {i \in 0..(Len(s) - 2) : s[i + 1] = "newline" /\ s[i + 2] = "newline"}
Lines(s) == {i \in 0..(Len(s) - 1) : s[i + 1] = "newline"}
Spaces(s) == {i \in 0..(Len(s) - 1) : s[i + 1] = "space"}

\* Fault: every boundary counts, also one at the very start.
AnyCut(places) == places # {}

\* strings.LastIndex, if it is in the last 70% of the prefix.
GoodCut(places) == places # {} /\ Max(places) > (limit * 3) \div 10

\* Where the prefix is cut: after the last good separator of the best kind.
Cut(prefix) ==
    IF GoodCut(Paragraphs(prefix)) THEN Max(Paragraphs(prefix)) + 2
    ELSE IF GoodCut(Lines(prefix)) THEN Max(Lines(prefix)) + 1
    ELSE IF GoodCut(Spaces(prefix)) THEN Max(Spaces(prefix)) + 1
    ELSE Len(prefix)

Emit(chunk) == chunks' = Append(chunks, chunk) /\ sent' = sent \o chunk

\* firstRunes is the longest prefix within the limit.
CutChunk ==
    /\ cutting /\ limit > 0 /\ Len(rest) > limit
    /\ LET cut == Cut(SubSeq(rest, 1, limit))
       IN  /\ Emit(SubSeq(rest, 1, cut))
           /\ rest' = SubSeq(rest, cut + 1, Len(rest))
    /\ UNCHANGED <<text, limit, cutting>>

\* What fits goes as a whole, and so does every text under a limit of 0 or less.
\* The loop does not end otherwise, since a cut leaves at least one rune.
LastChunk ==
    /\ cutting /\ (limit <= 0 \/ Len(rest) <= limit)
    /\ Emit(rest)
    /\ rest' = <<>> /\ cutting' = FALSE
    /\ UNCHANGED <<text, limit>>

ChunkNext == CutChunk \/ LastChunk

ChunkSpec == ChunkInit /\ [][ChunkNext]_chunkVars

----------------------------------------------------------------------------
(***************************************************************************)
(* Properties.                                                             *)
(***************************************************************************)

\* The ranks of the places where a text is cut, best first: after a blank line,
\* after a line, after a word, anywhere.
Rank(s, i) ==
    IF i >= 2 /\ s[i - 1] = "newline" /\ s[i] = "newline" THEN 1
    ELSE IF s[i] = "newline" THEN 2
    ELSE IF s[i] = "space" THEN 3
    ELSE 4

\* The chunk cut in this step has a rune, keeps the limit and, unless it is the
\* last, uses up three tenths of it; no better place to cut was passed up in that
\* range.
WellCut ==
    LET n == Len(chunks'[Len(chunks')])
    IN  limit > 0 /\ text # <<>> =>
            /\ n > 0 /\ n <= limit
            /\ rest' # <<>> =>
                  /\ 10 * n > 3 * limit
                  /\ \A i \in 1..limit :
                        10 * (i - 2) > 3 * limit => Rank(rest, n) <= Rank(rest, i)

\* The messages of chunkText are the text, cut up and nothing else: none is empty
\* (unless the text is) or longer than the limit, and all but the last use up
\* three tenths of it, so that a text cannot become a flood of small messages.  A
\* cut that is not after a blank line passed up none in that range, and so for a
\* line and for a space.
ChunksWhole ==
    /\ [](sent \o rest = text /\ (~cutting => rest = <<>>))
    /\ [][WellCut]_chunkVars
=============================================================================
