-------------------------- MODULE AlgorithmsProofs --------------------------
(***************************************************************************)
(* Proofs about the sequential algorithms for every value of their         *)
(* constants: the times of Run's polls, the encryption of media, the       *)
(* messages of chunkText, and redact.Error.                                *)
(***************************************************************************)
EXTENDS TextChunks, RedactErrors, PollTiming, MediaDownload, SequenceTheorems,
        WellFoundedInduction, TLAPS

(***************************************************************************)
(* The times of the polls.                                                 *)
(***************************************************************************)

\* Run's pollTimeout is what the server waits, once the server has named a time,
\* and until then the smallest request time-out is long enough.  The delay is
\* that of the failure that would come next.
WaitKnown ==
    /\ wait \in Nat /\ pollTimeout \in Nat
    /\ wait = pollTimeout \/ wait + Margin <= MinTimeout

DelayKnown == failed \in Nat /\ (~expired => retryDelay = PollDelay(failed + 1))

PollInv == WaitKnown /\ DelayKnown /\ PollTimed

\* A deadline leaves every answer the margin after a wait that the HTTP client
\* covers.
LEMMA DeadlineLeavesMargin ==
    ASSUME WaitKnown, wait + Margin <= HTTPTimeout
    PROVE  wait + Margin <= Deadline(pollTimeout)
<1> DEFINE A == {pollTimeout + Margin, MinTimeout}
<1>1. PICK r \in A : \A y \in A : r >= y
  BY DEF WaitKnown, Margin, MinTimeout
<1>2. /\ RequestTimeout(pollTimeout) \in A
      /\ \A y \in A : RequestTimeout(pollTimeout) >= y
  BY <1>1 DEF RequestTimeout, Max
<1>3. /\ RequestTimeout(pollTimeout) \in Nat
      /\ wait + Margin <= RequestTimeout(pollTimeout)
  BY <1>2 DEF WaitKnown, Margin, MinTimeout
<1> DEFINE R == RequestTimeout(pollTimeout)
           B == {R, HTTPTimeout}
<1> HIDE DEF R
<1>4. R \in Nat /\ wait + Margin <= R
  BY <1>3 DEF R
<1>5. PICK d \in B : \A y \in B : d =< y
  BY <1>4 DEF HTTPTimeout
<1>6. Deadline(pollTimeout) \in B
  BY <1>5 DEF Deadline, Min, R
<1> QED
  BY <1>4, <1>6 DEF WaitKnown

\* The delay doubles up to its largest value.
LEMMA NextDelay ==
    ASSUME NEW n \in Nat
    PROVE  NextRetryDelay(PollDelay(n + 1)) = PollDelay(n + 2)
<1> DEFINE d == PollDelay(n + 1)
           B == {2 * d, MaxPollDelay}
<1>1. /\ d \in Nat
      /\ PollDelay(n + 2) \in B
      /\ PollDelay(n + 2) <= 2 * d /\ PollDelay(n + 2) <= MaxPollDelay
  BY DEF PollDelay, Delays, MaxPollDelay
<1>2. \A y \in B : PollDelay(n + 2) =< y
  BY <1>1
<1> HIDE DEF d
<1>3. /\ NextRetryDelay(d) \in B
      /\ \A y \in B : NextRetryDelay(d) =< y
  BY <1>1, <1>2 DEF NextRetryDelay, Min
<1> QED
  BY <1>1, <1>2, <1>3 DEF d, MaxPollDelay

LEMMA SucceedInv ==
    ASSUME PollInv, NEW prompt, NEW n \in Waits \cup {0}, Succeed(prompt, n)
    PROVE  PollInv'
<1>1. WaitKnown'
  BY WaitsAssumption DEF PollInv, Succeed, WaitKnown, Margin, HTTPTimeout, MinTimeout
<1>2. DelayKnown'
  BY DEF Succeed, DelayKnown, PollDelay, Delays
<1>3. PollTimed'
  BY DEF Succeed, Report, PollTimed
<1> QED
  BY <1>1, <1>2, <1>3 DEF PollInv

LEMMA FailInv ==
    ASSUME PollInv, ~expired, NEW prompt, ~prompt, Fail(prompt)
    PROVE  PollInv'
<1>1. WaitKnown'
  BY DEF PollInv, Fail, WaitKnown
<1>2. DelayKnown'
  <2>1. failed \in Nat /\ failed' = failed + 1
    BY DEF PollInv, DelayKnown, Fail
  <2>2. retryDelay' = NextRetryDelay(PollDelay(failed + 1))
    BY DEF PollInv, DelayKnown, Fail
  <2>3. retryDelay' = PollDelay(failed + 2)
    BY <2>1, <2>2, NextDelay
  <2>4. failed' \in Nat /\ failed' + 1 = failed + 2
    BY <2>1
  <2> QED
    BY <2>3, <2>4 DEF DelayKnown
<1>3. PollTimed'
  <2>1. poll' = [prompt |-> prompt, outcome |-> "error", sleep |-> retryDelay]
    BY DEF Fail, Report
  <2>2. retryDelay = PollDelay(failed')
    BY DEF PollInv, DelayKnown, Fail
  <2> QED
    BY <2>1, <2>2 DEF PollTimed
<1> QED
  BY <1>1, <1>2, <1>3 DEF PollInv

\* A poll that the server holds for as long as it said is answered in time when
\* its answer is prompt.
LEMMA QuietPollInv ==
    ASSUME PollInv, NEW t \in Transits, NEW n \in Waits \cup {0}, QuietPoll(t, n)
    PROVE  PollInv'
<1> DEFINE prompt == t < Margin /\ wait + Margin <= HTTPTimeout
<1>1. ~expired /\ t \in Nat
  BY WaitsAssumption DEF QuietPoll
<1>2. CASE wait + t < Deadline(pollTimeout)
  <2>1. Succeed(prompt, n)
    BY <1>2 DEF QuietPoll
  <2> HIDE DEF prompt
  <2> QED
    BY <2>1, SucceedInv
<1>3. CASE ~(wait + t < Deadline(pollTimeout))
  <2>1. Deadline(pollTimeout) \in Int
    <3>1. RequestTimeout(pollTimeout) \in {pollTimeout + Margin, MinTimeout}
      <4> DEFINE A == {pollTimeout + Margin, MinTimeout}
      <4>1. PICK r \in A : \A y \in A : r >= y
        BY DEF PollInv, WaitKnown, Margin, MinTimeout
      <4> QED
        BY <4>1 DEF RequestTimeout, Max
    <3> DEFINE R == RequestTimeout(pollTimeout)
               B == {R, HTTPTimeout}
    <3>2. R \in Int
      BY <3>1 DEF PollInv, WaitKnown, Margin, MinTimeout
    <3> HIDE DEF R
    <3>3. PICK d \in B : \A y \in B : d =< y
      BY <3>2 DEF HTTPTimeout
    <3>4. Deadline(pollTimeout) \in B
      BY <3>3 DEF Deadline, Min, R
    <3> QED
      BY <3>2, <3>4 DEF HTTPTimeout
  <2>2. wait + Margin <= HTTPTimeout => wait + Margin <= Deadline(pollTimeout)
    BY DeadlineLeavesMargin DEF PollInv
  <2>3. ~prompt
    BY <1>1, <1>3, <2>1, <2>2 DEF Margin, HTTPTimeout, PollInv, WaitKnown
  <2>4. Fail(prompt)
    BY <1>3 DEF QuietPoll
  <2>5. ~prompt /\ Fail(prompt)
    BY <2>3, <2>4
  <2> HIDE DEF prompt
  <2> QED
    BY <1>1, <2>5, FailInv
<1> QED
  BY <1>2, <1>3

LEMMA AnsweredInv ==
    ASSUME PollInv, NEW r \in Responses, Answered(r)
    PROVE  PollInv'
<1>1. CASE Outcome(r) = "ok" /\ Succeed(FALSE, 0)
  BY <1>1, SucceedInv
<1>2. CASE Outcome(r) = "error" /\ Fail(FALSE)
  BY <1>2, FailInv DEF Answered
<1>3. CASE /\ Outcome(r) = "expired" /\ expired' = TRUE /\ failed' = 0
           /\ Report(FALSE, "expired", 0)
           /\ UNCHANGED <<pollTimeout, retryDelay, wait>>
  BY <1>3 DEF PollInv, WaitKnown, DelayKnown, PollTimed, Report
<1> QED
  BY <1>1, <1>2, <1>3 DEF Answered

\* Run sleeps 1, 2, 4, 8 and then always 10 seconds between polls that fail, from
\* 1 again after a success, and no poll whose answer takes less than the margin
\* is cut off by the client unless the wait leaves no margin in the HTTP client's
\* total time-out, for all waits that the server may name.
THEOREM PollsTimed == PollSpec => []PollTimed
<1>1. PollInit => PollInv
  BY WaitsAssumption
  DEF PollInit, PollInv, WaitKnown, DelayKnown, PollTimed, NoPoll, PollDelay, Delays,
      Margin, MinTimeout, HTTPTimeout
<1>2. PollInv /\ [PollNext]_pollVars => PollInv'
  <2> SUFFICES ASSUME PollInv, [PollNext]_pollVars
               PROVE  PollInv'
    OBVIOUS
  <2>1. ASSUME NEW t \in Transits, NEW n \in Waits \cup {0}, QuietPoll(t, n)
        PROVE  PollInv'
    BY <2>1, QuietPollInv
  <2>2. ASSUME NEW n \in Waits \cup {0}, EarlyPoll(n)
        PROVE  PollInv'
    BY <2>2, SucceedInv DEF EarlyPoll
  <2>3. ASSUME NEW r \in Responses, Answered(r)
        PROVE  PollInv'
    BY <2>3, AnsweredInv
  <2>4. CASE TransportError
    BY <2>4, FailInv DEF TransportError
  <2>5. CASE UNCHANGED pollVars
    BY <2>5 DEF pollVars, PollInv, WaitKnown, DelayKnown, PollTimed
  <2> QED
    BY <2>1, <2>2, <2>3, <2>4, <2>5 DEF PollNext
<1>3. PollInv => PollTimed
  BY DEF PollInv
<1> QED
  BY <1>1, <1>2, <1>3, PTL DEF PollSpec

----------------------------------------------------------------------------
(***************************************************************************)
(* The texts of AES keys.                                                  *)
(***************************************************************************)

Encodings == {StdEncoding, URLEncoding}

\* A sequence written as a function on its indices.
LEMMA FunctionIsSeq ==
    ASSUME NEW n \in Nat, NEW S, NEW f \in [1..n -> S]
    PROVE  f \in Seq(S) /\ Len(f) = n
OBVIOUS

LEMMA HexDigitRead ==
    ASSUME NEW v \in 0..15
    PROVE  HexDigit(v) \in Byte /\ IsHexDigit(HexDigit(v)) /\ HexValue(HexDigit(v)) = v
BY DEF HexDigit, IsHexDigit, HexValue, Byte

LEMMA Halves ==
    ASSUME NEW b \in 0..255
    PROVE  b \div 16 \in 0..15 /\ b % 16 \in 0..15 /\ 16 * (b \div 16) + (b % 16) = b
OBVIOUS

\* The hex digits of bytes are read as these bytes.
LEMMA HexRoundTrip ==
    ASSUME NEW bytes \in Seq(Byte)
    PROVE  /\ HexEncode(bytes) \in Seq(Byte) /\ Len(HexEncode(bytes)) = 2 * Len(bytes)
           /\ \A i \in 1..(2 * Len(bytes)) : IsHexDigit(HexEncode(bytes)[i])
           /\ HexDecode(HexEncode(bytes)) = bytes
<1> DEFINE n == Len(bytes)
           Half(i) == IF i % 2 = 1 THEN bytes[(i + 1) \div 2] \div 16 ELSE bytes[(i + 1) \div 2] % 16
           t == HexEncode(bytes)
<1>1. n \in Nat /\ \A i \in 1..n : bytes[i] \in Byte
  OBVIOUS
<1>2. t = [i \in 1..(2 * n) |-> HexDigit(Half(i))]
  BY DEF HexEncode
<1>3. ASSUME NEW i \in 1..(2 * n)
      PROVE  Half(i) \in 0..15
  <2>1. (i + 1) \div 2 \in 1..n
    BY <1>1
  <2>2. bytes[(i + 1) \div 2] \in Byte
    BY <1>1, <2>1
  <2> QED BY <2>2, Halves DEF Byte
<1> HIDE DEF t
<1>4. ASSUME NEW i \in 1..(2 * n)
      PROVE  t[i] \in Byte /\ IsHexDigit(t[i]) /\ HexValue(t[i]) = Half(i)
  <2> HIDE DEF Half, n
  <2> QED BY <1>2, <1>3, HexDigitRead
<1>5. t \in Seq(Byte) /\ Len(t) = 2 * n
  <2>1. t \in [1..(2 * n) -> Byte] /\ 2 * n \in Nat
    BY <1>1, <1>2, <1>4
  <2> HIDE DEF n
  <2> QED BY <2>1, FunctionIsSeq
<1>6. HexDecode(t) = [i \in 1..n |-> 16 * HexValue(t[2 * i - 1]) + HexValue(t[2 * i])]
  <2>1. (2 * n) \div 2 = n
    BY <1>1
  <2> HIDE DEF n
  <2> QED BY <1>5, <2>1 DEF HexDecode
<1>7. ASSUME NEW i \in 1..n
      PROVE  16 * HexValue(t[2 * i - 1]) + HexValue(t[2 * i]) = bytes[i]
  <2>1. 2 * i - 1 \in 1..(2 * n) /\ 2 * i \in 1..(2 * n)
    BY <1>1
  <2>2. /\ (2 * i - 1) % 2 = 1 /\ (2 * i - 1 + 1) \div 2 = i
        /\ (2 * i) % 2 = 0 /\ (2 * i + 1) \div 2 = i
    BY <1>1
  <2>3. HexValue(t[2 * i - 1]) = Half(2 * i - 1) /\ HexValue(t[2 * i]) = Half(2 * i)
    <3> HIDE DEF Half, n
    <3> QED BY <1>4, <2>1
  <2>4. HexValue(t[2 * i - 1]) = bytes[i] \div 16 /\ HexValue(t[2 * i]) = bytes[i] % 16
    BY <2>2, <2>3
  <2>5. bytes[i] \in 0..255
    BY <1>1 DEF Byte
  <2> QED BY <2>4, <2>5, Halves
<1>8. HexDecode(t) = bytes
  <2>1. bytes = [i \in 1..n |-> bytes[i]]
    BY <1>1
  <2> HIDE DEF n
  <2> QED BY <1>6, <1>7, <2>1
<1> QED BY <1>4, <1>5, <1>8 DEF t

\* A character stands for its six bits in both alphabets, and "=" for none.
LEMMA Base64CharRead ==
    ASSUME NEW v \in 0..63, NEW enc \in Encodings
    PROVE  /\ Base64Char(v, enc) \in Byte /\ Base64Char(v, enc) # Equals
           /\ IsBase64Char(Base64Char(v, enc), enc)
           /\ Base64Value(Base64Char(v, enc), enc) = v
BY DEF Encodings, StdEncoding, URLEncoding, Base64Char, IsBase64Char, Base64Value, Equals, Byte

\* A character of both alphabets stands for the same six bits in both.
LEMMA Base64Agree ==
    ASSUME NEW v \in 0..63, NEW enc \in Encodings, NEW enc2 \in Encodings,
           IsBase64Char(Base64Char(v, enc), enc2)
    PROVE  Base64Value(Base64Char(v, enc), enc2) = v
BY DEF Encodings, StdEncoding, URLEncoding, Base64Char, IsBase64Char, Base64Value

LEMMA SixBitsRange ==
    ASSUME NEW b1 \in 0..255, NEW b2 \in 0..255, NEW b3 \in 0..255, NEW r \in 0..3
    PROVE  SixBits(b1, b2, b3, r) \in 0..63
BY DEF SixBits

LEMMA ByteAtRange ==
    ASSUME NEW bytes \in Seq(Byte), NEW i \in Nat \ {0}
    PROVE  ByteAt(bytes, i) \in 0..255
<1>1. i <= Len(bytes) => bytes[i] \in Byte
  BY ElementOfSeq
<1> QED BY <1>1 DEF ByteAt, Byte

LEMMA BitsAtRange ==
    ASSUME NEW bytes \in Seq(Byte), NEW g \in Nat, NEW r \in 0..3
    PROVE  BitsAt(bytes, g, r) \in 0..63
<1>1. /\ ByteAt(bytes, g + 1) \in 0..255 /\ ByteAt(bytes, g + 2) \in 0..255
      /\ ByteAt(bytes, g + 3) \in 0..255
  BY ByteAtRange
<1> QED BY <1>1, SixBitsRange DEF BitsAt

\* Eight bits are those of the byte from which the six bits were taken.
LEMMA BitsJoined ==
    ASSUME NEW bytes \in Seq(Byte), NEW g \in Nat, NEW r \in 0..2
    PROVE  EightBits(BitsAt(bytes, g, r), BitsAt(bytes, g, r + 1), r)
              = ByteAt(bytes, g + r + 1)
<1>1. /\ ByteAt(bytes, g + 1) \in 0..255 /\ ByteAt(bytes, g + 2) \in 0..255
      /\ ByteAt(bytes, g + 3) \in 0..255
  BY ByteAtRange
<1>2. /\ EightBits(BitsAt(bytes, g, 0), BitsAt(bytes, g, 1), 0) = ByteAt(bytes, g + 1)
      /\ EightBits(BitsAt(bytes, g, 1), BitsAt(bytes, g, 2), 1) = ByteAt(bytes, g + 2)
      /\ EightBits(BitsAt(bytes, g, 2), BitsAt(bytes, g, 3), 2) = ByteAt(bytes, g + 3)
  <2> DEFINE b1 == ByteAt(bytes, g + 1)
             b2 == ByteAt(bytes, g + 2)
             b3 == ByteAt(bytes, g + 3)
  <2>1. \A s \in 0..3 : BitsAt(bytes, g, s) = SixBits(b1, b2, b3, s)
    BY DEF BitsAt
  <2> HIDE DEF b1, b2, b3
  <2>2. /\ EightBits(SixBits(b1, b2, b3, 0), SixBits(b1, b2, b3, 1), 0) = b1
        /\ EightBits(SixBits(b1, b2, b3, 1), SixBits(b1, b2, b3, 2), 1) = b2
        /\ EightBits(SixBits(b1, b2, b3, 2), SixBits(b1, b2, b3, 3), 2) = b3
    <3>1. b1 \in 0..255 /\ b2 \in 0..255 /\ b3 \in 0..255
      BY <1>1 DEF b1, b2, b3
    <3> QED BY <3>1 DEF SixBits, EightBits
  <2>3. 0 \in 0..3 /\ 1 \in 0..3 /\ 2 \in 0..3 /\ 3 \in 0..3
    OBVIOUS
  <2> QED BY <2>1, <2>2, <2>3, Zenon DEF b1, b2, b3
<1>3. r \in {0, 1, 2} /\ 0 + 1 = 1 /\ 1 + 1 = 2 /\ 2 + 1 = 3
  OBVIOUS
<1>4. g + 0 + 1 = g + 1 /\ g + 1 + 1 = g + 2 /\ g + 2 + 1 = g + 3
  OBVIOUS
<1>5. CASE r = 0
  BY <1>2, <1>3, <1>4, <1>5, Zenon
<1>6. CASE r = 1
  BY <1>2, <1>3, <1>4, <1>6, Zenon
<1>7. CASE r = 2
  BY <1>2, <1>3, <1>4, <1>7, Zenon
<1> QED BY <1>3, <1>5, <1>6, <1>7

\* The six bits that the j-th character of the text stands for.
CharBits(bytes, j) == BitsAt(bytes, 3 * ((j - 1) \div 4), (j - 1) % 4)

\* The characters of a base64 text, and how many "=" follow those of the data.
LEMMA Base64Text ==
    ASSUME NEW bytes \in Seq(Byte), bytes # <<>>, NEW enc \in Encodings
    PROVE  LET t == EncodeToString(bytes, enc)
               m == 4 * ((Len(bytes) + 2) \div 3)
           IN  /\ t \in Seq(Byte) /\ Len(t) = m /\ m % 4 = 0 /\ m >= 4
               /\ Equalses(t) = 3 * (m \div 4) - Len(bytes)
               /\ \A j \in 1..(m - Equalses(t)) :
                     CharBits(bytes, j) \in 0..63 /\ t[j] = Base64Char(CharBits(bytes, j), enc)
<1> DEFINE n == Len(bytes)
           k == (n + 2) \div 3
           m == 4 * k
           t == EncodeToString(bytes, enc)
           Over(j) == 3 * ((j - 1) \div 4) + ((j - 1) % 4) > n
<1>1. n \in Nat \ {0} /\ \A i \in 1..n : bytes[i] \in Byte
  OBVIOUS
<1>2. /\ k \in Nat \ {0} /\ m \in Nat /\ m >= 4 /\ m % 4 = 0 /\ m \div 4 = k
      /\ 3 * k - n \in 0..2
  <2> HIDE DEF n
  <2> QED BY <1>1
<1>3. t = [j \in 1..m |-> IF Over(j) THEN Equals ELSE Base64Char(CharBits(bytes, j), enc)]
  BY DEF EncodeToString, CharBits
<1> HIDE DEF t
<1>4. ASSUME NEW j \in Nat \ {0}
      PROVE  CharBits(bytes, j) \in 0..63
  <2>1. 3 * ((j - 1) \div 4) \in Nat /\ (j - 1) % 4 \in 0..3
    OBVIOUS
  <2> QED BY <2>1, BitsAtRange DEF CharBits
<1>5. ASSUME NEW j \in 1..m
      PROVE  /\ t[j] \in Byte
             /\ t[j] = Equals <=> Over(j)
             /\ ~Over(j) => t[j] = Base64Char(CharBits(bytes, j), enc)
  <2>1. CharBits(bytes, j) \in 0..63
    BY <1>2, <1>4
  <2>2. Base64Char(CharBits(bytes, j), enc) \in Byte /\ Base64Char(CharBits(bytes, j), enc) # Equals
    BY <2>1, Base64CharRead
  <2>3. Equals \in Byte
    BY DEF Equals, Byte
  <2> HIDE DEF Over, m
  <2> QED BY <1>3, <2>2, <2>3
<1>6. t \in Seq(Byte) /\ Len(t) = m
  <2>1. t \in [1..m -> Byte]
    <3> HIDE DEF m, Over
    <3>1. DOMAIN t = 1..m /\ t = [j \in 1..m |-> t[j]]
      BY <1>3
    <3> QED BY <1>5, <3>1
  <2> HIDE DEF m
  <2> QED BY <1>2, <2>1, FunctionIsSeq
<1>7. \A j \in 1..m : Over(j) <=> j > m - (3 * k - n)
  <2> TAKE j \in 1..m
  <2> HIDE DEF n
  <2> QED BY <1>1
<1>8. Equalses(t) = 3 * k - n
  <2>1. m \in 1..m /\ m - 1 \in 1..m
    BY <1>2
  <2>2. (t[m] = Equals <=> 3 * k - n > 0) /\ (t[m - 1] = Equals <=> 3 * k - n > 1)
    <3>1. (t[m] = Equals <=> m > m - (3 * k - n)) /\ (t[m - 1] = Equals <=> m - 1 > m - (3 * k - n))
      <4> HIDE DEF m, k, n, Over
      <4> QED BY <1>5, <1>7, <2>1
    <3> HIDE DEF k, n
    <3> QED BY <1>1, <1>2, <3>1
  <2> HIDE DEF m, k, n
  <2> QED BY <1>1, <1>2, <1>6, <2>2 DEF Equalses
<1>9. ASSUME NEW j \in 1..(m - (3 * k - n))
      PROVE  j \in 1..m /\ ~Over(j)
  <2>1. j \in 1..m /\ ~(j > m - (3 * k - n))
    <3> HIDE DEF k, n
    <3> QED BY <1>1, <1>2
  <2> HIDE DEF Over, m, k, n
  <2> QED BY <1>7, <2>1
<1>10. \A j \in 1..(m - Equalses(t)) :
          CharBits(bytes, j) \in 0..63 /\ t[j] = Base64Char(CharBits(bytes, j), enc)
  <2> TAKE j \in 1..(m - Equalses(t))
  <2>1. j \in 1..m /\ ~Over(j)
    <3> HIDE DEF Over, m, k, n
    <3> QED BY <1>8, <1>9
  <2>2. CharBits(bytes, j) \in 0..63
    BY <1>4, <2>1
  <2> HIDE DEF Over, m
  <2> QED BY <1>5, <2>1, <2>2
<1> HIDE DEF n
<1> QED BY <1>2, <1>6, <1>8, <1>10 DEF t, n

\* Bytes in base64 of one alphabet are read as these bytes with the same alphabet,
\* and with the other one not at all or as the same.
LEMMA Base64RoundTrip ==
    ASSUME NEW bytes \in Seq(Byte), bytes # <<>>, NEW enc \in Encodings, NEW enc2 \in Encodings,
           enc2 = enc \/ IsBase64(EncodeToString(bytes, enc), enc2)
    PROVE  DecodeString(EncodeToString(bytes, enc), enc2) = bytes
<1> DEFINE n == Len(bytes)
           k == (n + 2) \div 3
           m == 4 * k
           t == EncodeToString(bytes, enc)
           Value(j) == Base64Value(t[j], enc2)
           r(i) == (i - 1) % 3
           at(i) == 4 * ((i - 1) \div 3) + r(i) + 1
<1>1. n \in Nat \ {0} /\ \A i \in 1..n : bytes[i] \in Byte
  OBVIOUS
<1>2. /\ t \in Seq(Byte) /\ Len(t) = m /\ m % 4 = 0 /\ m >= 4
      /\ Equalses(t) = 3 * (m \div 4) - n
      /\ \A j \in 1..(m - Equalses(t)) :
            CharBits(bytes, j) \in 0..63 /\ t[j] = Base64Char(CharBits(bytes, j), enc)
  BY Base64Text
<1>3. m \div 4 = k /\ 3 * k - n \in 0..2 /\ k \in Nat
  <2> HIDE DEF n
  <2> QED BY <1>1
<1> HIDE DEF t
<1>4. IsBase64(t, enc2)
  <2>1. CASE enc2 = enc
    <3>1. \A j \in 1..(m - Equalses(t)) : IsBase64Char(t[j], enc)
      BY <1>2, Base64CharRead
    <3> HIDE DEF m
    <3> QED BY <1>2, <2>1, <3>1 DEF IsBase64
  <2> QED BY <2>1 DEF t
<1>5. ASSUME NEW j \in 1..(m - (3 * k - n))
      PROVE  CharBits(bytes, j) \in 0..63 /\ Value(j) = CharBits(bytes, j)
  <2> HIDE DEF m, k, n
  <2>1. j \in 1..(m - Equalses(t))
    BY <1>2, <1>3
  <2>2. CharBits(bytes, j) \in 0..63 /\ t[j] = Base64Char(CharBits(bytes, j), enc)
    BY <1>2, <2>1
  <2>3. IsBase64Char(t[j], enc2)
    BY <1>2, <1>4, <2>1 DEF IsBase64
  <2> QED BY <2>2, <2>3, Base64Agree
<1>6. DecodeString(t, enc2) =
          [i \in 1..n |-> EightBits(Value(at(i)), Value(at(i) + 1), r(i))]
  <2>1. 3 * (Len(t) \div 4) - Equalses(t) = n
    <3> HIDE DEF m, n
    <3> QED BY <1>1, <1>2, <1>3
  <2> HIDE DEF n
  <2> QED BY <1>4, <2>1 DEF DecodeString
<1>7. ASSUME NEW i \in 1..n
      PROVE  EightBits(Value(at(i)), Value(at(i) + 1), r(i)) = bytes[i]
  <2> DEFINE g == 3 * ((i - 1) \div 3)
  <2>1. /\ r(i) \in 0..2 /\ g \in Nat /\ i = g + r(i) + 1
        /\ (at(i) - 1) % 4 = r(i) /\ 3 * ((at(i) - 1) \div 4) = g
        /\ (at(i) + 1 - 1) % 4 = r(i) + 1 /\ 3 * ((at(i) + 1 - 1) \div 4) = g
        /\ at(i) \in 1..(m - (3 * k - n)) /\ at(i) + 1 \in 1..(m - (3 * k - n))
    <3> HIDE DEF n
    <3> QED BY <1>1
  <2>2. ByteAt(bytes, i) = bytes[i]
    BY <1>1 DEF ByteAt
  <2>3. /\ CharBits(bytes, at(i)) = BitsAt(bytes, g, r(i))
        /\ CharBits(bytes, at(i) + 1) = BitsAt(bytes, g, r(i) + 1)
    BY <2>1 DEF CharBits
  <2>4. EightBits(BitsAt(bytes, g, r(i)), BitsAt(bytes, g, r(i) + 1), r(i)) = bytes[i]
    <3> HIDE DEF r, g
    <3> QED BY <2>1, <2>2, BitsJoined
  <2>5. Value(at(i)) = CharBits(bytes, at(i)) /\ Value(at(i) + 1) = CharBits(bytes, at(i) + 1)
    <3> HIDE DEF Value, m, k, n
    <3> QED BY <1>5, <2>1
  <2> HIDE DEF Value, g
  <2> QED BY <2>3, <2>4, <2>5
<1>8. bytes = [i \in 1..n |-> bytes[i]]
  BY <1>1
<1> HIDE DEF n, Value, at, r
<1> QED BY <1>6, <1>7, <1>8 DEF t

\* Bytes that are no failure, in base64 of either alphabet, are what DecodeAESKey
\* decodes the text to, and the text is not taken for 32 hex digits.
LEMMA Base64Decoded ==
    ASSUME NEW bytes \in Seq(Byte), Len(bytes) = 16 \/ Len(bytes) = 32, NEW enc \in Encodings
    PROVE  LET t   == EncodeToString(bytes, enc)
               std == DecodeString(t, StdEncoding)
           IN  /\ (IF std # Failed THEN std ELSE DecodeString(t, URLEncoding)) = bytes
               /\ ~HexPattern(t) /\ t # <<>>
<1> DEFINE t == EncodeToString(bytes, enc)
<1>1. bytes # <<>> /\ bytes # Failed
  <2>1. Len(<<>>) = 0 /\ Len(Failed) = 1
    BY DEF Failed
  <2>2. 16 # 0 /\ 32 # 0 /\ 16 # 1 /\ 32 # 1
    OBVIOUS
  <2> QED BY <2>1, <2>2, Zenon
<1>2. Len(t) = 4 * ((Len(bytes) + 2) \div 3) /\ t \in Seq(Byte)
  BY <1>1, Base64Text
<1>3. Len(t) \in {24, 44}
  <2> HIDE DEF t
  <2>1. CASE Len(bytes) = 16
    BY <1>2, <2>1
  <2>2. CASE Len(bytes) = 32
    BY <1>2, <2>2
  <2> QED BY <2>1, <2>2
<1>4. ~HexPattern(t) /\ t # <<>>
  <2> HIDE DEF t
  <2> QED BY <1>2, <1>3 DEF HexPattern
<1>5. DecodeString(t, enc) = bytes
  BY <1>1, Base64RoundTrip
<1>6. CASE IsBase64(t, StdEncoding)
  <2>1. DecodeString(t, StdEncoding) = bytes
    BY <1>1, <1>6, Base64RoundTrip DEF Encodings
  <2> HIDE DEF t
  <2> QED BY <1>1, <1>4, <2>1 DEF t
<1>7. CASE ~IsBase64(t, StdEncoding)
  <2>1. DecodeString(t, StdEncoding) = Failed
    BY <1>7 DEF DecodeString
  <2>2. enc = URLEncoding
    BY <1>1, <1>5, <2>1 DEF Encodings
  <2> HIDE DEF t
  <2> QED BY <1>4, <1>5, <2>1, <2>2 DEF t
<1> QED BY <1>6, <1>7

\* DecodeAESKey reads every form of a key's text.
LEMMA KeyTextRead ==
    ASSUME NEW key \in Seq(Byte), Len(key) = KeySize, NEW form \in Forms
    PROVE  /\ DecodeAESKey(EncodeAESKeyHex(key)) = key /\ EncodeAESKeyHex(key) # <<>>
           /\ DecodeAESKey(KeyText(key, form)) = key /\ KeyText(key, form) # <<>>
<1> DEFINE h == HexEncode(key)
<1>1. Len(key) = 16
  BY DEF KeySize
<1>2. h \in Seq(Byte) /\ Len(h) = 32 /\ HexPattern(h) /\ HexDecode(h) = key
  <2>1. /\ h \in Seq(Byte) /\ Len(h) = 2 * Len(key) /\ HexDecode(h) = key
        /\ \A i \in 1..(2 * Len(key)) : IsHexDigit(h[i])
    BY HexRoundTrip
  <2>2. 2 * Len(key) = 32
    BY <1>1
  <2> HIDE DEF h
  <2> QED BY <2>1, <2>2 DEF HexPattern
<1> HIDE DEF h
<1>3. DecodeAESKey(h) = key /\ h # <<>>
  <2>1. DecodeAESKey(h) = HexDecode(h)
    BY <1>2, Zenon DEF DecodeAESKey
  <2>2. Len(<<>>) = 0 /\ 32 # 0
    OBVIOUS
  <2> QED BY <1>2, <2>1, <2>2, Zenon
<1>4. StdEncoding \in Encodings /\ URLEncoding \in Encodings
  BY DEF Encodings
<1>5. ASSUME NEW enc \in Encodings
      PROVE  /\ DecodeAESKey(EncodeToString(key, enc)) = key
             /\ EncodeToString(key, enc) # <<>>
  <2> DEFINE t == EncodeToString(key, enc)
             std == DecodeString(t, StdEncoding)
             decoded == IF std # Failed THEN std ELSE DecodeString(t, URLEncoding)
  <2>1. decoded = key /\ ~HexPattern(t) /\ t # <<>>
    BY <1>1, Base64Decoded
  <2>2. DecodeAESKey(t) = IF HexPattern(t) THEN HexDecode(t)
                          ELSE IF Len(decoded) = KeySize THEN decoded
                          ELSE IF HexPattern(decoded) THEN HexDecode(decoded) ELSE Failed
    BY Zenon DEF DecodeAESKey
  <2> HIDE DEF t, decoded
  <2>3. DecodeAESKey(t) = key
    BY <2>1, <2>2
  <2> QED BY <2>1, <2>3 DEF t
<1>6. /\ DecodeAESKey(EncodeToString(h, StdEncoding)) = key
      /\ EncodeToString(h, StdEncoding) # <<>>
  <2> DEFINE t == EncodeToString(h, StdEncoding)
             std == DecodeString(t, StdEncoding)
             decoded == IF std # Failed THEN std ELSE DecodeString(t, URLEncoding)
  <2>1. decoded = h /\ ~HexPattern(t) /\ t # <<>>
    BY <1>2, <1>4, Base64Decoded
  <2>2. DecodeAESKey(t) = IF HexPattern(t) THEN HexDecode(t)
                          ELSE IF Len(decoded) = KeySize THEN decoded
                          ELSE IF HexPattern(decoded) THEN HexDecode(decoded) ELSE Failed
    BY Zenon DEF DecodeAESKey
  <2> HIDE DEF t, decoded
  <2>3. DecodeAESKey(t) = key
    BY <1>2, <2>1, <2>2 DEF KeySize
  <2> QED BY <2>1, <2>3 DEF t
<1> QED
  BY <1>3, <1>4, <1>5, <1>6 DEF KeyText, Forms, EncodeAESKeyBase64, EncodeAESKeyHex, h

----------------------------------------------------------------------------
(***************************************************************************)
(* The encryption of media.                                                *)
(***************************************************************************)

LEMMA DivMod ==
    ASSUME NEW a \in Nat, NEW b \in Nat \ {0}
    PROVE  /\ a \div b \in Nat /\ a % b \in Nat /\ a % b < b
           /\ a = b * (a \div b) + (a % b)
OBVIOUS

LEMMA DivModUnique ==
    ASSUME NEW b \in Nat \ {0}, NEW k \in Nat, NEW s \in Nat, s < b,
           NEW j \in Nat, NEW t \in Nat, t < b, b * k + s = b * j + t
    PROVE  j = k /\ s = t
<1>1. ASSUME k < j
      PROVE  FALSE
  <2>1. j >= k + 1
    BY <1>1
  <2>2. b * j >= b * (k + 1)
    BY <2>1
  <2>3. b * (k + 1) = b * k + b
    OBVIOUS
  <2> QED
    BY <2>2, <2>3
<1>2. ASSUME j < k
      PROVE  FALSE
  <2>1. k >= j + 1
    BY <1>2
  <2>2. b * k >= b * (j + 1)
    BY <2>1
  <2>3. b * (j + 1) = b * j + b
    OBVIOUS
  <2> QED
    BY <2>2, <2>3
<1> QED
  BY <1>1, <1>2

LEMMA DivOf ==
    ASSUME NEW b \in Nat \ {0}, NEW k \in Nat, NEW s \in Nat, s < b
    PROVE  (b * k + s) \div b = k /\ (b * k + s) % b = s
BY DivMod, DivModUnique

\* How many blocks data of this length becomes: one more than it fills.
BlocksOf(len) == (len \div BlockSize) + 1

\* PKCS7 fills the last block, and adds a block when the data fill theirs.
LEMMA PaddingFills ==
    ASSUME NEW len \in Nat
    PROVE  /\ BlocksOf(len) \in Nat \ {0}
           /\ Padding(len) \in 1..BlockSize
           /\ len + Padding(len) = BlocksOf(len) * BlockSize
<1>1. /\ len \div BlockSize \in Nat /\ len % BlockSize \in Nat
      /\ len % BlockSize < BlockSize
      /\ len = BlockSize * (len \div BlockSize) + (len % BlockSize)
  BY BlockSizeAssumption, DivMod
<1>2. BlocksOf(len) * BlockSize = BlockSize * (len \div BlockSize) + BlockSize
  BY <1>1, BlockSizeAssumption DEF BlocksOf
<1> QED
  BY <1>1, <1>2, BlockSizeAssumption DEF BlocksOf, Padding

Padded(data) == data \o PadBytes(Len(data))

LEMMA PaddedData ==
    ASSUME NEW data \in Seq(Nat)
    PROVE  /\ Padded(data) \in Seq(Nat)
           /\ Len(Padded(data)) = BlocksOf(Len(data)) * BlockSize
           /\ Len(Padded(data)) = Len(data) + Padding(Len(data))
           /\ \A i \in 1..Len(data) : Padded(data)[i] = data[i]
           /\ Padded(data)[Len(Padded(data))] = Padding(Len(data))
<1> DEFINE p == Padding(Len(data))
           pad == PadBytes(Len(data))
<1>1. /\ Len(data) \in Nat /\ p \in 1..BlockSize /\ p \in Nat \ {0}
      /\ Len(data) + p = BlocksOf(Len(data)) * BlockSize
  <2>1. Len(data) \in Nat
    OBVIOUS
  <2>2. p \in 1..BlockSize /\ Len(data) + p = BlocksOf(Len(data)) * BlockSize
    BY <2>1, PaddingFills
  <2> HIDE DEF p
  <2> QED
    BY <2>1, <2>2, BlockSizeAssumption
<1>2. pad = [i \in 1..p |-> p]
  BY DEF PadBytes
<1> HIDE DEF p, pad
<1>3. pad \in Seq(Nat) /\ Len(pad) = p /\ pad[p] = p
  BY <1>1, <1>2
<1>4. Padded(data) = data \o pad
  BY DEF Padded, pad
<1>5. /\ data \o pad \in Seq(Nat)
      /\ Len(data \o pad) = Len(data) + p
      /\ \A i \in 1..Len(data) : (data \o pad)[i] = data[i]
      /\ (data \o pad)[Len(data) + p] = p
  BY <1>1, <1>3
<1> QED
  BY <1>1, <1>4, <1>5 DEF p

\* The blocks of an encrypted medium.
LEMMA Encrypted ==
    ASSUME NEW data \in Seq(Nat), NEW key
    PROVE  LET c == EncryptAESECB(data, key)
           IN  /\ Len(c) = BlocksOf(Len(data))
               /\ \A n \in 1..BlocksOf(Len(data)) : c[n] = EncryptBlock(Padded(data), n, key)
<1> DEFINE k == BlocksOf(Len(data))
           w == Padded(data)
<1>1. k \in Nat \ {0} /\ Len(w) = k * BlockSize
  BY PaddedData, PaddingFills, LenProperties
<1>2. Len(w) \div BlockSize = k
  <2>1. Len(w) = BlockSize * k + 0
    BY <1>1, BlockSizeAssumption
  <2> QED
    BY <1>1, <2>1, DivOf, BlockSizeAssumption
<1>3. EncryptAESECB(data, key) = [n \in 1..k |-> EncryptBlock(w, n, key)]
  BY <1>2 DEF EncryptAESECB, Padded
<1> HIDE DEF k, w
<1>4. /\ Len([n \in 1..k |-> EncryptBlock(w, n, key)]) = k
      /\ \A n \in 1..k : [m \in 1..k |-> EncryptBlock(w, m, key)][n] = EncryptBlock(w, n, key)
  BY <1>1
<1> QED
  BY <1>3, <1>4 DEF k, w

\* Decryption with the same key gives the padded data back.
LEMMA Decrypted ==
    ASSUME NEW data \in Seq(Nat), NEW key
    PROVE  PlainBytes(EncryptAESECB(data, key), key) = Padded(data)
<1> DEFINE k == BlocksOf(Len(data))
           w == Padded(data)
           c == EncryptAESECB(data, key)
<1>1. k \in Nat \ {0} /\ w \in Seq(Nat) /\ Len(w) = k * BlockSize
  BY PaddedData, PaddingFills, LenProperties
<1>2. Len(c) = k /\ \A n \in 1..k : c[n] = EncryptBlock(w, n, key)
  BY Encrypted
<1> HIDE DEF k, w, c
<1>3. ASSUME NEW i \in 1..(k * BlockSize)
      PROVE  LET b == c[((i - 1) \div BlockSize) + 1]
             IN  (IF b.key = key THEN b.block[((i - 1) % BlockSize) + 1] ELSE Garbage) = w[i]
  <2> DEFINE n == ((i - 1) \div BlockSize) + 1
             m == ((i - 1) % BlockSize) + 1
  <2>1. /\ n \in Nat \ {0} /\ m \in 1..BlockSize
        /\ i = BlockSize * (n - 1) + m
    <3>1. i - 1 \in Nat
      BY <1>1, BlockSizeAssumption
    <3>2. /\ (i - 1) \div BlockSize \in Nat /\ (i - 1) % BlockSize \in Nat
          /\ (i - 1) % BlockSize < BlockSize
          /\ i - 1 = BlockSize * ((i - 1) \div BlockSize) + ((i - 1) % BlockSize)
      BY <3>1, DivMod, BlockSizeAssumption
    <3> QED
      BY <3>2, BlockSizeAssumption
  <2> HIDE DEF n, m
  <2>2. n <= k
    <3> SUFFICES ASSUME n >= k + 1
                 PROVE  FALSE
      BY <1>1, <2>1
    <3>1. BlockSize * (n - 1) >= BlockSize * k
      BY <1>1, <2>1, BlockSizeAssumption
    <3>2. i <= k * BlockSize /\ BlockSize * k = k * BlockSize
      BY <1>1, BlockSizeAssumption
    <3> QED
      BY <1>1, <2>1, <3>1, <3>2, BlockSizeAssumption, SMTT(30)
  <2>3. c[n].key = key /\ c[n].block = SubSeq(w, (n - 1) * BlockSize + 1, n * BlockSize)
    BY <1>1, <1>2, <2>1, <2>2, SMTT(30) DEF EncryptBlock
  <2>4. /\ (n - 1) * BlockSize + 1 \in 1..(Len(w) + 1) /\ n * BlockSize \in 0..Len(w)
        /\ n * BlockSize = (n - 1) * BlockSize + BlockSize
    <3>1. n * BlockSize <= k * BlockSize
      BY <1>1, <2>1, <2>2, BlockSizeAssumption
    <3>2. n * BlockSize = (n - 1) * BlockSize + BlockSize /\ (n - 1) * BlockSize \in Nat
      BY <1>1, <2>1, BlockSizeAssumption
    <3> QED
      BY <1>1, <2>1, <3>1, <3>2, BlockSizeAssumption, SMTT(30)
  <2>5. c[n].block[m] = w[(n - 1) * BlockSize + m]
    <3> DEFINE a == (n - 1) * BlockSize
               e == n * BlockSize
    <3>1. a \in Nat /\ e \in Nat /\ e = a + BlockSize /\ e <= Len(w)
      BY <2>1, <2>4, BlockSizeAssumption
    <3>2. c[n].block = SubSeq(w, a + 1, e)
      BY <2>3
    <3> HIDE DEF a, e
    <3>3. SubSeq(w, a + 1, e)[m] = w[a + m]
      BY <1>1, <2>1, <3>1, BlockSizeAssumption, SubSeqProperties
    <3> QED
      BY <3>2, <3>3 DEF a
  <2>6. i = (n - 1) * BlockSize + m
    BY <2>1, BlockSizeAssumption
  <2> QED
    BY <2>3, <2>5, <2>6 DEF n, m
<1>4. PlainBytes(c, key) = [i \in 1..(k * BlockSize) |-> w[i]]
  BY <1>2, <1>3 DEF PlainBytes
<1>5. w = [i \in 1..(k * BlockSize) |-> w[i]]
  BY <1>1
<1> QED
  BY <1>4, <1>5 DEF c, w

\* pkcs7Unpad finds the padding in the last byte, and takes off no more than it.
LEMMA Unpadded ==
    ASSUME NEW data \in Seq(Nat)
    PROVE  Unpad(Padded(data)) = data
<1> DEFINE w == Padded(data)
           p == Padding(Len(data))
<1>1. /\ w \in Seq(Nat) /\ Len(w) = Len(data) + p
      /\ \A i \in 1..Len(data) : w[i] = data[i]
      /\ w[Len(w)] = p /\ p \in 1..BlockSize /\ Len(data) \in Nat
  BY PaddedData, PaddingFills, LenProperties
<1> HIDE DEF w, p
<1>2. w # <<>> /\ p \in 1..Len(w) /\ Len(w) - p = Len(data)
  BY <1>1, BlockSizeAssumption
<1>3. Unpad(w) = SubSeq(w, 1, Len(data))
  BY <1>1, <1>2 DEF Unpad
<1>4. SubSeq(w, 1, Len(data)) = data
  <2>1. SubSeq(w, 1, Len(data)) = [i \in 1..Len(data) |-> w[i]]
    BY <1>1, <1>2
  <2> QED
    BY <1>1, <2>1
<1> QED
  BY <1>3, <1>4 DEF w

\* The medium is one that was uploaded, and what was returned is what Download
\* gives for it.
MediaInv ==
    /\ medium \in [data : Contents, key : Keys, ownKey : BOOLEAN, other : Keys, form : Forms]
    /\ returned =>
          downloaded =
              Download(Object, IF medium.ownKey THEN EncodeAESKeyHex(medium.key) ELSE <<>>)

\* cdnDownload decrypts with the key that the medium was encrypted with, in
\* whichever form it comes.
LEMMA DownloadReturns ==
    ASSUME MediaInv,
           Len(medium.data) + Padding(Len(medium.data)) <= MaxDownloadBytes
    PROVE  Download(Object, IF medium.ownKey THEN EncodeAESKeyHex(medium.key) ELSE <<>>)
              = medium.data
<1> DEFINE override == IF medium.ownKey THEN EncodeAESKeyHex(medium.key) ELSE <<>>
           keySource == IF override = <<>> THEN Object.aesKey ELSE override
           c == EncryptAESECB(medium.data, medium.key)
<1>1. /\ medium.data \in Seq(Nat) /\ medium.key \in Keys /\ medium.ownKey \in BOOLEAN
      /\ medium.form \in Forms /\ medium.key \in Seq(Byte) /\ Len(medium.key) = KeySize
  BY ContentsAssumption DEF MediaInv
<1>2. Object.data = c
  BY DEF Object
<1>3. DecodeAESKey(keySource) = medium.key /\ keySource # <<>>
  <2>1. /\ DecodeAESKey(EncodeAESKeyHex(medium.key)) = medium.key
        /\ EncodeAESKeyHex(medium.key) # <<>>
        /\ DecodeAESKey(KeyText(medium.key, medium.form)) = medium.key
        /\ KeyText(medium.key, medium.form) # <<>>
    BY <1>1, KeyTextRead
  <2>2. CASE medium.ownKey
    <3>1. keySource = EncodeAESKeyHex(medium.key)
      BY <2>1, <2>2
    <3> QED
      BY <2>1, <3>1, Zenon
  <2>3. CASE ~medium.ownKey
    <3>1. keySource = KeyText(medium.key, medium.form)
      BY <2>3 DEF Object
    <3> QED
      BY <2>1, <3>1, Zenon
  <2> QED
    BY <2>2, <2>3
<1> HIDE DEF override, c
<1>4. ~(Len(c) * BlockSize > MaxDownloadBytes)
  <2>1. Len(medium.data) \in Nat
    BY <1>1, LenProperties
  <2>2. Len(c) = BlocksOf(Len(medium.data))
    BY <1>1, Encrypted DEF c
  <2>3. Len(c) * BlockSize = Len(medium.data) + Padding(Len(medium.data))
    BY <2>1, <2>2, PaddingFills
  <2>4. Padding(Len(medium.data)) \in 1..BlockSize
    BY <2>1, PaddingFills
  <2>5. Len(medium.data) + Padding(Len(medium.data)) \in Nat
    BY <2>1, <2>4, BlockSizeAssumption
  <2> QED
    BY <2>3, <2>5, BlockSizeAssumption
<1>5. medium.key # Failed
  <2>1. Len(Failed) = 1 /\ KeySize # 1
    BY DEF Failed, KeySize
  <2> QED
    BY <1>1, <2>1, Zenon
<1>6. Download(Object, override) = Unpad(PlainBytes(c, medium.key))
  <2> HIDE DEF keySource
  <2>1. (IF keySource = <<>> THEN Failed ELSE DecodeAESKey(keySource)) = medium.key
    BY <1>3
  <2>2. Download(Object, override) =
            IF Len(c) * BlockSize > MaxDownloadBytes \/ medium.key = Failed THEN Failed
            ELSE Unpad(PlainBytes(c, medium.key))
    BY <1>2, <2>1, Zenon DEF Download, keySource
  <2> QED
    BY <1>4, <1>5, <2>2
<1> QED
  BY <1>1, <1>6, Decrypted, Unpadded DEF c, override

\* Whatever was encrypted for the upload comes back from cdnDownload unless it is
\* larger than maxDownloadBytes, for every content, block size and AES-128 key,
\* and whether the key's text is hex digits, base64 of these, or base64 of the
\* key in either alphabet: DecodeAESKey never takes one form for another.
THEOREM MediaComesBack == MediaSpec => []MediaRoundTrip
<1>1. MediaInit => MediaInv
  BY DEF MediaInit, MediaInv
<1>2. MediaInv /\ [DownloadMedium]_mediaVars => MediaInv'
  <2> SUFFICES ASSUME MediaInv, [DownloadMedium]_mediaVars
               PROVE  MediaInv'
    OBVIOUS
  <2>1. medium' = medium
    BY DEF DownloadMedium, mediaVars
  <2>2. Object' = Object
    BY <2>1 DEF Object
  <2>3. CASE DownloadMedium
    BY <2>1, <2>2, <2>3 DEF MediaInv, DownloadMedium
  <2>4. CASE UNCHANGED mediaVars
    BY <2>1, <2>2, <2>4 DEF MediaInv, mediaVars
  <2> QED
    BY <2>3, <2>4
<1>3. MediaInv => MediaRoundTrip
  <2> SUFFICES ASSUME MediaInv
               PROVE  MediaRoundTrip
    OBVIOUS
  <2> QED
    BY DownloadReturns DEF MediaRoundTrip, MediaInv
<1> QED
  BY <1>1, <1>2, <1>3, PTL DEF MediaSpec

----------------------------------------------------------------------------
(***************************************************************************)
(* The messages of chunkText.                                              *)
(***************************************************************************)

\* A set of numbers up to n has a largest one.
LEMMA MaxOf ==
    ASSUME NEW n \in Nat, NEW S, S \subseteq 0..n, S # {}
    PROVE  Max(S) \in S /\ \A y \in S : Max(S) >= y
<1> DEFINE T == {n - i : i \in S}
<1>1. T \subseteq Nat /\ T # {}
  <2>1. PICK x : x \in S
    OBVIOUS
  <2>2. n - x \in T
    BY <2>1
  <2>3. \A i \in S : n - i \in Nat
    OBVIOUS
  <2> QED
    BY <2>2, <2>3
<1>2. PICK m \in T : \A y \in T : ~(<<y, m>> \in OpToRel(<, Nat))
  <2> HIDE DEF T
  <2> QED
    BY <1>1, NatLessThanWellFounded, WFMin
<1>3. \A y \in T : ~(y < m)
  BY <1>1, <1>2 DEF OpToRel
<1>4. PICK x \in S : m = n - x
  OBVIOUS
<1>5. \A y \in S : x >= y
  <2> SUFFICES ASSUME NEW y \in S
               PROVE  x >= y
    OBVIOUS
  <2>1. n - y \in T /\ x \in Int /\ y \in Int
    OBVIOUS
  <2>2. ~(n - y < n - x)
    BY <1>3, <1>4, <2>1
  <2> QED
    BY <2>1, <2>2
<1> QED
  BY <1>4, <1>5 DEF Max

\* The code compares with limit*3/10 in integers: that is the comparison with
\* three tenths.
LEMMA ThreeTenths ==
    ASSUME NEW k \in Nat, NEW l \in Nat
    PROVE  k > (l * 3) \div 10 <=> 10 * k > 3 * l
OBVIOUS

\* A cut is good when some place is in the last 70%.
LEMMA GoodCutMeans ==
    ASSUME limit \in Nat, NEW n \in Nat, NEW places, places \subseteq 0..n
    PROVE  /\ GoodCut(places) => Max(places) \in places /\ 10 * Max(places) > 3 * limit
           /\ \A i \in places : 10 * i > 3 * limit => GoodCut(places)
<1> DEFINE m == Max(places)
<1>0. places # {} => m \in places /\ \A y \in places : m >= y
  BY MaxOf
<1> HIDE DEF m
<1>1. ASSUME GoodCut(places)
      PROVE  m \in places /\ 10 * m > 3 * limit
  <2>1. m \in places /\ m > (limit * 3) \div 10
    BY <1>0, <1>1 DEF GoodCut, m
  <2> QED
    BY <2>1, ThreeTenths
<1>2. ASSUME NEW i \in places, 10 * i > 3 * limit
      PROVE  GoodCut(places)
  <2>1. m \in places /\ m >= i
    BY <1>0
  <2>2. m \in Nat /\ m >= i /\ i \in Nat
    BY <2>1
  <2>3. i > (limit * 3) \div 10 /\ (limit * 3) \div 10 \in Int
    BY <1>2, <2>2, ThreeTenths
  <2> QED
    BY <2>2, <2>3 DEF GoodCut, m
<1> QED
  BY <1>1, <1>2 DEF m

RankTyped == \A s, i : Rank(s, i) \in 1..4

LEMMA RankType == RankTyped
BY DEF RankTyped, Rank

\* A cut leaves a chunk of more than three tenths of the limit, and no place of a
\* better rank was passed up in the rest of the prefix.
LEMMA CutIsBest ==
    ASSUME limit \in Nat \ {0}, NEW prefix \in Seq(Runes), Len(prefix) = limit
    PROVE  /\ Cut(prefix) \in 1..limit
           /\ 10 * Cut(prefix) > 3 * limit
           /\ \A i \in 1..limit :
                 10 * (i - 2) > 3 * limit => Rank(prefix, Cut(prefix)) <= Rank(prefix, i)
<1> DEFINE P == Paragraphs(prefix)
           L == Lines(prefix)
           W == Spaces(prefix)
           Better(c) == \A i \in 1..limit :
                           10 * (i - 2) > 3 * limit => Rank(prefix, c) <= Rank(prefix, i)
<1>1. P \subseteq 0..limit /\ L \subseteq 0..limit /\ W \subseteq 0..limit
  BY DEF Paragraphs, Lines, Spaces
<1>2. \A i \in 1..limit : 10 * (i - 2) > 3 * limit /\ Rank(prefix, i) = 1 => GoodCut(P)
  <2> SUFFICES ASSUME NEW i \in 1..limit, 10 * (i - 2) > 3 * limit, Rank(prefix, i) = 1
               PROVE  GoodCut(P)
    OBVIOUS
  <2>1. i >= 2 /\ prefix[i - 1] = "newline" /\ prefix[i] = "newline"
    BY DEF Rank
  <2>2. i - 2 \in P
    BY <2>1 DEF Paragraphs
  <2> QED
    BY <1>1, <2>2, GoodCutMeans
<1>3. \A i \in 1..limit : 10 * (i - 2) > 3 * limit /\ Rank(prefix, i) = 2 => GoodCut(L)
  <2> SUFFICES ASSUME NEW i \in 1..limit, 10 * (i - 2) > 3 * limit, Rank(prefix, i) = 2
               PROVE  GoodCut(L)
    OBVIOUS
  <2>1. prefix[i] = "newline"
    BY DEF Rank
  <2>2. i - 1 \in L /\ 10 * (i - 1) > 3 * limit
    BY <2>1 DEF Lines
  <2> QED
    BY <1>1, <2>2, GoodCutMeans
<1>4. \A i \in 1..limit : 10 * (i - 2) > 3 * limit /\ Rank(prefix, i) = 3 => GoodCut(W)
  <2> SUFFICES ASSUME NEW i \in 1..limit, 10 * (i - 2) > 3 * limit, Rank(prefix, i) = 3
               PROVE  GoodCut(W)
    OBVIOUS
  <2>1. prefix[i] = "space"
    BY DEF Rank
  <2>2. i - 1 \in W /\ 10 * (i - 1) > 3 * limit
    BY <2>1 DEF Spaces
  <2> QED
    BY <1>1, <2>2, GoodCutMeans
<1>5. CASE GoodCut(P)
  <2>1. Cut(prefix) = Max(P) + 2
    BY <1>5 DEF Cut
  <2>2. Max(P) \in P /\ 10 * Max(P) > 3 * limit
    BY <1>1, <1>5, GoodCutMeans
  <2>3. PICK c \in P : c = Max(P)
    BY <2>2
  <2>4. c \in 0..(limit - 2) /\ prefix[c + 1] = "newline" /\ prefix[c + 2] = "newline"
    BY DEF Paragraphs
  <2>5. Rank(prefix, c + 2) = 1
    BY <2>4 DEF Rank
  <2>6. Better(c + 2)
    BY <2>5, RankType DEF RankTyped
  <2> QED
    BY <2>1, <2>2, <2>3, <2>4, <2>6
<1>6. CASE ~GoodCut(P) /\ GoodCut(L)
  <2>1. Cut(prefix) = Max(L) + 1
    BY <1>6 DEF Cut
  <2>2. Max(L) \in L /\ 10 * Max(L) > 3 * limit
    BY <1>1, <1>6, GoodCutMeans
  <2>3. PICK c \in L : c = Max(L)
    BY <2>2
  <2>4. c \in 0..(limit - 1) /\ prefix[c + 1] = "newline"
    BY DEF Lines
  <2>5. Rank(prefix, c + 1) <= 2
    BY <2>4 DEF Rank
  <2>6. Better(c + 1)
    BY <1>2, <1>6, <2>5, RankType DEF RankTyped
  <2> QED
    BY <2>1, <2>2, <2>3, <2>4, <2>6
<1>7. CASE ~GoodCut(P) /\ ~GoodCut(L) /\ GoodCut(W)
  <2>1. Cut(prefix) = Max(W) + 1
    BY <1>7 DEF Cut
  <2>2. Max(W) \in W /\ 10 * Max(W) > 3 * limit
    BY <1>1, <1>7, GoodCutMeans
  <2>3. PICK c \in W : c = Max(W)
    BY <2>2
  <2>4. c \in 0..(limit - 1) /\ prefix[c + 1] = "space"
    BY DEF Spaces
  <2>5. Rank(prefix, c + 1) <= 3
    BY <2>4 DEF Rank
  <2>6. Better(c + 1)
    BY <1>2, <1>3, <1>7, <2>5, RankType DEF RankTyped
  <2> QED
    BY <2>1, <2>2, <2>3, <2>4, <2>6
<1>8. CASE ~GoodCut(P) /\ ~GoodCut(L) /\ ~GoodCut(W)
  <2>1. Cut(prefix) = limit
    BY <1>8 DEF Cut
  <2>2. Better(limit)
    BY <1>2, <1>3, <1>4, <1>8, RankType DEF RankTyped
  <2> QED
    BY <2>1, <2>2
<1> QED
  BY <1>5, <1>6, <1>7, <1>8

ChunkType ==
    /\ text \in Seq(Runes) /\ rest \in Seq(Runes) /\ sent \in Seq(Runes)
    /\ chunks \in Seq(Seq(Runes))
    /\ limit \in Int /\ cutting \in BOOLEAN

Whole == sent \o rest = text /\ (~cutting => rest = <<>>)

\* While the loop runs there is something left to send, unless the text is empty.
RuneLeft == cutting /\ text # <<>> => rest # <<>>

ChunkInv == ChunkType /\ Whole /\ RuneLeft

\* One turn of the loop that cuts.
LEMMA CutChunkCuts ==
    ASSUME ChunkInv, CutChunk
    PROVE  ChunkInv' /\ WellCut
<1> DEFINE prefix == SubSeq(rest, 1, limit)
           c == Cut(prefix)
           head == SubSeq(rest, 1, c)
           tail == SubSeq(rest, c + 1, Len(rest))
<1>1. /\ rest \in Seq(Runes) /\ limit \in Nat \ {0} /\ Len(rest) \in Nat /\ Len(rest) > limit
      /\ cutting
  BY DEF CutChunk, ChunkInv, ChunkType
<1>2. /\ prefix \in Seq(Runes) /\ Len(prefix) = limit
      /\ \A i \in 1..limit : prefix[i] = rest[i]
  BY <1>1
<1> HIDE DEF prefix
<1>3. /\ c \in 1..limit /\ 10 * c > 3 * limit
      /\ \A i \in 1..limit : 10 * (i - 2) > 3 * limit => Rank(prefix, c) <= Rank(prefix, i)
  BY <1>1, <1>2, CutIsBest
<1>4. /\ chunks' = Append(chunks, head) /\ sent' = sent \o head /\ rest' = tail
      /\ text' = text /\ limit' = limit /\ cutting' = cutting
  BY DEF CutChunk, Emit, prefix
<1> HIDE DEF c
<1>5. /\ head \in Seq(Runes) /\ Len(head) = c
      /\ tail \in Seq(Runes) /\ Len(tail) = Len(rest) - c /\ tail # <<>>
  <2>1. head \in Seq(Runes) /\ Len(head) = c
    BY <1>1, <1>3
  <2>2. tail \in Seq(Runes) /\ Len(tail) = Len(rest) - c
    BY <1>1, <1>3
  <2> HIDE DEF head, tail
  <2> QED
    BY <1>1, <1>3, <2>1, <2>2
<1>6. head \o tail = rest
  <2>1. Len(head \o tail) = Len(rest) /\ head \o tail \in Seq(Runes)
    BY <1>1, <1>3, <1>5
  <2>2. \A i \in 1..c : head[i] = rest[i]
    BY <1>1, <1>3
  <2>3. \A i \in 1..(Len(rest) - c) : tail[i] = rest[c + i]
    BY <1>1, <1>3
  <2> HIDE DEF head, tail
  <2>4. \A i \in 1..Len(rest) : (head \o tail)[i] = rest[i]
    <3> TAKE i \in 1..Len(rest)
    <3>1. CASE i <= c
      BY <1>1, <1>3, <1>5, <2>2, <3>1
    <3>2. CASE i > c
      <4>1. i - c \in 1..(Len(rest) - c) /\ c + (i - c) = i
        BY <1>1, <1>3, <3>2
      <4>2. (head \o tail)[i] = tail[i - c]
        BY <1>1, <1>3, <1>5, <3>2
      <4> QED BY <2>3, <4>1, <4>2
    <3>3. i <= c \/ i > c
      BY <1>1, <1>3
    <3> QED BY <3>1, <3>2, <3>3
  <2>5. Len(head \o tail) = Len(rest)
    BY <2>1
  <2> QED
    BY <1>1, <2>1, <2>4, <2>5, SeqEqual
<1> HIDE DEF head, tail
<1>7. sent' \o rest' = text
  <2>1. sent \in Seq(Runes) /\ sent \o rest = text
    BY DEF ChunkInv, ChunkType, Whole
  <2>2. \A s, t, u \in Seq(Runes) : (s \o t) \o u = s \o (t \o u)
    BY ConcatAssociative
  <2> QED
    BY <1>4, <1>5, <1>6, <2>1, <2>2
<1>8. ChunkType'
  BY <1>4, <1>5 DEF ChunkInv, ChunkType
<1>9. Whole' /\ RuneLeft'
  BY <1>1, <1>4, <1>5, <1>7 DEF Whole, RuneLeft
<1>10. chunks'[Len(chunks')] = head
  BY <1>4, <1>5 DEF ChunkInv, ChunkType
<1>11. \A i \in 1..limit : Rank(rest, i) = Rank(prefix, i)
  BY <1>1, <1>2 DEF Rank
<1>12. WellCut
  BY <1>1, <1>3, <1>5, <1>10, <1>11 DEF WellCut
<1> QED
  BY <1>8, <1>9, <1>12 DEF ChunkInv

\* The turn that ends the loop.
LEMMA LastChunkFits ==
    ASSUME ChunkInv, LastChunk
    PROVE  ChunkInv' /\ WellCut
<1>1. /\ chunks' = Append(chunks, rest) /\ sent' = sent \o rest /\ rest' = <<>>
      /\ text' = text /\ limit' = limit /\ cutting' = FALSE
      /\ rest \in Seq(Runes) /\ limit \in Int /\ cutting
      /\ limit <= 0 \/ Len(rest) <= limit
  BY DEF LastChunk, Emit, ChunkInv, ChunkType
<1>2. sent' = text /\ text \in Seq(Runes)
  BY <1>1 DEF ChunkInv, Whole, ChunkType
<1>3. sent' \o rest' = text
  BY <1>1, <1>2, ConcatEmptySeq
<1>4. ChunkType'
  <2>1. chunks' \in Seq(Seq(Runes))
    BY <1>1 DEF ChunkInv, ChunkType
  <2>2. rest' \in Seq(Runes)
    BY <1>1, EmptySeq
  <2> QED
    BY <1>1, <1>2, <2>1, <2>2 DEF ChunkType
<1>5. Whole' /\ RuneLeft'
  BY <1>1, <1>3 DEF Whole, RuneLeft
<1>6. chunks'[Len(chunks')] = rest
  BY <1>1 DEF ChunkInv, ChunkType
<1>7. text # <<>> => Len(rest) > 0 /\ Len(rest) \in Nat
  BY <1>1 DEF ChunkInv, RuneLeft
<1>8. WellCut
  BY <1>1, <1>6, <1>7 DEF WellCut
<1> QED
  BY <1>4, <1>5, <1>8 DEF ChunkInv

\* The messages of chunkText are the text, in order and nothing else, each within
\* the limit and none a sliver, cut at the best kind of place that there is, for
\* every text and every limit.
THEOREM ChunksAreWhole == ChunkSpec => ChunksWhole
<1>1. ChunkInit => ChunkInv
  BY TextsAssumption, ConcatEmptySeq
  DEF ChunkInit, ChunkInv, ChunkType, Whole, RuneLeft
<1>2. ChunkInv /\ [ChunkNext]_chunkVars => ChunkInv' /\ [WellCut]_chunkVars
  <2> SUFFICES ASSUME ChunkInv, [ChunkNext]_chunkVars
               PROVE  ChunkInv' /\ [WellCut]_chunkVars
    OBVIOUS
  <2>1. CASE CutChunk
    BY <2>1, CutChunkCuts
  <2>2. CASE LastChunk
    BY <2>2, LastChunkFits
  <2>3. CASE UNCHANGED chunkVars
    BY <2>3 DEF chunkVars, ChunkInv, ChunkType, Whole, RuneLeft
  <2> QED
    BY <2>1, <2>2, <2>3 DEF ChunkNext
<1>3. ChunkInv => sent \o rest = text /\ (~cutting => rest = <<>>)
  BY DEF ChunkInv, Whole
<1> QED
  BY <1>1, <1>2, <1>3, PTL DEF ChunkSpec, ChunksWhole

(***************************************************************************)
(* redact.Error.                                                           *)
(***************************************************************************)
Refs == [of : Nat, copy : BOOLEAN]
Results == [ref : Refs, value : Values(Refs)]

\* OnlySecretsLost for one error.
Redacted(n) ==
    /\ ~result[n].value.secret
    /\ result[n].value.causes =
          [i \in DOMAIN errs[n].causes |-> result[errs[n].causes[i].of].ref]
    /\ result[n].value.kind = "url" <=> errs[n].kind = "url"
    /\ errs[n].kind = "url" => result[n].ref = Copy(n)
    /\ Safe(n) => result[n].ref = Original(n)

LEMMA AllRedacted == OnlySecretsLost <=> \A n \in 1..Len(result) : Redacted(n)
BY DEF OnlySecretsLost, Redacted

ErrorInv ==
    /\ errs \in Errors /\ result \in Seq(Results) /\ Len(result) <= Len(errs)
    /\ OnlySecretsLost

\* The causes of an error were made before it.
LEMMA ErrorTypes ==
    ASSUME errs \in Errors
    PROVE  /\ Len(errs) \in Nat /\ DOMAIN errs = 1..Len(errs)
           /\ \A n \in 1..Len(errs) :
                 /\ errs[n].kind \in Kinds /\ errs[n].secret \in BOOLEAN
                 /\ errs[n] \in Values(Refs)
                 /\ errs[n].causes \in Seq(Refs)
                 /\ \A i \in DOMAIN errs[n].causes :
                       /\ errs[n].causes[i].of \in 1..(n - 1)
                       /\ errs[n].causes[i] = Original(errs[n].causes[i].of)
<1> DEFINE Origs == {Original(m) : m \in 1..Len(errs)}
<1>1. /\ errs \in Seq(Values(Origs))
      /\ \A n \in DOMAIN errs : \A i \in DOMAIN errs[n].causes : errs[n].causes[i].of < n
  BY ErrorsAssumption
<1>2. Len(errs) \in Nat /\ DOMAIN errs = 1..Len(errs)
  BY <1>1
<1>3. ASSUME NEW n \in 1..Len(errs)
      PROVE  /\ errs[n].kind \in Kinds /\ errs[n].secret \in BOOLEAN
             /\ errs[n] \in Values(Refs)
             /\ errs[n].causes \in Seq(Refs)
             /\ \A i \in DOMAIN errs[n].causes :
                   /\ errs[n].causes[i].of \in 1..(n - 1)
                   /\ errs[n].causes[i] = Original(errs[n].causes[i].of)
  <2>1. errs[n] \in Values(Origs)
    BY <1>1, <1>2
  <2>2. /\ errs[n].causes \in Seq(Origs) /\ errs[n].kind \in Kinds
        /\ errs[n].secret \in BOOLEAN /\ errs[n].comparable \in BOOLEAN
    BY <2>1 DEF Values
  <2>3. Origs \subseteq Refs /\ \A o \in Origs : o = Original(o.of) /\ o.of \in 1..Len(errs)
    <3> SUFFICES ASSUME NEW o \in Origs
                 PROVE  o \in Refs /\ o = Original(o.of) /\ o.of \in 1..Len(errs)
      OBVIOUS
    <3>1. PICK m \in 1..Len(errs) : o = [of |-> m, copy |-> FALSE]
      BY DEF Original
    <3>2. o.of = m /\ m \in Nat
      BY <1>2, <3>1
    <3> QED BY <3>1, <3>2 DEF Original, Refs
  <2>4. errs[n].causes \in Seq(Refs)
    <3> HIDE DEF Origs
    <3>1. \A i \in 1..Len(errs[n].causes) : errs[n].causes[i] \in Refs
      BY <2>2, <2>3
    <3> QED BY <2>2, <3>1
  <2>5. \A i \in DOMAIN errs[n].causes : errs[n].causes[i] \in Origs
    BY <2>2
  <2>6. errs[n] = [kind |-> errs[n].kind, secret |-> errs[n].secret,
                   comparable |-> errs[n].comparable, causes |-> errs[n].causes]
    BY <2>1 DEF Values
  <2>7. errs[n] \in Values(Refs)
    BY <2>2, <2>4, <2>6 DEF Values
  <2>8. \A i \in DOMAIN errs[n].causes :
           /\ errs[n].causes[i].of \in 1..(n - 1)
           /\ errs[n].causes[i] = Original(errs[n].causes[i].of)
    BY <1>1, <1>2, <2>3, <2>5
  <2> QED BY <2>2, <2>4, <2>7, <2>8
<1> QED BY <1>2, <1>3

\* What lies under a safe error is safe.
LEMMA SafeCauses ==
    ASSUME errs \in Errors, NEW n \in 1..Len(errs), Safe(n)
    PROVE  /\ ~errs[n].secret /\ ~HasURL(n)
           /\ \A i \in DOMAIN errs[n].causes :
                 /\ Safe(errs[n].causes[i].of)
                 /\ errs[errs[n].causes[i].of].comparable
<1>1. PICK S \in SUBSET DOMAIN errs :
          /\ n \in S /\ Closed(S)
          /\ \A m \in S :
                /\ ~errs[m].secret /\ errs[m].kind # "url"
                /\ \A i \in DOMAIN errs[m].causes : errs[errs[m].causes[i].of].comparable
  BY DEF Safe
<1>2. ~HasURL(n)
  BY <1>1 DEF HasURL
<1>3. \A i \in DOMAIN errs[n].causes : errs[n].causes[i].of \in S
  BY <1>1 DEF Closed
<1>4. \A m \in S : Safe(m)
  BY <1>1 DEF Safe
<1> QED BY <1>1, <1>2, <1>3, <1>4

\* A URL error counts as one that has a URL error.
LEMMA URLHasURL ==
    ASSUME NEW n, errs[n].kind = "url"
    PROVE  HasURL(n)
BY DEF HasURL

\* What Error makes of the next error, given the results for its causes.
LEMMA ErrorKeeps ==
    ASSUME ErrorInv, Error
    PROVE  ErrorInv'
<1> DEFINE n == Len(result) + 1
           err == errs[n]
           safeCauses == [i \in DOMAIN err.causes |-> result[err.causes[i].of].ref]
           same == ~HasURL(n) /\ Unchanged(err, safeCauses)
           new == IF same THEN [ref |-> Original(n), value |-> err]
                  ELSE [ref |-> Copy(n), value |-> Rebuilt(err, safeCauses)]
<1>1. /\ n <= Len(errs) /\ result' = Append(result, new) /\ errs' = errs
  BY SMTT(30) DEF Error
<1>2. /\ errs \in Errors /\ result \in Seq(Results) /\ OnlySecretsLost
      /\ Len(result) \in Nat /\ n \in 1..Len(errs) /\ n \in Nat
  BY <1>1, ErrorTypes DEF ErrorInv
<1>3. /\ err.kind \in Kinds /\ err.secret \in BOOLEAN /\ err \in Values(Refs)
      /\ err.causes \in Seq(Refs)
      /\ \A i \in DOMAIN err.causes :
            /\ err.causes[i].of \in 1..Len(result)
            /\ err.causes[i] = Original(err.causes[i].of)
  <2>1. n - 1 = Len(result)
    BY <1>2
  <2> QED BY <1>2, <2>1, ErrorTypes
<1>4. safeCauses \in Seq(Refs) /\ DOMAIN safeCauses = DOMAIN err.causes
  <2>1. \A m \in 1..Len(result) : result[m].ref \in Refs
    <3>1. \A m \in 1..Len(result) : result[m] \in Results
      BY <1>2
    <3> QED BY <3>1 DEF Results
  <2>2. DOMAIN err.causes = 1..Len(err.causes) /\ Len(err.causes) \in Nat
    BY <1>3
  <2>3. \A i \in 1..Len(err.causes) : result[err.causes[i].of].ref \in Refs
    BY <1>3, <2>1, <2>2
  <2>4. safeCauses \in [1..Len(err.causes) -> Refs]
    BY <2>2, <2>3
  <2> QED BY <2>2, <2>4
<1> HIDE DEF n, safeCauses, err
<1>5. /\ new \in Results /\ ~new.value.secret /\ new.value.causes = safeCauses
      /\ new.value.kind = "url" <=> err.kind = "url"
      /\ err.kind = "url" => new.ref = Copy(n)
      /\ Safe(n) => new.ref = Original(n)
  <2>1. CASE same
    <3>1. new = [ref |-> Original(n), value |-> err] /\ new.value = err /\ new.ref = Original(n)
      BY <2>1
    <3>2. ~err.secret /\ \A i \in DOMAIN safeCauses : safeCauses[i] = err.causes[i]
      BY <2>1 DEF Unchanged, SameError
    <3>3. err.causes = safeCauses
      <4>1. DOMAIN err.causes = 1..Len(err.causes) /\ Len(err.causes) \in Nat
        BY <1>3
      <4>2. DOMAIN safeCauses = 1..Len(safeCauses) /\ Len(safeCauses) \in Nat
        BY <1>4
      <4>3. Len(safeCauses) = Len(err.causes)
        BY <1>4, <4>1, <4>2
      <4> QED BY <1>3, <1>4, <3>2, <4>1, <4>2, <4>3, SeqEqual
    <3>4. err.kind # "url"
      BY <2>1, URLHasURL DEF err
    <3>5. Original(n) \in Refs
      BY <1>2 DEF Refs, Original
    <3>6. new \in Results
      BY <1>3, <3>1, <3>5 DEF Results
    <3> QED BY <3>1, <3>2, <3>3, <3>4, <3>6
  <2>2. CASE ~same
    <3> DEFINE value == Rebuilt(err, safeCauses)
    <3>1. new = [ref |-> Copy(n), value |-> value] /\ new.value = value /\ new.ref = Copy(n)
      BY <2>2
    <3>2. /\ value.secret = FALSE /\ value.causes = safeCauses
          /\ value.kind \in Kinds /\ (value.kind = "url" <=> err.kind = "url")
          /\ value \in Values(Refs)
      BY <1>3, <1>4 DEF Rebuilt, Values, Kinds
    <3>3. Copy(n) \in Refs
      BY <1>2 DEF Refs, Copy
    <3>4. new \in Results
      <4> HIDE DEF value
      <4> QED BY <3>1, <3>2, <3>3 DEF Results
    <3>5. ~Safe(n)
      <4> SUFFICES ASSUME Safe(n) PROVE FALSE
        OBVIOUS
      <4>1. /\ ~err.secret /\ ~HasURL(n)
            /\ \A i \in DOMAIN err.causes :
                  Safe(err.causes[i].of) /\ errs[err.causes[i].of].comparable
        BY <1>2, SafeCauses DEF err
      <4>2. \A i \in DOMAIN err.causes : safeCauses[i] = Original(err.causes[i].of)
        BY <1>2, <1>3, <4>1 DEF OnlySecretsLost, safeCauses
      <4>3. \A i \in DOMAIN safeCauses : SameError(safeCauses[i], err.causes[i])
        BY <1>3, <1>4, <4>1, <4>2 DEF SameError
      <4> QED BY <2>2, <4>1, <4>3 DEF Unchanged
    <3> QED BY <3>1, <3>2, <3>4, <3>5
  <2> QED BY <2>1, <2>2
<1> HIDE DEF new
<1>6. /\ result' \in Seq(Results) /\ Len(result') = n /\ result'[n] = new
      /\ \A m \in 1..Len(result) : result'[m] = result[m]
  BY <1>1, <1>2, <1>5, AppendProperties DEF n
<1>7. \A m \in 1..n : Safe(m)' <=> Safe(m)
  BY <1>1 DEF Safe, Closed
<1>8. \A m \in 1..n : Redacted(m)'
  <2> TAKE m \in 1..n
  <2>1. m \in 1..Len(errs) /\ m - 1 <= Len(result) /\ m \in Nat
    BY <1>1, <1>2 DEF n
  <2>2. \A i \in DOMAIN errs[m].causes :
           result'[errs[m].causes[i].of] = result[errs[m].causes[i].of]
    <3>1. \A i \in DOMAIN errs[m].causes : errs[m].causes[i].of \in 1..(m - 1)
      BY <1>2, <2>1, ErrorTypes
    <3>2. \A k \in 1..(m - 1) : result'[k] = result[k]
      BY <1>2, <1>6, <2>1, SMTT(30)
    <3> QED BY <3>1, <3>2
  <2>3. CASE m = n
    <3>1. safeCauses = [i \in DOMAIN errs[m].causes |-> result'[errs[m].causes[i].of].ref]
      BY <2>2, <2>3 DEF safeCauses, err
    <3> QED BY <1>1, <1>5, <1>6, <1>7, <2>3, <3>1 DEF Redacted, err
  <2>4. CASE m # n
    <3>1. m \in 1..Len(result) /\ result'[m] = result[m]
      BY <1>2, <1>6, <2>4 DEF n
    <3>2. [i \in DOMAIN errs[m].causes |-> result'[errs[m].causes[i].of].ref] =
          [i \in DOMAIN errs[m].causes |-> result[errs[m].causes[i].of].ref]
      BY <2>2
    <3>3. Redacted(m)
      BY <1>2, <3>1, AllRedacted
    <3> QED BY <1>1, <1>7, <3>1, <3>2, <3>3 DEF Redacted
  <2> QED BY <2>3, <2>4
<1>9. OnlySecretsLost'
  <2>1. \A m \in 1..Len(result') : Redacted(m)'
    BY <1>6, <1>8
  <2>2. OnlySecretsLost' <=> \A m \in 1..Len(result') : Redacted(m)'
    BY DEF OnlySecretsLost, Redacted
  <2> QED BY <2>1, <2>2
<1> QED BY <1>1, <1>2, <1>6, <1>9, SMTT(30) DEF ErrorInv

\* No secret can be reached from what redact.Error returns, every safe cause is
\* the same object at the same place, and URL errors are found as copies, for
\* every error however it is nested.
THEOREM SecretsRemoved == ErrorSpec => []OnlySecretsLost
<1>1. ErrorInit => ErrorInv
  BY ErrorTypes DEF ErrorInit, ErrorInv, OnlySecretsLost
<1>2. ErrorInv /\ [Error]_errorVars => ErrorInv'
  <2> SUFFICES ASSUME ErrorInv, [Error]_errorVars PROVE ErrorInv'
    OBVIOUS
  <2>1. CASE UNCHANGED errorVars
    BY <2>1 DEF errorVars, ErrorInv, OnlySecretsLost, Safe, Closed
  <2> QED BY <2>1, ErrorKeeps
<1>3. ErrorInv => OnlySecretsLost
  BY DEF ErrorInv
<1> QED BY <1>1, <1>2, <1>3, PTL DEF ErrorSpec
=============================================================================
