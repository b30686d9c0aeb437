------------------------------ MODULE KeyTexts ------------------------------
(***************************************************************************)
(* The texts in which an AES key is sent (internal/crypto/aes.go and       *)
(* docs/protocol.md): hex digits, base64 of the key, base64 of its hex     *)
(* digits.  A text is the sequence of its ASCII codes, bytes are numbers.  *)
(***************************************************************************)
EXTENDS Integers, Sequences

Byte == 0..255
KeySize == 16       \* AES-128
Failed == <<-2>>    \* an error, and no bytes

----------------------------------------------------------------------------
\* encoding/hex: digits are written in lower case and read in either.
HexDigit(v) == IF v < 10 THEN 48 + v ELSE 87 + v

IsHexDigit(c) == c \in (48..57) \cup (65..70) \cup (97..102)

HexValue(c) ==
    IF c <= 57 THEN c - 48 ELSE IF c <= 70 THEN c - 55 ELSE c - 87

HexEncode(bytes) ==
    [i \in 1..(2 * Len(bytes)) |->
        LET b == bytes[(i + 1) \div 2]
        IN  HexDigit(IF i % 2 = 1 THEN b \div 16 ELSE b % 16)]

HexDecode(text) ==
    [i \in 1..(Len(text) \div 2) |-> 16 * HexValue(text[2 * i - 1]) + HexValue(text[2 * i])]

\* hexPattern
HexPattern(text) == Len(text) = 32 /\ \A i \in 1..32 : IsHexDigit(text[i])

----------------------------------------------------------------------------
\* encoding/base64: three bytes are four characters of six bits each.  The
\* alphabets differ in the characters of 62 and 63.
Equals == 61
StdEncoding == [c62 |-> 43, c63 |-> 47]     \* + and /
URLEncoding == [c62 |-> 45, c63 |-> 95]     \* - and _

Base64Char(v, enc) ==
    IF v < 26 THEN 65 + v ELSE IF v < 52 THEN 71 + v ELSE IF v < 62 THEN v - 4
    ELSE IF v = 62 THEN enc.c62 ELSE enc.c63

IsBase64Char(c, enc) ==
    c \in (65..90) \cup (97..122) \cup (48..57) \cup {enc.c62, enc.c63}

Base64Value(c, enc) ==
    IF c = enc.c62 THEN 62 ELSE IF c = enc.c63 THEN 63
    ELSE IF c <= 57 THEN c + 4 ELSE IF c <= 90 THEN c - 65 ELSE c - 71

\* The r-th six bits, from 0, of three bytes.
SixBits(b1, b2, b3, r) ==
    IF r = 0 THEN b1 \div 4
    ELSE IF r = 1 THEN (b1 % 4) * 16 + b2 \div 16
    ELSE IF r = 2 THEN (b2 % 16) * 4 + b3 \div 64 ELSE b3 % 64

\* The last three bytes are filled up with zeros.
ByteAt(bytes, i) == IF i <= Len(bytes) THEN bytes[i] ELSE 0

BitsAt(bytes, g, r) ==
    SixBits(ByteAt(bytes, g + 1), ByteAt(bytes, g + 2), ByteAt(bytes, g + 3), r)

\* Characters that would only have zeros that were filled in are "=".
EncodeToString(bytes, enc) ==
    [j \in 1..(4 * ((Len(bytes) + 2) \div 3)) |->
        LET g == 3 * ((j - 1) \div 4)
            r == (j - 1) % 4
        IN  IF g + r > Len(bytes) THEN Equals ELSE Base64Char(BitsAt(bytes, g, r), enc)]

\* How many characters at the end are no data.
Equalses(text) ==
    IF text[Len(text)] # Equals THEN 0 ELSE IF text[Len(text) - 1] # Equals THEN 1 ELSE 2

IsBase64(text, enc) ==
    /\ Len(text) % 4 = 0
    /\ \A j \in 1..(Len(text) - Equalses(text)) : IsBase64Char(text[j], enc)

\* The r-th byte, from 0, of four characters is in the six bits of two of them.
EightBits(v1, v2, r) ==
    IF r = 0 THEN v1 * 4 + v2 \div 16
    ELSE IF r = 1 THEN (v1 % 16) * 16 + v2 \div 4 ELSE (v1 % 4) * 64 + v2

\* Of a text that is not empty.
DecodeString(text, enc) ==
    IF ~IsBase64(text, enc) THEN Failed
    ELSE [i \in 1..(3 * (Len(text) \div 4) - Equalses(text)) |->
            LET r == (i - 1) % 3
                j == 4 * ((i - 1) \div 3) + r + 1
            IN  EightBits(Base64Value(text[j], enc), Base64Value(text[j + 1], enc), r)]

----------------------------------------------------------------------------
\* What the bot sends: hex to getuploadurl, base64 of hex in a medium.
EncodeAESKeyHex(key) == HexEncode(key)
EncodeAESKeyBase64(key) == EncodeToString(HexEncode(key), StdEncoding)

\* Fault: a key in hex, whose digits are all of base64, is taken for base64.
Base64First(encoded) ==
    LET std     == DecodeString(encoded, StdEncoding)
        decoded == IF std # Failed THEN std ELSE DecodeString(encoded, URLEncoding)
    IN  IF Len(decoded) = KeySize THEN decoded
        ELSE IF HexPattern(decoded) THEN HexDecode(decoded)
        ELSE IF decoded = Failed /\ HexPattern(encoded) THEN HexDecode(encoded) ELSE Failed

DecodeAESKey(encoded) ==
    LET std     == DecodeString(encoded, StdEncoding)
        decoded == IF std # Failed THEN std ELSE DecodeString(encoded, URLEncoding)
    IN  IF HexPattern(encoded) THEN HexDecode(encoded)
        ELSE IF Len(decoded) = KeySize THEN decoded
        ELSE IF HexPattern(decoded) THEN HexDecode(decoded) ELSE Failed
=============================================================================
