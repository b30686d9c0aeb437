------------------------------- MODULE Crypto -------------------------------
(***************************************************************************)
(* The encryption of media (internal/crypto/aes.go): PKCS7 padding, the    *)
(* blocks of AES-ECB, and the download that undoes them.  A block that was *)
(* encrypted is the pair of its key and its plaintext, and opens only with *)
(* that key.                                                               *)
(***************************************************************************)
EXTENDS KeyTexts

CONSTANTS
    BlockSize,          \* aes.BlockSize
    MaxDownloadBytes    \* maxDownloadBytes

ASSUME BlockSizeAssumption == BlockSize \in Nat \ {0} /\ MaxDownloadBytes \in Nat

\* Fault: no padding for data that fills its last block.
PaddingIfNeeded(len) == (BlockSize - (len % BlockSize)) % BlockSize

Padding(len) == BlockSize - (len % BlockSize)

PadBytes(len) == [i \in 1..Padding(len) |-> Padding(len)]

\* The n-th block of padded data, encrypted.
EncryptBlock(padded, n, key) ==
    [key |-> key, block |-> SubSeq(padded, (n - 1) * BlockSize + 1, n * BlockSize)]

EncryptAESECB(plaintext, key) ==
    LET padded == plaintext \o PadBytes(Len(plaintext))
    IN  [n \in 1..(Len(padded) \div BlockSize) |-> EncryptBlock(padded, n, key)]

Garbage == -1   \* what a block decrypts to under another key

\* The decrypted blocks, one after another.
PlainBytes(ciphertext, key) ==
    [i \in 1..(Len(ciphertext) * BlockSize) |->
        LET b == ciphertext[((i - 1) \div BlockSize) + 1]
        IN  IF b.key = key THEN b.block[((i - 1) % BlockSize) + 1] ELSE Garbage]

\* pkcs7Unpad looks at the last byte only.
Unpad(data) ==
    IF data = <<>> \/ data[Len(data)] \notin 1..Len(data) THEN Failed
    ELSE SubSeq(data, 1, Len(data) - data[Len(data)])

\* cdnDownload of an object that is there; aeskeyOverride is the image's own key,
\* or empty.  What is too large, or has no key, is not decrypted.
Download(object, aeskeyOverride) ==
    LET keySource == IF aeskeyOverride = <<>> THEN object.aesKey ELSE aeskeyOverride
        key       == IF keySource = <<>> THEN Failed ELSE DecodeAESKey(keySource)
    IN  IF Len(object.data) * BlockSize > MaxDownloadBytes \/ key = Failed THEN Failed
        ELSE Unpad(PlainBytes(object.data, key))
=============================================================================
