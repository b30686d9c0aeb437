---------------------------- MODULE MediaUpload ----------------------------
(***************************************************************************)
(* The bytes of a media file from the slice that a caller hands to Upload  *)
(* or SendMedia to what the receiver's Download returns                    *)
(* (cdnUploadWithThumb and cdnDownload in media.go, EncryptAESECB).        *)
(*                                                                         *)
(* Several uploads run at the same time on slices of one memory.  A slice  *)
(* begins after the first off cells, and has a length and a capacity.      *)
(***************************************************************************)
EXTENDS Crypto

CONSTANTS
    Uploads,        \* goroutines that upload
    GeneratedKey,   \* what GenerateAESKey gives each of them
    Slices,         \* the slices that may be uploaded: [off, len, cap]
    MemorySize,     \* bound: cells of the memory
    Bytes           \* bound: byte values of the media

Unpadded == <<"in memory">>    \* append has not copied the data
None == [off |-> 0, len |-> 0, cap |-> 0]

VARIABLES
    memory,         \* the callers' memory
    pc, slice,      \* of each upload: where it is, the slice it was given
    given,          \* history: the bytes of the slice at the call
    padded,         \* the padded data, if append had to copy it
    ciphertext,
    announced,      \* RawSize, RawFileMD5 and FileSize of getuploadurl
    object          \* what the CDN stores

vars == <<memory, pc, slice, given, padded, ciphertext, announced, object>>

Init ==
    /\ memory \in [1..MemorySize -> Bytes]
    /\ pc = [u \in Uploads |-> "idle"] /\ slice = [u \in Uploads |-> None]
    /\ given = [u \in Uploads |-> <<>>] /\ padded = [u \in Uploads |-> Unpadded]
    /\ ciphertext = [u \in Uploads |-> <<>>]
    /\ announced = [u \in Uploads |-> <<>>] /\ object = [u \in Uploads |-> Failed]

----------------------------------------------------------------------------
Read(s, len) == SubSeq(memory, s.off + 1, s.off + len)

Goto(u, place) == pc' = [pc EXCEPT ![u] = place]

Call(u, s) ==
    /\ pc[u] = "idle"
    /\ slice' = [slice EXCEPT ![u] = s]
    /\ given' = [given EXCEPT ![u] = Read(s, s.len)]
    /\ Goto(u, "pad")
    /\ UNCHANGED <<memory, padded, ciphertext, announced, object>>

PaddedLen(s) == s.len + Padding(s.len)

\* pkcs7Pad: append(data, pad...) writes behind the slice if its capacity allows.
Pad(u) ==
    LET s == slice[u]
    IN  /\ pc[u] = "pad"
        /\ \/ /\ PaddedLen(s) <= s.cap
              /\ memory' = [i \in 1..MemorySize |->
                    IF i \in (s.off + s.len + 1)..(s.off + PaddedLen(s))
                    THEN Padding(s.len) ELSE memory[i]]
              /\ UNCHANGED padded
           \/ /\ PaddedLen(s) > s.cap
              /\ padded' = [padded EXCEPT ![u] = Read(s, s.len) \o PadBytes(s.len)]
              /\ UNCHANGED memory
        /\ Goto(u, "encrypt")
        /\ UNCHANGED <<slice, given, ciphertext, announced, object>>

Plain(u) ==
    IF padded[u] = Unpadded THEN Read(slice[u], PaddedLen(slice[u])) ELSE padded[u]

\* block.Encrypt of the next block.
Encrypt(u) ==
    LET n == Len(ciphertext[u])
    IN  /\ pc[u] = "encrypt" /\ n * BlockSize < PaddedLen(slice[u])
        /\ ciphertext' = [ciphertext EXCEPT ![u] =
              Append(@, EncryptBlock(Plain(u), n + 1, GeneratedKey[u]))]
        /\ UNCHANGED <<memory, pc, slice, given, padded, announced, object>>

\* The sizes and the MD5 of the data, which is read again, go to getuploadurl.
Announce(u) ==
    /\ pc[u] = "encrypt" /\ Len(ciphertext[u]) * BlockSize >= PaddedLen(slice[u])
    /\ announced' = [announced EXCEPT ![u] =
          [rawSize |-> slice[u].len, md5 |-> Read(slice[u], slice[u].len),
           fileSize |-> Len(ciphertext[u]) * BlockSize]]
    /\ Goto(u, "upload")
    /\ UNCHANGED <<memory, slice, given, padded, ciphertext, object>>

\* UploadToCDN sends the ciphertext, however often it tries.
Upload(u) ==
    /\ pc[u] = "upload"
    /\ object' = [object EXCEPT ![u] =
          [data |-> ciphertext[u], aesKey |-> EncodeAESKeyBase64(GeneratedKey[u])]]
    /\ Goto(u, "returned")
    /\ UNCHANGED <<memory, slice, given, padded, ciphertext, announced>>

Next ==
    \E u \in Uploads :
        \/ \E s \in Slices : Call(u, s)
        \/ Pad(u) \/ Encrypt(u) \/ Announce(u) \/ Upload(u)

Spec == Init /\ [][Next]_vars

----------------------------------------------------------------------------
\* Whoever downloads a medium gets the bytes that the slice held when Upload was
\* called, whatever uploads of other slices run beside it; and the size and
\* digest that were announced for the medium are those of the same bytes.
SentAsGiven ==
    \A u \in Uploads :
        pc[u] = "returned" =>
            /\ Download(object[u], <<>>) = given[u]
            /\ announced[u] = [rawSize |-> Len(given[u]), md5 |-> given[u],
                               fileSize |-> Len(given[u]) + Padding(Len(given[u]))]
=============================================================================
