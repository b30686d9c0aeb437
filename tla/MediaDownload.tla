--------------------------- MODULE MediaDownload ---------------------------
(***************************************************************************)
(* A medium that was encrypted for the upload is downloaded (cdnDownload). *)
(* It names its key in base64, of the bytes or of their hex digits; an     *)
(* image has a key of its own in hex, which goes before the other.         *)
(***************************************************************************)
EXTENDS Crypto

CONSTANTS
    Contents,   \* the bytes of media
    Keys        \* AES keys

ASSUME ContentsAssumption ==
    Contents \subseteq Seq(Nat) /\ \A k \in Keys : k \in Seq(Byte) /\ Len(k) = KeySize

\* How the key of a medium is written, format B of docs/protocol.md by the bot
\* itself, format A by other programs, in an alphabet of their choice.
Forms == {"B", "A", "A url"}
KeyText(key, form) ==
    CASE form = "B"     -> EncodeAESKeyBase64(key)
      [] form = "A"     -> EncodeToString(key, StdEncoding)
      [] form = "A url" -> EncodeToString(key, URLEncoding)

VARIABLES
    medium,             \* its bytes, the key, whether that is the image's own, the
                        \* other key that the medium then names, and in which form
    downloaded, returned

mediaVars == <<medium, downloaded, returned>>

MediaInit ==
    /\ medium \in [data : Contents, key : Keys, ownKey : BOOLEAN, other : Keys, form : Forms]
    /\ downloaded = <<>> /\ returned = FALSE

Object ==
    [data   |-> EncryptAESECB(medium.data, medium.key),
     aesKey |-> KeyText(IF medium.ownKey THEN medium.other ELSE medium.key, medium.form)]

DownloadMedium ==
    /\ ~returned /\ returned' = TRUE
    /\ downloaded' =
          Download(Object, IF medium.ownKey THEN EncodeAESKeyHex(medium.key) ELSE <<>>)
    /\ UNCHANGED medium

MediaSpec == MediaInit /\ [][DownloadMedium]_mediaVars

----------------------------------------------------------------------------
\* What cdnDownload returns is what was encrypted for the upload, at every
\* alignment to the block size, unless padding makes it larger than
\* maxDownloadBytes: DecodeAESKey tells the forms of the key's text apart, which
\* nothing in the text announces, and reads the key that was written.
MediaRoundTrip ==
    returned /\ Len(medium.data) + Padding(Len(medium.data)) <= MaxDownloadBytes
        => downloaded = medium.data
=============================================================================
