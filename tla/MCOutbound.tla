---------------------------- MODULE MCOutbound ----------------------------
(***************************************************************************)
(* A text of two chunks, a reply with a captioned image, a remote file,    *)
(* and one message of SendMessage, sent again after an error.              *)
(***************************************************************************)
EXTENDS Outbound

Content(reply, remote, single, parts) ==
    [reply |-> reply, remote |-> remote, single |-> single, parts |-> parts]

MCContents == {Content(FALSE, FALSE, FALSE, <<"text", "text">>),
               Content(TRUE, FALSE, FALSE, <<"text", "image">>),
               Content(FALSE, TRUE, FALSE, <<"file">>),
               Content(FALSE, FALSE, TRUE, <<"text">>),
               Content(TRUE, FALSE, TRUE, <<"text">>)}
===========================================================================
