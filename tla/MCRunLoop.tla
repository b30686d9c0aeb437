---------------------------- MODULE MCRunLoop ----------------------------
(***************************************************************************)
(* Two messages of one conversation whose weaker identities collide, and   *)
(* one without identity or conversation.                                   *)
(***************************************************************************)
EXTENDS RunLoop

CONSTANTS u1

W(type, id, client) ==
    [type |-> type, from |-> u1, to |-> NoUser, messageID |-> id,
     clientID |-> client, seq |-> NoID, contextToken |-> FALSE]

First  == W("user", 1, "c")
Second == W("user", 2, "c")
Third  == W("other", NoID, NoID)

MCWires == {First, Second, Third}
MCServerLog == <<First, Second, Third>>
ShortLog == <<First, Second>>

\* Whatever the server may answer, with the cursor of any position.
Parts(log) ==
    {[messages |-> SubSeq(log, a + 1, b), cursor |-> c, first |-> a + 1] :
        a, b, c \in 0..Len(log)}
MCBatches == Parts(MCServerLog)
ShortBatches == Parts(ShortLog)
==========================================================================
