--------------------------- MODULE MCDispatcher ---------------------------
(***************************************************************************)
(* Small instances of Dispatcher: two users, a bot message that carries a  *)
(* context token for a user, a message of no conversation, and a repeated  *)
(* identity.                                                               *)
(***************************************************************************)
EXTENDS Dispatcher

CONSTANTS u1, u2

W(type, from, to, id, client, token) ==
    [type |-> type, from |-> from, to |-> to, messageID |-> id,
     clientID |-> client, seq |-> NoID, contextToken |-> token]

FromU1  == W("user", u1, NoUser, 1, "c", TRUE)
Alias   == W("user", u1, NoUser, NoID, "c", TRUE)   \* weaker identity of FromU1
FromU2  == W("user", u2, NoUser, 1, NoID, FALSE)
ToU1    == W("bot", u2, u1, 2, NoID, TRUE)
Nobody  == W("other", u1, NoUser, 3, NoID, FALSE)

MCWires == {FromU1, Alias, FromU2, ToU1, Nobody}

MCBatches ==
    {[messages |-> <<FromU1, FromU2>>, cursor |-> "A"],
     [messages |-> <<Alias, Malformed>>, cursor |-> "B"],
     [messages |-> <<ToU1>>, cursor |-> "B"],
     [messages |-> <<Nobody>>, cursor |-> NoCursor],
     [messages |-> <<>>, cursor |-> "B"]}

\* For the liveness run: one conversation spread over two batches, another one
\* beside it, an empty batch and an undecodable message.
LiveBatches ==
    {[messages |-> <<FromU1, FromU2>>, cursor |-> "A"],
     [messages |-> <<Alias, Malformed>>, cursor |-> "B"],
     [messages |-> <<>>, cursor |-> "B"]}
============================================================================
