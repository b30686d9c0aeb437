------------------------------ MODULE MCTyping ------------------------------
EXTENDS Typing

MCRetryDelays == <<1, 2>>
=============================================================================
