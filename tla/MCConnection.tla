------------------------------ MODULE MCConnection ------------------------------
(* The values TLC gives the constants of Connection.                          *)
EXTENDS Connection

CONSTANTS get, post, bad

MCRequests == {get, post, bad}
MCValidRequests == {get, post}

\* The handlers' GET has no body; the POST's takes more than one piece.
MCBodyPieces == [r \in Requests |-> IF r = post THEN 2 ELSE 0]
MCNoBodies == [r \in Requests |-> 0]
================================================================================
