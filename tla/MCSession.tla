------------------------------ MODULE MCSession ------------------------------
(***************************************************************************)
(* Session for TLC: a request that fits the server's buffer and one that   *)
(* does not, and replies that fit, and do not fit, the client's.           *)
(***************************************************************************)
EXTENDS Session

Requests == <<3, 4>>
Replies == <<5, 2>>
=============================================================================
