----------------------------- MODULE MCDialogue -----------------------------
(* Dialogue for TLC: the last request is larger than the server accepts, and than a     *)
(* chunk; the third answer is larger than the client accepts.                           *)
EXTENDS Dialogue

Requests == <<1, 0, 0, 2>>
Replies == <<1, 0, 2, 0>>
============================================================================
