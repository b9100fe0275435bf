------------------------------ MODULE MCClient ------------------------------
(* Client for TLC: two usernames and two chats. *)
EXTENDS Client
CONSTANTS ann, ben
============================================================================
