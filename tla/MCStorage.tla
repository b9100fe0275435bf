----------------------------- MODULE MCStorage -----------------------------
(* Storage for TLC: two users open their chat at the same time, a third one *)
(* opens another, and messages and accounts are written meanwhile.          *)
EXTENDS Storage

CONSTANTS c1, c2, c3, m1, l1, g1, d1, ann, ben, cid

SomeKinds == [r \in Requests |->
  CASE r = m1 -> "message" [] r = l1 -> "list" [] r = g1 -> "register" [] r = d1 -> "delete"
    [] OTHER -> "create"]
SomePairs == [r \in Requests |->
  CASE r = c2 -> <<ben, ann>> [] r = c3 -> <<ann, cid>> [] OTHER -> <<ann, ben>>]
OneName == [r \in Requests |-> "name"]
============================================================================
