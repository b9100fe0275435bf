------------------------------ MODULE MCServer ------------------------------
(* Server for TLC: up to three connections on one or two numbers.          *)
EXTENDS Server, TLC

CONSTANTS s1, s2, s3, f1, f2, alice, bob

OneNumber == [s \in Sessions |-> f1]
TwoNumbers == [s \in Sessions |-> IF s = s1 THEN f1 ELSE f2]

AliceSecond == [s \in Sessions |-> IF s = s2 THEN {alice} ELSE {bob}]
EachOwn == [s \in Sessions |-> IF s = s1 THEN {alice} ELSE {bob}]
Nobody == [s \in Sessions |-> {}]
============================================================================
