------------------------------ MODULE MCCodec ------------------------------
(* Codec for TLC: bytes of two bits, so that lengths wrap at 16.            *)
EXTENDS Codec

SomeStrings == {<<>>, <<3>>, <<1, 0>>, [i \in 1..17 |-> i % 4]}
SomeIds == {1, 255}
============================================================================
