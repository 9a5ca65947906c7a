------------------------------ MODULE MCCodec ------------------------------
(* Field values for the codec: u32 values at both ends of the range and   *)
(* one with four distinct bytes (the value of the crate's unit test), two  *)
(* 64-byte signatures, and the raw frames a faulty peer may send.          *)
EXTENDS Codec

MCIds == {0, 67305985}
MCRounds == {1, 2147483647}
MCSig(v) == [k \in 1..64 |-> v]
MCSigs == {MCSig(7), MCSig(255)}
MCKeys == {[k \in 1..32 |-> 9]}
MCPayloads == {<<>>, <<8, 9>>}

(* A FIN announcing no signatures followed by one stray byte *)
MCFinTrailer == <<FIN_MSG, 0, 0, 0, 0, 1, 0, 0, 0, 0, 0, 0, 0, 5>>
(* A FIN announcing one signature and carrying none *)
MCFinShort == <<FIN_MSG, 0, 0, 0, 0, 1, 0, 0, 0, 1, 0, 0, 0>>
(* A frame with an unknown tag *)
MCUnknownTag == <<9, 0, 0, 0, 0>>

MCRawFrames == {<<>>, MCUnknownTag, MCFinShort, MCFinTrailer}
MCRawNone == {}
====
