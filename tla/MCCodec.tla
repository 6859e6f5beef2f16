------------------------------ MODULE MCCodec -------------------------------
EXTENDS Codec

MCTexts == {<<>>, <<3>>, <<0, 1>>, <<1, 2, 0>>, <<0, 3, 1>>, <<0, 0, 0, 0>>}
MCPrefix == <<2>>
MCSignatures == {<<>>} \cup {<<k>> : k \in Kinds} \cup (Kinds \X Kinds)
MCPayloads == UNION {[1 .. m -> Byte] : m \in 0 .. MaxFrame}
              \cup {[m \in 1 .. MaxFrame + 1 |-> 0]}
=============================================================================
