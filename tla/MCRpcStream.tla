---------------------------- MODULE MCRpcStream ----------------------------
\* Small instances of RpcStream.
EXTENDS RpcStream

\* Bytes of up to three frames of at most four bytes.
MCZero == <<0, 0>>
MCBytes == {MCZero} \cup ((1..3) \X (1..4))
============================================================================
