---------------------------- MODULE MCBufferIO -----------------------------
\* A small instance of BufferIO.
EXTENDS BufferIO

MCPieces == {<<1>>, <<2, 1>>}
MCTargets == {<<2>>, <<1, 1>>}
============================================================================
