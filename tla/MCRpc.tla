------------------------------- MODULE MCRpc -------------------------------
\* Small instances of Rpc.
EXTENDS Rpc, TLC

CONSTANTS a, b, c1, c2, c3, c4

\* Each client makes two calls; two succeed at the server, one of them with a
\* response the client cannot parse.
MCClientOf == c1 :> a @@ c2 :> a @@ c3 :> b @@ c4 :> b
MCKindOf == c1 :> "ok" @@ c2 :> "noMethod" @@ c3 :> "badResponse" @@ c4 :> "noService"
============================================================================
