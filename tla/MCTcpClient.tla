---------------------------- MODULE MCTcpClient ----------------------------
\* Small instances of TcpClient.
EXTENDS TcpClient
============================================================================
