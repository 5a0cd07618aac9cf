---------------------------- MODULE MCTcpServer ----------------------------
\* A small instance of TcpServer: one I/O thread may be configured, or none.
EXTENDS TcpServer, TLC

CONSTANT io
MCIoLoops == <<io>>
============================================================================
