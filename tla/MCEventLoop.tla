---------------------------- MODULE MCEventLoop ----------------------------
\* Small instances of EventLoopThread, with the EventLoop it runs.
EXTENDS EventLoopThread
============================================================================
