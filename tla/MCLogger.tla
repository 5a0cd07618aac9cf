------------------------------ MODULE MCLogger -----------------------------
\* Small instances of Logger.
EXTENDS Logger
============================================================================
