------------------------------- MODULE Logger ------------------------------
(***************************************************************************)
(* The global logger: Application::init() chooses where lines go, LOG_xxx  *)
(* statements of any thread print theirs or hand them to AsyncLogging,     *)
(* and Application::destroy() stops and deletes it.  g_appender and        *)
(* g_asyncLogger are read and written without a lock, so that every read   *)
(* and every write of them is a step.                                      *)
(***************************************************************************)
EXTENDS AsyncLogging

CONSTANT Threads  \* the threads that log, but for the one that runs main()

VARIABLES
    appender,  \* g_appender
    pointer,   \* g_asyncLogger is set
    deleted,   \* the AsyncLogging has been deleted
    main,      \* where main() is in init() and destroy()
    stage,     \* where each thread is in ~Logger
    safe,      \* history: its line was printed or handed to a live AsyncLogging
    disturbed, \* history: destroy() pulled the logger away under the statement
    aborted    \* the process has crashed

globals == <<appender, pointer, deleted>>
statement == <<stage, safe, disturbed>>
loggerVars == <<vars, globals, main, statement, aborted>>

Appenders == {"CONSOLE", "FILE", "BOTH"}

\* Where a statement is: before each read of g_appender and g_asyncLogger there is,
\* before append(), or about to return.
Stages == {"idle", "console", "consoleOrBoth", "file", "fileOrBoth", "pointer", "append",
           "fallback", "notConsole", "notBoth", "return"}

LoggerTypeOK ==
    /\ TypeOK
    /\ appender \in Appenders
    /\ {pointer, deleted, aborted} \subseteq BOOLEAN
    /\ main \in {"init", "running", "joining", "deleting", "clearing", "resetting", "done"}
    /\ stage \in [Threads -> Stages]
    /\ {safe, disturbed} \subseteq [Threads -> BOOLEAN]

LoggerInit ==
    /\ Init
    /\ appender = "CONSOLE"
    /\ pointer = FALSE /\ deleted = FALSE
    /\ main = "init"
    /\ stage = [t \in Threads |-> "idle"]
    /\ safe = [t \in Threads |-> FALSE]
    /\ disturbed = [t \in Threads |-> FALSE]
    /\ aborted = FALSE

----------------------------------------------------------------------------
\* main()

\* What readConf() leaves in log_appender_: nothing, if there is no file or no log
\* tag in it, or the text of a tag.
LogAppenders == {"", "other"} \cup Appenders

StringToAppender(str) == IF str \in {"FILE", "BOTH"} THEN str ELSE "CONSOLE"

\* init(), before there is any other thread.
InitGlobalLogger ==
    /\ main = "init"
    /\ main' = "running"
    /\ \E str \in LogAppenders : appender' = StringToAppender(str)
    /\ pointer' = (appender' \in {"FILE", "BOTH"})
    /\ IF pointer' THEN Start ELSE UNCHANGED vars
    /\ UNCHANGED <<deleted, statement, aborted>>

\* destroyGlobalLogger(), whatever the other threads do.
DestroyGlobalLogger ==
    /\ main = "running"
    /\ IF pointer THEN Stop /\ main' = "joining"
                  ELSE UNCHANGED vars /\ main' = "resetting"
    /\ UNCHANGED <<globals, statement, aborted>>

DestroyJoined ==
    /\ main = "joining"
    /\ Joined
    /\ main' = "deleting"
    /\ UNCHANGED <<globals, statement, aborted>>

Disturb == disturbed' = [t \in Threads |-> TRUE] /\ UNCHANGED <<vars, stage, safe, aborted>>

DestroyDeletes ==
    /\ main = "deleting"
    /\ deleted' = TRUE
    /\ main' = "clearing"
    /\ Disturb
    /\ UNCHANGED <<appender, pointer>>

DestroyClears ==
    /\ main = "clearing"
    /\ pointer' = FALSE
    /\ main' = "resetting"
    /\ Disturb
    /\ UNCHANGED <<appender, deleted>>

DestroyResets ==
    /\ main = "resetting"
    /\ appender' = "CONSOLE"
    /\ main' = "done"
    /\ Disturb
    /\ UNCHANGED <<pointer, deleted>>

----------------------------------------------------------------------------
\* ~Logger of thread t

GoTo(t, place) == stage' = [stage EXCEPT ![t] = place]

Underway == {t \in Threads : stage[t] # "idle"}

\* A statement whose level passes the filter; one that starts on a pointer to a
\* deleted logger is lost from the start.
Begin(t) ==
    /\ main # "init"
    /\ stage[t] = "idle"
    /\ count + Cardinality(Underway) < MaxLines
    /\ GoTo(t, "console")
    /\ safe' = [safe EXCEPT ![t] = FALSE]
    /\ disturbed' = [disturbed EXCEPT ![t] = deleted /\ pointer]
    /\ UNCHANGED <<vars, globals, main, aborted>>

Prints(t, place) == GoTo(t, place) /\ safe' = [safe EXCEPT ![t] = TRUE]
Passes(t, place) == GoTo(t, place) /\ UNCHANGED safe

\* Lines that go to the screen: the mode is compared with the one, then the other.
ConsoleBranch(t) ==
    /\ \/ stage[t] = "console" /\ appender = "CONSOLE" /\ Prints(t, "file")
       \/ stage[t] = "console" /\ appender # "CONSOLE" /\ Passes(t, "consoleOrBoth")
       \/ stage[t] = "consoleOrBoth" /\ appender = "BOTH" /\ Prints(t, "file")
       \/ stage[t] = "consoleOrBoth" /\ appender # "BOTH" /\ Passes(t, "file")
    /\ UNCHANGED <<vars, globals, main, disturbed, aborted>>

\* Lines that go to a file, and whether there is a logger to write it.
FileBranch(t) ==
    /\ \/ /\ stage[t] = "file"
          /\ Passes(t, IF appender = "FILE" THEN "pointer" ELSE "fileOrBoth")
       \/ /\ stage[t] = "fileOrBoth"
          /\ Passes(t, IF appender = "BOTH" THEN "pointer" ELSE "fallback")
       \/ /\ stage[t] = "pointer"
          /\ Passes(t, IF pointer THEN "append" ELSE "fallback")
    /\ UNCHANGED <<vars, globals, main, disturbed, aborted>>

HandOver(t) ==
    /\ stage[t] = "append"
    /\ ~deleted
    /\ Log
    /\ Prints(t, "fallback")
    /\ UNCHANGED <<globals, main, disturbed, aborted>>

\* append() on a deleted logger, or through the pointer cleared since, crashes or
\* writes the line to freed memory.
HandOverLate(t) ==
    /\ stage[t] = "append"
    /\ deleted
    /\ aborted' \in BOOLEAN
    /\ Passes(t, "fallback")
    /\ UNCHANGED <<vars, globals, main, disturbed>>

\* Mutant: no fallback.
FallbackBranchNever(t) ==
    /\ stage[t] = "fallback"
    /\ Passes(t, "return")
    /\ UNCHANGED <<vars, globals, main, disturbed, aborted>>

\* Lines that go to a file only, and no logger to write it.
FallbackBranch(t) ==
    /\ \/ /\ stage[t] = "fallback"
          /\ Passes(t, IF pointer THEN "return" ELSE "notConsole")
       \/ /\ stage[t] = "notConsole"
          /\ Passes(t, IF appender = "CONSOLE" THEN "return" ELSE "notBoth")
       \/ stage[t] = "notBoth" /\ appender = "BOTH" /\ Passes(t, "return")
       \/ stage[t] = "notBoth" /\ appender # "BOTH" /\ Prints(t, "return")
    /\ UNCHANGED <<vars, globals, main, disturbed, aborted>>

\* A FATAL statement ends the process, whether its line is in the file or not.
Return(t) ==
    /\ stage[t] = "return"
    /\ Passes(t, "idle")
    /\ aborted' \in BOOLEAN
    /\ UNCHANGED <<vars, globals, main, disturbed>>

----------------------------------------------------------------------------
MainReturns == DestroyJoined \/ DestroyDeletes \/ DestroyClears \/ DestroyResets

BackThread == Writer /\ UNCHANGED <<globals, main, statement, aborted>>

Statement(t) ==
    \/ Begin(t)
    \/ ConsoleBranch(t)
    \/ FileBranch(t)
    \/ HandOver(t)
    \/ HandOverLate(t)
    \/ FallbackBranch(t)
    \/ Return(t)

LoggerNext ==
    /\ ~aborted
    /\ \/ InitGlobalLogger
       \/ DestroyGlobalLogger
       \/ MainReturns
       \/ BackThread
       \/ \E t \in Threads : Statement(t)

LoggerSpec == LoggerInit /\ [][LoggerNext]_loggerVars

\* The background thread gets the mutex and the processor again and again, and
\* main() does not stop inside destroy().
LoggerFairSpec ==
    /\ LoggerSpec
    /\ WF_loggerVars(~aborted /\ BackThread)
    /\ WF_loggerVars(~aborted /\ MainReturns)

----------------------------------------------------------------------------
\* Properties

\* A LOG_xxx statement loses no line: it is printed, or handed to an AsyncLogging
\* that still lives, unless destroyGlobalLogger deletes it, clears the pointer or
\* resets the mode meanwhile, or has left the pointer dangling.
LineKept == \A t \in Threads : stage[t] = "return" => safe[t] \/ disturbed[t]

\* A line handed over reaches the file, or the backlog costs it, unless the
\* logger is stopped, could not open the file, or the process crashes.
LineWritten ==
    \A l \in Lines :
        count >= l ~> l \in ToSet(file) \cup dropped \/ ~running \/ pc = "failed" \/ aborted

\* destroyGlobalLogger returns, also when the log file could not be opened, and
\* however much the other threads log.
DestroyReturns == main = "joining" ~> main = "done" \/ aborted
============================================================================
