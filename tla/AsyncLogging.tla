---------------------------- MODULE AsyncLogging ---------------------------
(***************************************************************************)
(* MyRPC::AsyncLogging: log lines are appended to buffers in memory, under *)
(* a mutex, and a background thread swaps the full buffers out and writes  *)
(* them to the log file.  append() holds the mutex throughout, so it is    *)
(* one step, whichever thread calls it.                                    *)
(***************************************************************************)
EXTENDS Integers, Sequences, FiniteSets, SequencesExt

CONSTANTS
    Capacity,    \* lines that fit into a Buffer
    MaxBacklog,  \* buffers written in one round, 25 in the code
    Kept,        \* buffers kept of a larger round, 2 in the code
    MaxLines     \* bound: lines appended

ASSUME SizesAssumption ==
    /\ Capacity \in Nat \ {0}
    /\ MaxBacklog \in Nat /\ Kept \in 2..MaxBacklog
    /\ MaxLines \in Nat

Lines == 1..MaxLines   \* a line is its number in the order of append()

VARIABLES
    running,      \* running_
    pc,           \* where threadFunc is: see Pcs
    caller,       \* where the thread that calls start() and stop() is
    current,      \* the lines in currentBuffer_
    next,         \* nextBuffer_ holds a buffer, always an empty one
    buffers,      \* buffers_, full buffers as sequences of lines
    new1, new2,   \* newBuffer1 and newBuffer2 hold a buffer, always an empty one
    toWrite,      \* buffersToWrite
    written,      \* the buffers in it that have been written
    file,         \* the lines in the log file
    count,        \* history: lines appended
    dropped,      \* history: lines thrown away because of the backlog
    promised      \* history: lines appended when stop() was called

control == <<running, caller, promised>>
front == <<current, next, buffers, count>>          \* what the mutex protects
back == <<pc, new1, new2, toWrite, written, file, dropped>>  \* threadFunc's own
vars == <<control, front, back>>

\* Not started; opening the log file; testing running_; about to swap under the
\* mutex; cutting the round, writing it and recycling its buffers; returned, with
\* the file written or without.
Pcs == {"none", "open", "while", "swap", "cut", "write", "recycle", "finished", "failed"}

\* Types; buffers_ holds only full buffers outside of a swap.
TypeOK ==
    /\ {running, next, new1, new2} \subseteq BOOLEAN
    /\ pc \in Pcs
    /\ caller \in {"before", "started", "joining", "stopped"}
    /\ current \in Seq(Lines) /\ Len(current) <= Capacity
    /\ buffers \in Seq(Seq(Lines))
    /\ \A i \in DOMAIN buffers : Len(buffers[i]) = Capacity
    /\ toWrite \in Seq(Seq(Lines))
    /\ written \in 0..Len(toWrite)
    /\ file \in Seq(Lines)
    /\ count \in 0..MaxLines
    /\ dropped \subseteq Lines
    /\ promised \in 0..MaxLines

Init ==
    /\ running = FALSE
    /\ pc = "none"
    /\ caller = "before"
    /\ current = <<>>
    /\ next = TRUE
    /\ buffers = <<>>
    /\ new1 = FALSE
    /\ new2 = FALSE
    /\ toWrite = <<>>
    /\ written = 0
    /\ file = <<>>
    /\ count = 0
    /\ dropped = {}
    /\ promised = 0

----------------------------------------------------------------------------
\* The threads that log, and the one that starts and stops the logger

Start ==
    /\ caller = "before"
    /\ caller' = "started"
    /\ running' = TRUE
    /\ pc' = "open"
    /\ UNCHANGED <<promised, front, new1, new2, toWrite, written, file, dropped>>

\* Mutant: a full currentBuffer_ is reused instead of queued.
AppendReuses(line) ==
    IF Len(current) < Capacity
    THEN /\ current' = Append(current, line)
         /\ UNCHANGED <<buffers, next>>
    ELSE /\ current' = <<line>>
         /\ next' = FALSE
         /\ UNCHANGED buffers

\* append(): a full currentBuffer_ is queued and replaced by nextBuffer_ or by a
\* new one.
AppendLine(line) ==
    IF Len(current) < Capacity
    THEN /\ current' = Append(current, line)
         /\ UNCHANGED <<buffers, next>>
    ELSE /\ buffers' = Append(buffers, current)
         /\ current' = <<line>>
         /\ next' = FALSE

\* Nothing keeps a thread from logging after stop().
Log ==
    /\ caller # "before"
    /\ count < MaxLines
    /\ count' = count + 1
    /\ AppendLine(count')
    /\ UNCHANGED <<control, back>>

\* stop() clears running_, without the mutex, and joins the thread.
Stop ==
    /\ caller = "started"
    /\ running' = FALSE
    /\ promised' = count
    /\ caller' = "joining"
    /\ UNCHANGED <<front, back>>

Joined ==
    /\ caller = "joining"
    /\ pc \in {"finished", "failed"}
    /\ caller' = "stopped"
    /\ UNCHANGED <<running, promised, front, back>>

----------------------------------------------------------------------------
\* The background thread

Open ==
    /\ pc = "open"
    /\ \/ pc' = "failed" /\ UNCHANGED <<new1, new2>>
       \/ pc' = "while" /\ new1' = TRUE /\ new2' = TRUE
    /\ UNCHANGED <<control, front, toWrite, written, file, dropped>>

\* Mutant: the test of running_ is forgotten.
AfterWhileForEver == "swap"

AfterWhile == IF running THEN "swap" ELSE "finished"

\* while (running_)
While ==
    /\ pc = "while"
    /\ pc' = AfterWhile
    /\ UNCHANGED <<control, front, new1, new2, toWrite, written, file, dropped>>

\* Mutant: the wait ends for a full buffer only, without a timeout.
WaitEndsWhenFull == buffers # <<>>

\* wait_for returns, if only because three seconds have passed.
WaitEnds == TRUE

\* currentBuffer_ joins the full buffers, all are swapped out, and empty ones
\* take the places of currentBuffer_ and of a missing nextBuffer_.
Swap ==
    /\ pc = "swap"
    /\ WaitEnds
    /\ toWrite' = Append(buffers, current)
    /\ buffers' = toWrite
    /\ current' = <<>>
    /\ new1' = FALSE
    /\ next' = (next \/ new2)
    /\ new2' = (new2 /\ next)
    /\ pc' = "cut"
    /\ UNCHANGED <<control, count, written, file, dropped>>

LinesIn(bufs) == UNION {ToSet(bufs[i]) : i \in DOMAIN bufs}

\* Mutant: one buffer less triggers the cut.
RoundEager ==
    IF Len(toWrite) >= MaxBacklog THEN SubSeq(toWrite, 1, Kept) ELSE toWrite

\* Mutant: only one buffer is kept.
RoundOfOne ==
    IF Len(toWrite) > MaxBacklog THEN SubSeq(toWrite, 1, 1) ELSE toWrite

\* Of a round that is too large only the oldest buffers are kept.
Round ==
    IF Len(toWrite) > MaxBacklog THEN SubSeq(toWrite, 1, Kept) ELSE toWrite

Cut ==
    /\ pc = "cut"
    /\ toWrite' = Round
    /\ dropped' = dropped \cup (LinesIn(toWrite) \ LinesIn(Round))
    /\ pc' = "write"
    /\ UNCHANGED <<control, front, new1, new2, written, file>>

\* fwrite() of one buffer after the other.
Write ==
    /\ pc = "write"
    /\ written < Len(toWrite)
    /\ file' = file \o toWrite[written + 1]
    /\ written' = written + 1
    /\ UNCHANGED <<control, front, pc, new1, new2, toWrite, dropped>>

\* fflush(), behind the last of them.
Flush ==
    /\ pc = "write"
    /\ written = Len(toWrite)
    /\ pc' = "recycle"
    /\ UNCHANGED <<control, front, new1, new2, toWrite, written, file, dropped>>

\* Buffers given away in the swap are taken back from the end of the round.
Recycle ==
    /\ pc = "recycle"
    /\ new1' = TRUE
    /\ new2' = TRUE
    /\ toWrite' = <<>>
    /\ written' = 0
    /\ pc' = "while"
    /\ UNCHANGED <<control, front, file, dropped>>

Writer == Open \/ While \/ Swap \/ Cut \/ Write \/ Flush \/ Recycle

Next == Start \/ Log \/ Stop \/ Joined \/ Writer

Spec == Init /\ [][Next]_vars

----------------------------------------------------------------------------
\* Properties

\* What is in the file, the rest of the round, the full buffers and the current one.
Blocks == <<file>> \o SubSeq(toWrite, written + 1, Len(toWrite)) \o buffers \o <<current>>

InOrder(blocks) ==
    \A i, j \in DOMAIN blocks : \A k \in DOMAIN blocks[i], l \in DOMAIN blocks[j] :
        i < j \/ (i = j /\ k < l) => blocks[i][k] < blocks[j][l]

\* Every line appended is, once and in order, in the file, in the round being
\* written, in a full buffer or in the current one, unless the backlog cost it.
LinesAccountedFor ==
    /\ InOrder(Blocks)
    /\ LinesIn(Blocks) = (1..count) \ dropped

\* threadFunc never swaps in a missing buffer as currentBuffer_ and never takes
\* a buffer back from an empty round.
SparesNeverRunOut ==
    /\ pc \in {"while", "swap"} => new1
    /\ pc = "recycle" => Len(toWrite) >= (IF new1 THEN 0 ELSE 1) + (IF new2 THEN 0 ELSE 1)

\* Lines are thrown away only when more than MaxBacklog full buffers of them are
\* waiting for the disk.
DropsOnlyUnderLoad ==
    [][dropped' # dropped =>
          count - Len(file) - Cardinality(dropped) > MaxBacklog * Capacity]_vars

\* What the documentation of destroyGlobalLogger says: stopping flushes every
\* line that was logged before.
StopFlushes ==
    caller = "stopped" /\ pc = "finished" =>
        1..promised \subseteq ToSet(file) \cup dropped
============================================================================
