---------------------------- MODULE AsyncLogger ----------------------------
(***************************************************************************)
(* internal/logging: JSONLogger, a bounded channel of formatted lines that *)
(* one goroutine (writeLoop) writes to the output.                         *)
(*                                                                         *)
(* Any goroutine may log and any may close.  log never waits: it offers    *)
(* its line in a select with the done channel and a default case.  Close   *)
(* closes the channel, waits for writeLoop and then closes the output.     *)
(* writeLoop ignores what Write returns: a line whose write failed or fell *)
(* short is gone, or cut, and the loop takes the next one.                 *)
(*                                                                         *)
(* Filtering by level and the fields of a line are left out: the order and *)
(* the survival of lines do not depend on them.  A line is named by its    *)
(* caller and the number of its call.                                      *)
(***************************************************************************)
EXTENDS Naturals, Sequences

CONSTANTS
    Callers,     \* goroutines that log
    Closers,     \* goroutines that call Close
    Capacity,    \* defaultAsyncBuffer
    MaxCalls,    \* bound on the calls of one caller
    MaxLines     \* the lines Flushes follows

ASSUME CapacityAssumption == Capacity \in Nat \ {0} /\ MaxCalls \in Nat

Lines == Callers \X (1..MaxCalls)

VARIABLES
    events,      \* the channel's buffer
    closed,      \* close(events) was called
    done,        \* close(done) was called
    once,        \* the Once of Close: "fresh", "running" or "finished"
    output,      \* the writes to the output, in order: the line, and whether it went in whole
    open,        \* the output is open
    writer,      \* writeLoop: "receiving", "writing" or "ended"
    writing,     \* the line writeLoop received last
    caller,      \* each caller: "idle", "offering" or "panicked"
    calls,       \* calls each caller has made
    closer,      \* each closer's position in Close
    accepted     \* history: lines the channel took, in order

channel == <<events, closed, done>>
callerVars == <<caller, calls, accepted>>
writerVars == <<output, writer, writing>>
closerVars == <<once, open, closer>>
vars == <<channel, callerVars, writerVars, closerVars>>

\* Type invariant: the channel never holds more than its capacity.
TypeOK ==
    /\ events \in Seq(Lines) /\ Len(events) <= Capacity
    /\ closed \in BOOLEAN /\ done \in BOOLEAN /\ open \in BOOLEAN
    /\ once \in {"fresh", "running", "finished"}
    /\ output \in Seq([line: Lines, whole: BOOLEAN])
    /\ writer \in {"receiving", "writing", "ended"}
    /\ writing \in Lines \cup {<<>>}
    /\ caller \in [Callers -> {"idle", "offering", "panicked"}]
    /\ calls \in [Callers -> 0..MaxCalls]
    /\ closer \in [Closers -> {"idle", "called", "closing", "waiting", "finishing", "closeFunc",
                               "returned"}]
    /\ accepted \in Seq(Lines)

Init ==
    /\ events = <<>> /\ closed = FALSE /\ done = FALSE
    /\ once = "fresh" /\ open = TRUE /\ closer = [k \in Closers |-> "idle"]
    /\ output = <<>> /\ writer = "receiving" /\ writing = <<>>
    /\ caller = [c \in Callers |-> "idle"] /\ calls = [c \in Callers |-> 0]
    /\ accepted = <<>>

-----------------------------------------------------------------------------
(* log: the line is formatted, then offered in one select *)

Format(c) ==
    /\ caller[c] = "idle" /\ calls[c] < MaxCalls
    /\ caller' = [caller EXCEPT ![c] = "offering"]
    /\ calls' = [calls EXCEPT ![c] = @ + 1]
    /\ UNCHANGED <<channel, accepted, writerVars, closerVars>>

\* Room for one line more.
Room == Len(events) < Capacity

Offer(c) ==
    /\ caller[c] = "offering" /\ ~closed /\ Room
    /\ events' = Append(events, <<c, calls[c]>>)
    /\ accepted' = Append(accepted, <<c, calls[c]>>)
    /\ caller' = [caller EXCEPT ![c] = "idle"]
    /\ UNCHANGED <<closed, done, calls, writerVars, closerVars>>

\* The default case when the buffer is full, or the done case: the line is lost.
Drop(c) ==
    /\ caller[c] = "offering"
    /\ done \/ (~closed /\ ~Room)
    /\ caller' = [caller EXCEPT ![c] = "idle"]
    /\ UNCHANGED <<channel, calls, accepted, writerVars, closerVars>>

\* A send on a closed channel is ready, may be picked even when done is closed
\* too, and panics.
Panic(c) ==
    /\ caller[c] = "offering" /\ closed
    /\ caller' = [caller EXCEPT ![c] = "panicked"]
    /\ UNCHANGED <<channel, calls, accepted, writerVars, closerVars>>

-----------------------------------------------------------------------------
(* writeLoop *)

Receive ==
    /\ writer = "receiving" /\ events # <<>>
    /\ writing' = Head(events)
    /\ events' = Tail(events)
    /\ writer' = "writing"
    /\ UNCHANGED <<closed, done, output, callerVars, closerVars>>

\* One Write of the line in hand: all of it goes into the output, or less.
Put(whole) ==
    /\ writer = "writing"
    /\ output' = Append(output, [line |-> writing, whole |-> whole])
    /\ writing' = <<>>
    /\ writer' = "receiving"
    /\ UNCHANGED <<channel, callerVars, closerVars>>

Write == Put(TRUE)

\* The error and the number of bytes written are dropped: the loop goes on as after
\* a write that succeeded.  (Mutants: the line is tried again; the loop ends.)
WriteRetried ==
    /\ writer = "writing" /\ Len(output) < MaxLines
    /\ output' = Append(output, [line |-> writing, whole |-> FALSE])
    /\ UNCHANGED <<channel, callerVars, writer, writing, closerVars>>
WriteGivesUp ==
    /\ writer = "writing"
    /\ output' = Append(output, [line |-> writing, whole |-> FALSE])
    /\ writing' = <<>>
    /\ writer' = "ended"
    /\ UNCHANGED <<channel, callerVars, closerVars>>
WriteFails == Put(FALSE)

\* The range over a closed channel ends when the buffer is empty.  (Mutant: it
\* ends as soon as the channel is closed.)
DrainedIfClosed == closed
Drained == closed /\ events = <<>>

WriterEnds ==
    /\ writer = "receiving" /\ Drained
    /\ writer' = "ended"
    /\ UNCHANGED <<channel, output, writing, callerVars, closerVars>>

-----------------------------------------------------------------------------
(* Close: the first caller runs the Once, the others wait for it *)

CloseCall(k) ==
    /\ closer[k] = "idle"
    /\ closer' = [closer EXCEPT ![k] = "called"]
    /\ UNCHANGED <<channel, once, open, callerVars, writerVars>>

CloseStart(k) ==
    /\ closer[k] = "called"
    /\ once = "fresh" \/ once = "finished"
    /\ closer' = [closer EXCEPT ![k] = IF once = "fresh" THEN "closing" ELSE "closeFunc"]
    /\ once' = IF once = "fresh" THEN "running" ELSE once
    /\ UNCHANGED <<channel, open, callerVars, writerVars>>

\* (Mutant: writeLoop is waited for before the channel is closed.)
CloseEventsLate(k) ==
    /\ closer[k] = "closing" /\ writer = "ended"
    /\ closed' = TRUE
    /\ closer' = [closer EXCEPT ![k] = "waiting"]
    /\ UNCHANGED <<events, done, once, open, callerVars, writerVars>>
CloseEvents(k) ==
    /\ closer[k] = "closing"
    /\ closed' = TRUE
    /\ closer' = [closer EXCEPT ![k] = "waiting"]
    /\ UNCHANGED <<events, done, once, open, callerVars, writerVars>>

\* wg.Wait.  (Mutant: Close does not wait for writeLoop.)
WaitSkipped(k) ==
    /\ closer[k] = "waiting"
    /\ closer' = [closer EXCEPT ![k] = "finishing"]
    /\ UNCHANGED <<channel, once, open, callerVars, writerVars>>
Wait(k) ==
    /\ closer[k] = "waiting" /\ writer = "ended"
    /\ closer' = [closer EXCEPT ![k] = "finishing"]
    /\ UNCHANGED <<channel, once, open, callerVars, writerVars>>

CloseDone(k) ==
    /\ closer[k] = "finishing"
    /\ done' = TRUE /\ once' = "finished"
    /\ closer' = [closer EXCEPT ![k] = "closeFunc"]
    /\ UNCHANGED <<events, closed, open, callerVars, writerVars>>

\* closeFunc closes the file; every further call of it only returns an error.
CloseOutput(k) ==
    /\ closer[k] = "closeFunc"
    /\ open' = FALSE
    /\ closer' = [closer EXCEPT ![k] = "returned"]
    /\ UNCHANGED <<channel, once, callerVars, writerVars>>

-----------------------------------------------------------------------------
Log(c) == Format(c) \/ Offer(c) \/ Drop(c) \/ Panic(c)
WriteLoop == Receive \/ Write \/ WriteFails \/ WriterEnds
Close(k) ==
    \/ CloseCall(k) \/ CloseStart(k) \/ CloseEvents(k)
    \/ Wait(k) \/ CloseDone(k) \/ CloseOutput(k)

Next ==
    \/ \E c \in Callers : Log(c)
    \/ WriteLoop
    \/ \E k \in Closers : Close(k)

\* writeLoop runs, and a Close that was begun goes on; nobody has to log or close.
Fairness == WF_vars(WriteLoop) /\ \A k \in Closers : WF_vars(closer[k] # "idle" /\ Close(k))

Safety == Init /\ [][Next]_vars
Spec == Safety /\ Fairness

-----------------------------------------------------------------------------
(* Properties *)

\* The line writeLoop holds, if any.
InHand == IF writer = "writing" THEN <<writing>> ELSE <<>>

\* The lines writeLoop has written, or tried to.
Handed == [i \in DOMAIN output |-> output[i].line]

\* Between log and the output no accepted line is lost, doubled or overtaken: those
\* writeLoop has given to Write, each once, the one it holds and those in the channel are
\* the accepted lines in order.  So the only accepted lines that are missing from the output
\* are those whose own write failed.
InOrder == Handed \o InHand \o events = accepted

\* The lines of one caller come out in the order of its calls, whatever was
\* dropped, or failed, between them.
CallerOrder ==
    \A i, j \in DOMAIN output :
        /\ i < j
        /\ output[i].line[1] = output[j].line[1]
        => output[i].line[2] < output[j].line[2]

\* When a Close has returned, every line log accepted was given to the output's Write
\* ("Shutdown closes the HTTP service gracefully and flushes the log"), whatever writes
\* failed before it.
CloseFlushes == \A k \in Closers : closer[k] = "returned" => Handed = accepted

\* writeLoop never writes to a closed file, with any number of Close calls.
WritesWhileOpen == [][output' # output => open]_vars

\* Every accepted line is given to Write at last, failed writes or not: when n lines were
\* accepted, n lines get there.
Flushes ==
    \A n \in 1..MaxLines : Len(accepted) >= n ~> Len(output) >= n

\* Every Close returns, the one that closes the channel and those that wait for it in
\* the Once, however busy the callers are.
CloseReturns == \A k \in Closers : closer[k] = "called" ~> closer[k] = "returned"
=============================================================================
