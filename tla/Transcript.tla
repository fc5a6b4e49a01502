----------------------------- MODULE Transcript -----------------------------
(***************************************************************************)
(* internal/transcript: from the response of a request to the record of it *)
(* that can be read back from the transcript file.                         *)
(*                                                                         *)
(* One request is observed from its first byte: Capture holds its response *)
(* while it lasts, and ExtractUsage looks for the tokens in what is left   *)
(* of it.  Its record goes to the file among those of other requests, each *)
(* a line written by one call of File.Write, which may take several writes *)
(* of the system.  A line has three parts: the start and the rest of the   *)
(* JSON text, and the newline.  A write may fail and the process may end,  *)
(* and a later process opens the file for appending.                       *)
(***************************************************************************)
EXTENDS Capture

CONSTANTS
    Requests,    \* the requests that are recorded
    Observed,    \* the one whose response is looked at
    Responses,   \* its possible responses: their length and the lines with usage
    None,        \* no request, or no usage
    MaxFaults    \* bound on failed writes and process ends

ASSUME ObservedAssumption == Observed \in Requests /\ None \notin Requests

\* The lines of a response that carry usage lie one after the other; a response
\* that is not streamed is one such line.
ASSUME ResponsesAssumption ==
    \A r \in Responses :
        /\ r.length \in Nat
        /\ \A l \in r.usages : l.from \in Nat /\ l.to \in Nat /\ 1 <= l.from /\ l.from <= l.to
        /\ \A l, m \in r.usages : l = m \/ l.to < m.from \/ m.to < l.from

VARIABLES
    response,    \* what upstream sends to the observed request
    usage,       \* Record.Usage of the observed request
    phase,       \* of each request: new, ready, writing, and how it ended
    lock,        \* the holder of JSONLRecorder.mu
    written,     \* the parts of a request's line that are in the file
    file,        \* the contents of the file, part by part
    open,        \* whether JSONLRecorder.file is set
    up,          \* whether the process runs
    faults       \* failed writes and process ends so far

recorder == <<phase, lock, written, file, open, up, faults>>
transcript == <<vars, response, usage, recorder>>

Newline == 3
Parts(w, from, to) == [i \in 1..(to + 1 - from) |-> <<w, from - 1 + i>>]

-----------------------------------------------------------------------------
(* ExtractUsage *)

\* usageFromMap: a missing total is the sum, and no tokens at all are no usage.
Normalised(u) ==
    LET sum == IF u.total = 0 THEN u.prompt + u.completion ELSE u.total
    IN  IF sum = 0 THEN None ELSE [u EXCEPT !.total = sum]

\* A line that lost bytes at either end does not parse.
Whole(l, text) == \A n \in l.from..l.to : \E i \in DOMAIN text : text[i] = n
WithUsage(lines) == {l \in lines : Normalised(l.usage) # None}

\* (Mutant: the first line with usage.)
ExtractFirst(text) ==
    LET found == WithUsage({l \in response.usages : Whole(l, text)})
    IN  IF found = {} THEN None
        ELSE Normalised((CHOOSE l \in found : \A m \in found : l.from <= m.from).usage)
ExtractUsage(text) ==
    LET found == WithUsage({l \in response.usages : Whole(l, text)})
    IN  IF found = {} THEN None
        ELSE Normalised((CHOOSE l \in found : \A m \in found : m.from <= l.from).usage)

-----------------------------------------------------------------------------
(* Actions *)

TInit ==
    /\ Init
    /\ response \in Responses
    /\ usage = None
    /\ phase = [w \in Requests |-> "new"] /\ written = [w \in Requests |-> 0]
    /\ lock = None /\ file = <<>> /\ open = TRUE /\ up = TRUE /\ faults = 0

\* Bytes of the response arrive and are passed on.
Receive(n) ==
    /\ up /\ phase[Observed] = "new" /\ total + n <= response.length
    /\ Write(n)
    /\ UNCHANGED <<response, usage, recorder>>

\* A request ends and has a record to hand over; the response may have broken
\* off anywhere.
Finish(w) ==
    /\ up /\ phase[w] = "new"
    /\ phase' = [phase EXCEPT ![w] = "ready"]
    /\ usage' = IF w = Observed THEN ExtractUsage(ScanText) ELSE usage
    /\ UNCHANGED <<vars, response, lock, written, file, open, up, faults>>

\* JSONLRecorder.Record takes the mutex.  (Mutant: it does not.)
RecordUnlocked(w) ==
    /\ up /\ phase[w] = "ready"
    /\ lock' = IF open THEN w ELSE lock
    /\ phase' = [phase EXCEPT ![w] = IF open THEN "writing" ELSE "dropped"]
    /\ UNCHANGED <<vars, response, usage, written, file, open, up, faults>>
Record(w) ==
    /\ up /\ phase[w] = "ready" /\ lock = None
    /\ lock' = IF open THEN w ELSE lock
    /\ phase' = [phase EXCEPT ![w] = IF open THEN "writing" ELSE "dropped"]
    /\ UNCHANGED <<vars, response, usage, written, file, open, up, faults>>

\* File.Write goes on until the line is written.
WriteParts(w, to) ==
    /\ up /\ phase[w] = "writing" /\ written[w] < to
    /\ file' = file \o Parts(w, written[w] + 1, to)
    /\ written' = [written EXCEPT ![w] = to]
    /\ IF to = Newline
       THEN phase' = [phase EXCEPT ![w] = "done"] /\ lock' = None
       ELSE UNCHANGED <<phase, lock>>
    /\ UNCHANGED <<vars, response, usage, open, up, faults>>

\* A write fails; Record ignores the error.
FailWrite(w) ==
    /\ up /\ phase[w] = "writing" /\ faults < MaxFaults
    /\ phase' = [phase EXCEPT ![w] = "failed"]
    /\ lock' = None
    /\ faults' = faults + 1
    /\ UNCHANGED <<vars, response, usage, written, file, open, up>>

Close ==
    /\ up /\ lock = None /\ open
    /\ open' = FALSE
    /\ UNCHANGED <<vars, response, usage, phase, lock, written, file, up, faults>>

\* The process ends, and with it the requests it is busy with.
Busy(w) == phase[w] \in {"ready", "writing"} \/ (phase[w] = "new" /\ w = Observed /\ total > 0)
End ==
    /\ up /\ faults < MaxFaults
    /\ up' = FALSE /\ open' = FALSE /\ lock' = None
    /\ phase' = [w \in Requests |-> IF Busy(w) THEN "lost" ELSE phase[w]]
    /\ faults' = faults + 1
    /\ UNCHANGED <<vars, response, usage, written, file>>

\* NewJSONL opens the file for appending.  (Mutant: it is emptied.)
StartTruncating ==
    /\ ~up
    /\ up' = TRUE /\ open' = TRUE /\ file' = <<>>
    /\ UNCHANGED <<vars, response, usage, phase, lock, written, faults>>
Start ==
    /\ ~up
    /\ up' = TRUE /\ open' = TRUE
    /\ UNCHANGED <<vars, response, usage, phase, lock, written, file, faults>>

TNext ==
    \/ \E n \in 0..MaxWrite : Receive(n)
    \/ \E w \in Requests :
          \/ Finish(w) \/ Record(w) \/ FailWrite(w)
          \/ \E to \in 1..Newline : WriteParts(w, to)
    \/ Close \/ End \/ Start

TSpec == TInit /\ [][TNext]_transcript

-----------------------------------------------------------------------------
(* Properties *)

\* The lines with usage that the observed request received as a whole.
Received == WithUsage({l \in response.usages : l.to <= total})
IsLast(l) == l \in Received /\ \A m \in Received : m.from <= l.from

\* The recorded usage is that of the last line received with any, or none: a
\* truncated response never shows the tokens of an earlier line.
UsageIsLast ==
    phase[Observed] \in {"ready", "writing", "done"} =>
        usage = None \/ \E l \in Received : IsLast(l) /\ usage = Normalised(l.usage)

\* The usage is found in every response within the limit, and in a longer one
\* when its line lies within the window; a response that is not streamed has
\* to fit one of them as a whole.
UsageFound ==
    phase[Observed] \in {"ready", "writing", "done"} =>
        \A l \in Received :
            IsLast(l) /\ (total <= limit \/ l.from > total - Window) => usage # None

\* Type invariant of the recorder.
TTypeOK ==
    /\ response \in Responses
    /\ phase \in [Requests -> {"new", "ready", "writing", "done", "failed", "dropped", "lost"}]
    /\ lock \in Requests \cup {None}
    /\ written \in [Requests -> 0..Newline]
    /\ file \in Seq(Requests \X (1..Newline))
    /\ open \in BOOLEAN /\ up \in BOOLEAN /\ faults \in Nat

\* A request can be read back if a line of the file is its record.
EndsLine(i) == i = 0 \/ file[i][2] = Newline
RecordAt(w, i) == EndsLine(i - 1) /\ SubSeq(file, i, i + 2) = Parts(w, 1, Newline)
Readable == {w \in Requests : \E i \in 1..(Len(file) - 2) : RecordAt(w, i)}
InFile(part) == {w \in Requests : \E i \in DOMAIN file : file[i] = <<w, part>>}
Torn == InFile(1) \ InFile(Newline)

\* However records are written and writes fail, a record that is in the file up
\* to its newline and cannot be read follows directly on a line cut short, which
\* therefore spoils one record at most; and only a failed write or the end of
\* the process cuts a line short.
DamageIsLocal ==
    /\ \A w \in InFile(Newline) \ Readable :
          \E i \in 1..(Len(file) - 1) : file[i + 1] = <<w, 1>> /\ file[i][1] \in Torn
    /\ \A w \in Torn : phase[w] \in {"writing", "failed", "lost"}

\* A record that could be read back can be read back ever after, across
\* failures and restarts.
HistoryKept == [][Readable \subseteq Readable']_transcript
=============================================================================
