-------------------------- MODULE RequestPipeline --------------------------
(***************************************************************************)
(* internal/pipeline: one proxied request from its plan to its end.        *)
(*                                                                         *)
(* Execute rewrites the body, decides about streaming, sends the request   *)
(* through the privacy processor or directly, passes the reply on as it    *)
(* arrives, buffered, or converted to SSE, and writes the transcript       *)
(* record.  Around it the upstream answers late or breaks off, the plan's  *)
(* deadline fires, and the client goes away.                               *)
(*                                                                         *)
(* Bodies are kinds of request document; a response is a status class and  *)
(* a number of chunks.  Header rewriting and the status map do not appear: *)
(* they change neither the order of the writes nor the transcript.         *)
(***************************************************************************)
EXTENDS Naturals, FiniteSets

CONSTANTS
    MaxChunks,   \* bound on the chunks of a response body
    Limit        \* chunks that fit streaming_setting.max_buffer_bytes

ASSUME BoundAssumption == MaxChunks \in Nat /\ Limit \in Nat

Formats == {"openai", "anthropic", "gemini"}
\* "blank": only white space; "odd": an object whose messages have another
\* type than applySystemPrompt accepts; "stream": an object asking for SSE.
Bodies == {"empty", "blank", "null", "object", "odd", "stream", "malformed"}
\* What the plan's body rules do: nothing, set fields, insert a system prompt,
\* or set the stream field through a custom rule.
Rewrites == {"none", "fields", "prompt", "stream"}
Plans == [format : Formats, protect : BOOLEAN, ntos : BOOLEAN,
          limited : BOOLEAN, rewrite : Rewrites]
Replies == {"ok", "bad"}          \* a 2xx and any other upstream status
Errors == {"3002", "3003", "4001", "4002", "4003", "4004", "5003"}
None == "none"

VARIABLES
    plan,        \* the ExecutionPlan
    request,     \* body kind, and whether a Gemini path asks for streaming
    sink,        \* the transcript is enabled
    processor,   \* the pipeline has a privacy processor
    pc,          \* the next thing the request's goroutine does
    doc,         \* the request document as rewritten so far
    timer,       \* the context's deadline: "off", "armed" or "fired"
    gone,        \* the client's connection is closed or timed out
    contacted,   \* the upstream or the processor was called
    status,      \* the upstream's status once it answered
    read,        \* chunks read from the upstream body, all captured
    end,         \* how the reading ended, "more" while it goes on
    bodyOpen,    \* the upstream body is open
    held,        \* a pooled client is held
    wire,        \* what the client got: first status, chunks, SSE or not
    failure,     \* the error finish is called with
    records      \* transcript records written

inputs == <<plan, request, sink, processor>>
resources == <<bodyOpen, held>>
upstream == <<contacted, status, read, end>>
vars == <<inputs, pc, doc, timer, gone, upstream, resources, wire, failure, records>>

Fake == plan.ntos /\ doc.wants
Buffered == plan.protect \/ Fake

\* Type invariant: no more chunks go to the client than can be read.
TypeOK ==
    /\ plan \in Plans
    /\ request \in [body : Bodies, tailStream : BOOLEAN]
    /\ sink \in BOOLEAN /\ processor \in BOOLEAN /\ gone \in BOOLEAN
    /\ pc \in {"transform", "prepare", "protect", "acquire", "build", "awaiting",
               "head", "reading", "passing", "buffered", "finish", "close",
               "release", "done"}
    /\ doc \in [kind : Bodies, wants : BOOLEAN]
    /\ timer \in {"off", "armed", "fired"}
    /\ contacted \in BOOLEAN /\ status \in Replies \cup {None}
    /\ read \in 0..MaxChunks /\ end \in {"more", "eof", "error", "timeout"}
    /\ bodyOpen \in BOOLEAN /\ held \in BOOLEAN
    /\ wire \in [head : Replies \cup Errors \cup {None}, sent : 0..MaxChunks, sse : BOOLEAN]
    /\ failure \in BOOLEAN
    /\ \A r \in records : r \in [status : Replies \cup {None}, error : BOOLEAN, bytes : Nat,
                                 number : Nat]

\* BuildExecutionPlan has accepted the request: ExtractModel refuses a
\* malformed body except for Gemini, whose model is in the path, and it does
\* parse white space as no body at all.
Init ==
    /\ plan \in Plans
    /\ request \in [body : Bodies, tailStream : BOOLEAN]
    /\ request.body = "malformed" => plan.format = "gemini"
    /\ request.tailStream => plan.format = "gemini"
    /\ sink \in BOOLEAN /\ processor \in BOOLEAN
    /\ pc = "transform"
    /\ doc = [kind |-> request.body, wants |-> FALSE]
    /\ timer = "off" /\ gone = FALSE
    /\ contacted = FALSE /\ status = None /\ read = 0 /\ end = "more"
    /\ bodyOpen = FALSE /\ held = FALSE
    /\ wire = [head |-> None, sent |-> 0, sse |-> FALSE]
    /\ failure = FALSE
    /\ records = {}

-----------------------------------------------------------------------------
(* Writing to the client and to the transcript *)

\* response.WriteError: the first status written is the one the client sees.
WriteError(code) ==
    wire' = IF wire.head = None THEN [wire EXCEPT !.head = code] ELSE wire

Record(s, err) ==
    records' = IF sink THEN records \cup {[status |-> s, error |-> err, bytes |-> read,
                                           number |-> Cardinality(records)]}
               ELSE records

-----------------------------------------------------------------------------
(* Execute: body rules and streaming decision *)

\* decodeRequestDocument and the body rules.  A null document decodes to a nil
\* map, and the first assignment to it panics.
Transformable(body) ==
    \/ plan.rewrite = "none"
    \/ body \in {"empty", "blank", "object", "stream"}
    \/ body = "odd" /\ plan.rewrite # "prompt"
Panics(body) == plan.rewrite # "none" /\ body = "null"
Transformed(body) ==
    CASE plan.rewrite = "none" -> body
      [] plan.rewrite = "stream" -> "stream"
      [] body \in {"empty", "blank"} -> "object"
      [] OTHER -> body

\* net/http recovers the panic and drops the connection.
Panic ==
    /\ pc' = "done"
    /\ UNCHANGED <<inputs, doc, timer, gone, upstream, resources, wire, failure, records>>

TransformPanics == pc = "transform" /\ Panics(doc.kind) /\ Panic

TransformFails ==
    /\ pc = "transform" /\ ~Transformable(doc.kind) /\ ~Panics(doc.kind)
    /\ WriteError("3003") /\ Record(None, TRUE)
    /\ pc' = "done"
    /\ UNCHANGED <<inputs, doc, timer, gone, upstream, resources, failure>>

\* The rewritten body decides whether the client wants a stream; the context
\* gets the plan's deadline.
ClientWantsStream(kind) ==
    IF plan.format = "gemini" THEN request.tailStream ELSE kind = "stream"

Transform ==
    /\ pc = "transform" /\ Transformable(doc.kind)
    /\ LET kind == Transformed(doc.kind) IN
         doc' = [kind |-> kind, wants |-> ClientWantsStream(kind)]
    /\ timer' = "armed"
    /\ pc' = "prepare"
    /\ UNCHANGED <<inputs, gone, upstream, resources, wire, failure, records>>

\* prepareUpstreamBody: with nonstream_to_stream the upstream request is shaped
\* to stream: false; Gemini cannot be, and only a JSON document can.  A null
\* document panics here too.
Shapeable == plan.format # "gemini" /\ doc.kind \notin {"blank", "malformed"}
ShapePanics == pc = "prepare" /\ plan.ntos /\ Shapeable /\ doc.kind = "null" /\ Panic
Prepared == plan.ntos => Shapeable /\ doc.kind # "null"

PrepareFails ==
    /\ pc = "prepare" /\ plan.ntos /\ ~Shapeable
    /\ WriteError(IF plan.format = "gemini" THEN "3002" ELSE "3003")
    /\ pc' = "done"
    /\ UNCHANGED <<inputs, doc, timer, gone, upstream, resources, failure, records>>

\* validatePrivacyStreamingCompatibility.  (Mutant: the check is left out.)
ConflictNever == FALSE
Conflict == plan.protect /\ doc.wants /\ ~Fake

PrepareConflicts ==
    /\ pc = "prepare" /\ Prepared /\ Conflict
    /\ WriteError("3002")
    /\ pc' = "done"
    /\ UNCHANGED <<inputs, doc, timer, gone, upstream, resources, failure, records>>

\* ShapeNonstreamRequest: stream is set to false.
\* (Mutant: only if the client's own body asked for streaming.)
ShapedIfStreaming(kind) == IF plan.ntos /\ request.body = "stream" THEN "object" ELSE kind
Shaped(kind) == IF plan.ntos /\ kind \in {"stream", "empty"} THEN "object" ELSE kind

Prepare ==
    /\ pc = "prepare" /\ Prepared /\ ~Conflict
    /\ doc' = [doc EXCEPT !.kind = Shaped(doc.kind)]
    /\ pc' = IF plan.protect THEN "protect" ELSE "acquire"
    /\ UNCHANGED <<inputs, timer, gone, upstream, resources, wire, failure, records>>

-----------------------------------------------------------------------------
(* executePrivacyProtectedRequest *)

ProcessorMissing ==
    /\ pc = "protect" /\ ~processor
    /\ WriteError("5003")
    /\ pc' = "done"
    /\ UNCHANGED <<inputs, doc, timer, gone, upstream, resources, failure, records>>

ProcessorFails ==
    /\ pc = "protect" /\ processor
    /\ contacted' = TRUE
    /\ WriteError("5003") /\ Record(None, TRUE)
    /\ pc' = "done"
    /\ UNCHANGED <<inputs, doc, timer, gone, status, read, end, resources, failure>>

ProcessorAnswers(s) ==
    /\ pc = "protect" /\ processor
    /\ contacted' = TRUE /\ status' = s /\ bodyOpen' = TRUE
    /\ pc' = "reading"
    /\ UNCHANGED <<inputs, doc, timer, gone, read, end, held, wire, failure, records>>

-----------------------------------------------------------------------------
(* executeDirectUpstreamRequest *)

Acquire ==
    /\ pc = "acquire"
    /\ held' = TRUE
    /\ pc' = "build"
    /\ UNCHANGED <<inputs, doc, timer, gone, upstream, bodyOpen, wire, failure, records>>

BuildFails ==
    /\ pc = "build"
    /\ WriteError("5003") /\ Record(None, TRUE)
    /\ pc' = "release"
    /\ UNCHANGED <<inputs, doc, timer, gone, upstream, resources, failure>>

Send ==
    /\ pc = "build"
    /\ contacted' = TRUE
    /\ pc' = "awaiting"
    /\ UNCHANGED <<inputs, doc, timer, gone, status, read, end, resources, wire, failure,
                   records>>

\* writeUpstreamRequestError
RequestError ==
    \/ WriteError("4002")
    \/ timer = "fired" /\ WriteError("4001")

\* (Mutant: recordFailure is not called.)
SendFailsSilently ==
    /\ pc = "awaiting"
    /\ RequestError
    /\ pc' = "release"
    /\ UNCHANGED <<inputs, doc, timer, gone, upstream, resources, failure, records>>

\* Do returns an error: the deadline, a vanished client, a broken connection.
SendFails ==
    /\ pc = "awaiting"
    /\ RequestError
    /\ Record(None, TRUE)
    /\ pc' = "release"
    /\ UNCHANGED <<inputs, doc, timer, gone, upstream, resources, failure>>

\* An answer may still win the race with the deadline.
Answer(s) ==
    /\ pc = "awaiting"
    /\ status' = s /\ bodyOpen' = TRUE
    /\ pc' = IF Fake THEN "reading" ELSE "head"
    /\ UNCHANGED <<inputs, doc, timer, gone, contacted, read, end, held, wire, failure,
                   records>>

-----------------------------------------------------------------------------
(* The response body.  Reading copies every chunk into the capture; a read    *)
(* fails when the upstream breaks off, the deadline fires or the client left, *)
(* and what has already arrived may still be read after the deadline.  What   *)
(* the privacy processor answers is in memory: it has read the reply to its   *)
(* end, and a break or a deadline there is a failure of the processor.        *)

Sending == wire' = [wire EXCEPT !.head = IF wire.head = None THEN status ELSE wire.head]

\* writeTransparentUpstreamResponse: the status goes first, ...
PassHead ==
    /\ pc = "head"
    /\ Sending
    /\ pc' = "reading"
    /\ UNCHANGED <<inputs, doc, timer, gone, upstream, resources, failure, records>>

\* ... then chunk after chunk; readBounded reads without passing on and stops
\* one chunk over the limit.
Overrun == Buffered /\ plan.limited /\ read > Limit

ReadChunk ==
    /\ pc = "reading" /\ end = "more" /\ ~Overrun
    /\ read < MaxChunks
    /\ read' = read + 1
    /\ pc' = IF Buffered THEN "reading" ELSE "passing"
    /\ UNCHANGED <<inputs, doc, timer, gone, contacted, status, end, resources, wire,
                   failure, records>>

PassChunk ==
    /\ pc = "passing"
    /\ wire' = [wire EXCEPT !.sent = @ + 1]
    /\ pc' = "reading"
    /\ UNCHANGED <<inputs, doc, timer, gone, upstream, resources, failure, records>>

\* A write broke, because the client left or because net/http refuses the bytes: more
\* than the Content-Length a header rule has set, or any for a status without a body.
\* io.ErrClosedPipe is not reported.  (Mutant: no error of a write is.)
PassFailsSilently ==
    /\ pc = "passing"
    /\ pc' = "finish"
    /\ UNCHANGED <<inputs, doc, timer, gone, upstream, resources, wire, failure, records>>
PassFails ==
    /\ pc = "passing"
    /\ failure' \in IF gone THEN BOOLEAN ELSE {TRUE}
    /\ pc' = "finish"
    /\ UNCHANGED <<inputs, doc, timer, gone, upstream, resources, wire, records>>

ReadEof ==
    /\ pc = "reading" /\ end = "more" /\ ~Overrun
    /\ end' = "eof"
    /\ pc' = IF Buffered THEN "buffered" ELSE "finish"
    /\ UNCHANGED <<inputs, doc, timer, gone, contacted, status, read, resources, wire,
                   failure, records>>

ReadFails ==
    /\ pc = "reading" /\ ~plan.protect /\ end = "more" /\ ~Overrun
    /\ end' \in {"error"} \cup (IF timer = "fired" THEN {"timeout"} ELSE {})
    /\ pc' = IF Buffered THEN "buffered" ELSE "finish"
    /\ failure' = ~Buffered
    /\ UNCHANGED <<inputs, doc, timer, gone, contacted, status, read, resources, wire, records>>

ReadTooMuch ==
    /\ pc = "reading" /\ end = "more" /\ Overrun
    /\ pc' = "buffered"
    /\ UNCHANGED <<inputs, doc, timer, gone, upstream, resources, wire, failure, records>>

-----------------------------------------------------------------------------
(* writeBufferedResponse.  Its errors go to the client, not to finish. *)

\* Both a failed read and a body over the limit are refused.
\* (Mutant: a failed read is passed on.)
IncompleteIfOverrun == Overrun
Incomplete == end \in {"error", "timeout"} \/ Overrun

\* (Mutant: the refusal is left to the caller, which has no error to report.)
BufferRefusedSilently ==
    /\ pc = "buffered" /\ Incomplete
    /\ pc' = "finish"
    /\ UNCHANGED <<inputs, doc, timer, gone, upstream, resources, wire, failure, records>>

BufferRefused ==
    /\ pc = "buffered" /\ Incomplete
    /\ WriteError("4004")
    /\ pc' = "finish"
    /\ UNCHANGED <<inputs, doc, timer, gone, upstream, resources, failure, records>>

\* A reply that is not to be converted, or whose status is an error, is passed on.  The
\* copy may break off anywhere: the client left, or net/http refuses bytes, as when the
\* processor's reply keeps the upstream's Content-Length and its body has grown.  The
\* error is dropped.
Convertible == Fake /\ status = "ok"
PassBuffer ==
    /\ pc = "buffered" /\ ~Incomplete /\ ~Convertible
    /\ \E sent \in 0..read : wire' = [head |-> status, sent |-> sent, sse |-> FALSE]
    /\ pc' = "finish"
    /\ UNCHANGED <<inputs, doc, timer, gone, upstream, resources, failure, records>>

ConvertBuffer ==
    /\ pc = "buffered" /\ ~Incomplete /\ Convertible
    /\ wire' = [head |-> status, sent |-> IF gone THEN 0 ELSE read, sse |-> TRUE]
    /\ pc' = "finish"
    /\ UNCHANGED <<inputs, doc, timer, gone, upstream, resources, failure, records>>

\* The converter (external) refuses the body before writing, or fails later.
ConvertFails ==
    /\ pc = "buffered" /\ ~Incomplete /\ Convertible
    /\ \/ WriteError("4003")
       \/ wire' = [head |-> status, sent |-> 0, sse |-> TRUE]
    /\ pc' = "finish"
    /\ UNCHANGED <<inputs, doc, timer, gone, upstream, resources, failure, records>>

-----------------------------------------------------------------------------
(* finish, and the deferred calls in reverse order *)

Finish ==
    /\ pc = "finish"
    /\ Record(status, failure)
    /\ pc' = "close"
    /\ UNCHANGED <<inputs, doc, timer, gone, upstream, resources, wire, failure>>

CloseBody ==
    /\ pc = "close"
    /\ bodyOpen' = FALSE
    /\ pc' = IF held THEN "release" ELSE "done"
    /\ UNCHANGED <<inputs, doc, timer, gone, upstream, held, wire, failure, records>>

Release ==
    /\ pc = "release"
    /\ held' = FALSE
    /\ pc' = "done"
    /\ UNCHANGED <<inputs, doc, timer, gone, upstream, bodyOpen, wire, failure, records>>

-----------------------------------------------------------------------------
(* The environment *)

\* The context's deadline.  (Mutant: it has none.)
TimerFiresNever == FALSE /\ UNCHANGED vars
TimerFires ==
    /\ timer = "armed" /\ pc # "done"
    /\ timer' = "fired"
    /\ UNCHANGED <<inputs, pc, doc, gone, upstream, resources, wire, failure, records>>

ClientGoes ==
    /\ ~gone /\ pc # "done"
    /\ gone' = TRUE
    /\ UNCHANGED <<inputs, pc, doc, timer, upstream, resources, wire, failure, records>>

\* The reply of the privacy processor is read from memory.
ReadMemory == plan.protect /\ (ReadChunk \/ ReadEof)

\* What the goroutine does without waiting for anybody.
Local ==
    \/ TransformPanics \/ TransformFails \/ Transform
    \/ ShapePanics \/ PrepareFails \/ PrepareConflicts \/ Prepare
    \/ ProcessorMissing \/ Acquire \/ BuildFails \/ Send
    \/ PassHead \/ PassChunk \/ PassFails \/ ReadTooMuch \/ ReadMemory
    \/ BufferRefused \/ PassBuffer \/ ConvertBuffer \/ ConvertFails
    \/ Finish \/ CloseBody \/ Release

\* What an upstream may never do.
Remote ==
    \/ ProcessorFails
    \/ \E s \in Replies : ProcessorAnswers(s) \/ Answer(s)
    \/ SendFails \/ ReadChunk \/ ReadEof \/ ReadFails

\* A call whose context has expired returns.
Expired == timer = "fired" /\ (ProcessorFails \/ SendFails \/ ReadFails)

Ended == pc = "done" /\ UNCHANGED vars

Next == Local \/ Remote \/ TimerFires \/ ClientGoes \/ Ended

\* The goroutine runs, the deadline fires and expired calls return; nothing is
\* assumed of the upstream or the client.
Fairness == WF_vars(Local) /\ WF_vars(TimerFires) /\ WF_vars(Expired)

Safety == Init /\ [][Next]_vars
Spec == Safety /\ Fairness

-----------------------------------------------------------------------------
(* Properties *)

\* A call that reached the upstream or the processor leaves exactly one record.
UpstreamCallsRecorded ==
    pc = "done" /\ sink /\ contacted => Cardinality(records) = 1

\* What a record says of a reply that was passed on as it came: no error and the bytes
\* the client was sent if it was passed on to its end, an error if the upstream broke
\* off or the deadline fired, or if a client that is still there was not sent all.
PassedOn(err, bytes) ==
    /\ end = "eof" => ~err /\ bytes = wire.sent
    /\ end \in {"error", "timeout"} => err
    /\ end = "more" /\ ~gone => err

\* The record of a reply tells what became of it: the status the client saw, never fewer
\* bytes than it was sent, and, unless it went through a buffer, whether it was sent all.
\* A buffered reply may be cut on its way to the client and leave a record without an
\* error, for the error of that write is dropped.
RecordMatchesWire ==
    pc = "done" /\ wire.head \in Replies =>
        \A r \in records :
            /\ r.status = wire.head /\ wire.sent <= r.bytes
            /\ ~Buffered => PassedOn(r.error, r.bytes)

\* A client that waits for its answer gets one, a reply or an error, however its
\* request ends; only the body null is never answered.
AnsweredUnlessNull ==
    pc = "done" /\ ~gone /\ request.body # "null" => wire.head # None

\* A buffered reply reaches the client only when it was read to its end.
BufferedIsWhole == Buffered /\ wire.head \in Replies => end = "eof"

\* With nonstream_to_stream, the upstream is never asked to stream, whatever
\* the client or a custom body rule says.
ShapedNeverStreams == contacted /\ plan.ntos => doc.kind # "stream"

\* Behind the privacy processor nothing streams.
ProtectedNeverStreams ==
    contacted /\ plan.protect =>
        IF plan.format = "gemini" THEN ~request.tailStream ELSE doc.kind # "stream"

\* Every request ends, with its body closed and its client returned.
Terminates == <>(pc = "done" /\ ~bodyOpen /\ ~held)

\* A timeout leaves a record that carries an error.
TimeoutRecorded ==
    pc = "done" /\ sink /\ end = "timeout" => \E r \in records : r.error
=============================================================================
