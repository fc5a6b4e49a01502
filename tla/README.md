# llm-api-enhance in TLA+

A verification project for the LLM API gateway in this repository
(`src/internal/...`, Go): a proxy that takes OpenAI, Anthropic and Gemini
requests, rewrites them by configured policies, optionally masks private data,
forwards them, passes the reply on (as it comes, buffered, or turned into an
SSE stream) and records the exchange.

The modules model the code, not the documents. Where the two disagree and a run
shows it, the disagreement is a *violation run* and is explained below.

## 1. The system

| component | code | state | operations |
|---|---|---|---|
| client pool | `upstream/client_manager.go` | `clients` map under `mu`; per client the atomics `active` and `draining`; its transport's idle connections | `Acquire`, `release`, `MarkAllDraining`, `Stats` |
| router | `router/*.go` | the atomic snapshot store, the unsynchronised field `Privacy` | `serveProxy`, `reload`, `health` |
| configuration | `config/*.go` | the immutable `RuntimeSnapshot` | `LoadBytes`, `FillDefaults`, `Validate`, `BuildSnapshot` |
| planner | `planner/*.go` | none (pure) | `ExtractModel`, `BuildExecutionPlan`, `ValidatePlan` |
| pipeline | `pipeline/*.go` | per request: the rewritten body, the context with its deadline, the open reply, the observation | `Execute` and what it calls |
| streaming | `streaming/*.go` | none | `ClientWantsStream`, `ShapeNonstreamRequest`, the SSE converter (a library) |
| privacy | `privacy/privacy.go` | session and request mappings in a store | `LibraryProcessor.Do`, `compatibilityProcessor.Do` |
| transcript | `transcript/*.go` | per response a `Capture`; the record file under a mutex | `Capture.Write`, `Body`, `ScanText`, `ExtractUsage`, `JSONLRecorder.Record`, `Close` |
| logging | `logging/*.go` | a bounded channel, one writer goroutine, the file | `log`, `writeLoop`, `Close` |
| response | `response/*.go` | none | `WriteError`, `WriteSuccess` |
| application | `app/*.go`, `cmd/main.go` | all of the above | `New`, `Run`, `Shutdown` |

Interaction: net/http starts one goroutine per request. It loads the snapshot,
plans, reads `Privacy`, and runs the pipeline, which borrows a client from the
pool or calls the privacy processor, copies what it reads into a `Capture`, and
hands a record to the recorder. Reloads arrive on goroutines of their own and
replace shared state under the feet of running requests: the pool's clients are
marked draining, `Privacy` is assigned, the snapshot is stored. The logger stands
apart: `app.New` builds one, `app.Run` logs its start with it, and no other part gets it.

What is hard to test here, and what correctness means for each part:

- **client pool**: `release` runs without the lock and races `MarkAllDraining`.
  A counter must equal the number of users, nobody may start on a retired
  client, and a retired client must lose its idle connections whoever comes
  last.
- **router**: three writes per reload, three reads per request, nothing that
  orders them. Protection must not be lost in between.
- **configuration and planner**: validation and planning live in different
  packages and must agree; compilation turns lists into maps.
- **pipeline**: a dozen early returns, a deadline, a client that leaves, an
  upstream that breaks off, a write that fails, deferred calls in reverse order.
  Every request must end, give back what it holds, answer and be recorded
  truthfully.
- **body and header rewriting**: rules are applied to one document in an order, their values
  are shared by all requests, and what a client sent must not be confused with
  what earlier rules made of it.
- **transcript**: byte windows at their limits, for any cut of a response into
  writes; lines of concurrent requests in one file, writes that fail half way,
  ends of the process between two writes.
- **logger**: a full channel, a closing channel, several closers, writes that fail.
- **privacy**: read-modify-write of session mappings across a call to another
  model, by concurrent requests; two paths with two stores; once a session is
  known only the latest text is examined. What leaves must be masked, and a
  placeholder must mean one thing.

`PROJECT.json` lists the components, and under `hazards` each of these places
at its line with the properties that watch it.

## 2. The modules

| module | models | role |
|---|---|---|
| `DrainingPool` | what the pool promises | abstract specification, one step per call |
| `ClientPool` | `client_manager.go` | one action per lock section and atomic access |
| `Gateway` | `admin_handler.go`, `router.go`, `proxy_handler.go` | composes reloads and requests over `DrainingPool` (INSTANCE) |
| `RequestPipeline` | `pipeline.go`, `record.go`, `response.go`, `nonstream_to_stream.go`, `detect.go` | one request from its plan to its end |
| `Configuration` | `validate.go`, `snapshot.go`, `loader.go`, `plan.go`, `select.go`, `model_extract.go` | from a decoded configuration to a plan |
| `HeaderRules` | `headers.go`, parts of `interpolate.go`, `response.go`, `fakestream_response_writer.go` | operators: what header rules leave of a request's or a reply's headers |
| `RequestRewriting` | `body_transform.go`, `session.go`, parts of `snapshot.go`, `validate.go` | body and header rules (EXTENDS `HeaderRules`) and session identifiers of concurrent conversations |
| `Capture` | `capture.go` | the two byte buffers |
| `Transcript` | `capture.go`, `recorder.go`, `record.go` | composes `Capture` (EXTENDS) with usage extraction and the record file |
| `AsyncLogger` | `logger.go`, `file_writer.go` | channel, writer, Close |
| `PrivacyMappings` | `privacy.go` | session and request mappings of the compatibility path |
| `MCGateway`, `MCConfiguration`, `MCPrivacyMappings`, `MCRequestRewriting`, `MCTranscript` | | constants and symmetry for TLC |
| `ClientPoolProofs`, `GatewayProofs`, `ConfigurationProofs`, `RequestPipelineProofs`, `RequestRewritingProofs`, `TranscriptProofs`, `AsyncLoggerProofs`, `PrivacyMappingsProofs` | | theorems |

Operators named after a definition with a suffix (`ReusableAlways`,
`WaitSkipped`, ...) are its *mutants*: the bug a property is meant to catch,
kept beside the definition they would replace. No specification uses them.

### ClientPool

`mu` names the operation that holds `Manager.mu`. `AcquireSelect` takes it, finds
or replaces the client of a key; `AcquireCount` raises the counter and unlocks.
`ReleaseDec` (`active.Add(-1)`) and `ReleaseCheck` (`draining.Load`, close) are
separate because nothing holds them together; likewise `MarkStore` and
`MarkCheck`, for one client after the other, and `StatsRead`. `Send`, `Receive`
and `CloseIdleConnections` are net/http's transport as the pool relies on it: a
connection that becomes idle after `CloseIdleConnections` is closed, until the
next use of the transport resets that.

The refinement maps `using[p]` to the held client while the request is counted
or about to be, and `retired` to the clients that are draining *or that a
running MarkAllDraining has yet to visit*: the abstract `RetireAll` happens when
it takes the lock, because from then on no Acquire can get them.

### Gateway

A reload is `ReloadBuild`, `ReloadMark`, two `ReloadAssign`s and `ReloadStore`:
`Privacy` is a Go interface, two words written and read without synchronisation
(a data race), so each word is written and read on its own and in either order.
A request is `Load`, `Reject` or two `ReadPrivacy`s, then `Protect` or `Direct`.
`Protect` with a type word and no data is a nil `*LibraryProcessor`: the call
panics and net/http drops the connection (`crashed`).

Three history variables name the cases the properties tell apart: `bare`, some
accepted configuration had no privacy section; `alone`, the reloads under way
that met no other one since they began to change things; `settled`, the last
reload to store was such a one.

### RequestPipeline

The program counter `pc` follows `Execute`. A body is a kind (empty, blank,
`null`, an object, an object that asks for a stream, one of an unexpected shape,
malformed); a reply is a status class and a number of chunks. `wire` is what the
client got, `records` what the transcript got, `end` how reading the reply ended.
`TimerFires` and `ClientGoes` may come between any two steps.

A write to the client fails when it left, and also while it is there, because
net/http refuses bytes beyond a Content-Length and any for a status without a body.
`PassFails` is that failure on the transparent path, which reports it to `finish`.
On the buffered path (`PassBuffer`) `pipeline.go:196` drops the error, so any number
of the chunks may have been sent: a processor's reply keeps the upstream's
Content-Length (`privacy.go:279`), and its body, with the originals back in, may be
longer. A processor's reply is in memory when the pipeline reads it
(`privacy.go:258-279`; the library's is taken to be too), so `ReadFails` is a failure
of unprotected replies only, and what goes wrong in `Do` is `ProcessorFails`, which is
recorded with an error.

Headers and bodies are rewritten in RequestRewriting; the status map is left out, and with it
the statuses that forbid a body (see the plan).

### Configuration

A configuration keeps the access keys, the timeout, how complete the privacy
section is, and the channels with their rules. Of a policy it keeps the timeout,
the streaming mode and the system prompt; other transforms are validated one by
one and do not interact.

On model rules the repository contradicts itself. `src/README.md:152` says that a rule
adds its transforms on top of the channel's
("叠加额外的策略变换，覆盖渠道默认策略"). `policySource` takes the rule's policy instead
of the channel's, its comment says that selection is exclusive
(`select.go:42-43`), and `planner_test.go:56-66` fails if a header, a limit or the
timeout of the channel is left in the plan. The model is the code: `PlanFollowsConfig`
states the replacement, and its mutant `PolicySourceAdded` is what the README
describes.

### Capture and Transcript

The n-th byte of a response is the number n. `Write(n)` is the method with its
two buffers. `Transcript` gives the response its lines with usage, each a stretch
of bytes with three token counts, and `ExtractUsage` finds those of them that are
whole in the text searched: a line that lost its beginning or its end is no JSON
and no `data:` line. An unstreamed reply is one such line. `Finish` may come at any
byte, as replies break off.

The record of a request is three parts of a line, the last its newline, because
one call of `File.Write` may be several writes of the system. `Record` takes
`JSONLRecorder.mu`, `WriteParts` writes one part or more, `FailWrite` is the
error that the code ignores. `End` is an end of the process at any point, `Start`
a new one that opens the file for appending. The file survives, part by part.

### RequestRewriting

A document is a function from paths to leaves; a path is a sequence of members of
`Names`. `PoliciesAssumption` says what a compiled custom rule is: its value stands
at the rule's path or, if it is an object, below it; `ExchangesAssumption` that what
the client sends is a document of its own, without links. The rules up to the custom ones
touch only the request's own document and are one step, `Receive`, with the
session identifier computed before them. Custom rules are applied one by one by
`ApplyCustom`. `compileRequestBody` takes the value of a custom rule as the
configuration has it, without a copy, so an object stays one Go map for the
configuration, the snapshot and every request that gets it: the model puts a
`Link` in the document, and a longer path that goes on below it is written into
`snapshot` by `WriteShared`. While it is under way, another write of the same map,
or `json.Marshal` reading it, may make the runtime end the process (`crashed`).
`Continue` is the client, which appends the answer and a message of its own.

A path is a sequence of keys. `sortedCustomPaths` sorts strings; what the result
depends on is that a path comes before those below it, so `MayApply` keeps only
that and leaves the rest open.

`Send` ends the encoding and applies the header rules of the request, with the
session identifier of the body the client sent; `Reply` applies those of the reply,
which is passed on or converted. Headers are functions from canonical names to
values. A rule's key is a name with a spelling, because the configuration may have
two spellings of one name and Go ranges over the rules in any order:
`ApplyHeaderPlan` is the set of all results. Values that are fresh in every request
(`${UUID}`, `${TIMESTAMP}`, `${uuid}`) are a text.

### AsyncLogger

The `select` of `log` is `Offer`, `Drop` and `Panic` as the Go rules allow them:
a send on a closed channel counts as ready and panics even when `done` is closed
too. `Close` is the call (`CloseCall`), the Once with its four steps, then
`closeFunc`, which every caller runs. `writeLoop` drops what `Write` returns
(`logger.go:94`): `Write` puts the line in hand into the output whole, `WriteFails`
only in part or not at all, and the loop goes on alike. `output` is the sequence of
these writes with how each went.

### PrivacyMappings

A request of `LibraryProcessor.Do` is `Begin`, then `LibraryAnswers` or the
fallback: `Load`, `Skip` or `Detect` and `Save`, `Send`, and `Refuse` or
`Answer`; `Fail` is every error return, possible at any point. The call to the
trusted model is what separates `Load` from `Save`, so requests of one session
interleave there. Of a text only the originals in it are kept. `map` and `hit`
are `processRequest`'s `originalToPlaceholder` and `cacheHit`, `store` and
`oneTime` the session and request mappings.

What stands outside is assumed to be as good as the code can hope for: the
trusted model finds every original in what it is shown; `MergeMappings` keeps
mappings one-to-one or fails; the store hands out copies; the library has a
memory store of its own (with Redis the two may share one). Of the client nothing is
assumed: a body has any texts, repeated or new, with or without a latest user text
among them. Two history variables serve the properties: `examined`, per session the
originals that the trusted model was shown by requests that went on to save, and
`disturbed`, the sessions that had overlapping requests.

## 3. The runs

| run | module | bounds | states | result |
|---|---|---|---|---|
| `pool` | ClientPool | 2 keys, 2 clients, 2 requests | 166,503 | holds |
| `gateway` | MCGateway | 3 configurations, 2 reload slots, 1 request, 2 clients | 1,637,877 | holds |
| `gateway_race` | MCGateway | 2 reload slots, 1 request | | violated |
| `pipeline` | RequestPipeline | replies of at most 2 chunks, limit 1 | 477,312 | holds |
| `pipeline_timeout` | RequestPipeline | 1 chunk | | violated |
| `logger` | AsyncLogger | 2 callers of 2 lines, 2 closers, channel of 2 | 25,312 | holds |
| `configuration` | MCConfiguration | some 600 configurations with all their requests | 22,880 | holds |
| `transcript` | MCTranscript | limits 1 to 4 or the default, window 3, responses of at most 6 bytes, 3 records, 2 faults | 831,204 | holds |
| `privacy` | MCPrivacyMappings | 1 session or none, 2 originals, 2 placeholders, 3 requests with any texts | 775,381 | holds |
| `privacy_unmasked` | MCPrivacyMappings | the same | | violated |
| `rewriting` | MCRequestRewriting | 2 conversations of 2 requests, 3 openings, 3 kinds of exchange, some 30 sets of rules | 868,300 | holds |
| `rewriting_shared` | MCRequestRewriting | the same | | violated |

The type invariants are parts of the proved inductive invariants (section 4) and
are not listed in the runs.

What they show:

- **pool**: a counter equals the number of users (`ActiveCountsHolders`), no
  retired client is handed out (`NeverAcquireDraining`), a client that leaves
  the map is draining (`NoOrphan`), a retired client with an idle connection has
  a user or somebody who will close it (`DrainedIsClosed`), a scanning `Stats`
  never understates a client (`StatsCoversMap`), the pool implements
  `DrainingPool` (`ImplementsPool`) and retired clients lose their connections
  for good (`DrainingClosesEventually`).
- **gateway**: a request planned with protection never takes the unprotected
  path (`NeverUnprotected`); a reload retires all clients that existed when its
  configuration was accepted (`ReloadRetiresExisting`); after a reload that met no
  other one the processor is the snapshot's, whatever overlapping reloads had left
  before (`SerialReloadsMatch`); and as long as all configurations have a privacy
  section even torn reads and writes of `Privacy` never leave a protected request
  without a processor (`AlwaysAProcessor`).
- **pipeline**: a call that went out leaves exactly one record
  (`UpstreamCallsRecorded`). Of a reply the record has the status the client saw and
  no fewer bytes than it was sent; of one passed on as it comes it has an error if and
  only if the reply broke off, timed out or was not all sent to a client that is
  there, with the one exception that a closed pipe of a client that left may go
  unreported (`RecordMatchesWire`). Of a buffered reply it cannot say that, since
  the error of writing it is dropped; a client that stays gets an answer on every way out of
  `Execute`, but for the body `null` (`AnsweredUnlessNull`); a buffered reply is
  complete (`BufferedIsWhole`); nothing streams where it must not
  (`ShapedNeverStreams`, `ProtectedNeverStreams`); every request ends with its
  resources returned (`Terminates`).
- **logger**: accepted lines are given to the output once each and in order
  (`InOrder`), all of them before any Close returns (`CloseFlushes`), never to a closed
  file (`WritesWhileOpen`); each is given to it at last (`Flushes`), and every Close
  returns, the one that runs the Once and those that wait for it (`CloseReturns`). A
  line is missing from the file only if its own write failed; that failure costs no
  other line and does not stop the loop.
- **configuration**: a validated configuration never fails in planning
  (`NeverUnplannable`), keys keep their labels (`KeysKeepTheirLabels`), and the
  plan is made from one policy, whole: the enabled rule's, else the channel's, with
  the runtime's timeout where that policy gives none (`PlanFollowsConfig`).
- **transcript**: the recorded body is a prefix (`HeadIsPrefix`); the recorded
  tokens are those of the last line received with any, never of an earlier one
  (`UsageIsLast`), and they are found whenever the response is within the limit or
  the line within the window (`UsageFound`). In the file, a record that is there up
  to its newline and cannot be read follows directly on a line cut short
  (`DamageIsLocal`), and what was readable once stays so (`HistoryKept`).
- **privacy**: a request is sent without anything the trusted model was shown,
  whatever others save meanwhile (`ScannedIsMasked`); a placeholder never stands
  for two originals (`MappingsOneToOne`); in a session used by one request
  at a time, what was examined once is masked in every later request, wherever it
  stands, although only the latest user text is looked at again
  (`SteadySessionMasked`), and keeps its placeholder (`PlaceholdersStable`); an answered or refused request leaves no mappings of
  its own (`OneTimeMappingsGone`).
- **rewriting**: what is sent is the client's document with the rules applied, the
  most specific rule winning and `${ORIGIN}` standing for what the client sent
  (`RewrittenAsIntended`, against a reference definition that has neither order nor
  steps). Unless a rule goes below another one's object, the snapshot stays as it
  was compiled and no map is written by two requests (`SnapshotKept`); with such a
  rule the reference still holds of a request that meets no other one. Headers,
  the reply's included, follow the rules in whatever order Go takes them: what sets
  wins over what removes, `${ORIGIN}` is the value that came even where the name is
  deleted, and `${session_id}` is the conversation's (`HeadersAsIntended`). The requests
  of a conversation share one session identifier, and two conversations share one
  only if their users began with the same words (`SessionsFollowConversations`).

Why the bounds are enough. In the pool an anomaly needs one client, one reload
and at most two requests; two keys make MarkAllDraining and Stats visit more
than one client, and the theorems remove the bounds for safety. In the gateway one request and
two reloads give every order of the writes and reads, and slots are reused, so
reloads and requests follow one another without end; what a request does depends
on the reloads and not on other requests, and the theorems are about any number. In the pipeline
the limit lies below, at and above the reply's length, and all plans and bodies
are initial states. The logger's channel is full with two of four lines. The
transcript's limits lie below, at and above the window and the lengths, writes
are shorter than the window and as long (`UsageWindow` is proved of longer ones too),
lines with usage end and begin on either
side of it; three records can have one torn, one spoilt by it and one after them,
and two faults tear two. Two conversations are what sharing needs, and their second
requests meet what the first ones left in the snapshot; three nested paths give a
rule above, at and below another. Of three privacy requests two can overlap and the third see
what they left; as many placeholders as originals make mix-ups possible. `MaxCalls`, `MaxLines`, `MaxChunks`, `MaxTotal`, `MaxWrite`,
`MaxLimit`, `MaxFaults` and `MaxTurns` are the bounds on otherwise unbounded
counters. The gateway, privacy, transcript and rewriting runs use symmetry; they
check no liveness.

CHECK_DEADLOCK is FALSE where the modelled part really ends: a caller's lines
are used up and the logger is closed, all records are written or lost, a configuration
was refused, the privacy requests have ended, the conversations are over. The pool and the gateway never
stop, and the pipeline has an explicit end (`Ended`).

### Fairness

- *ClientPool*: a begun operation goes on and an exchange ends. The exchange's
  context carries the plan's timeout (`pipeline.go:53`), the rest is straight-line
  code under a mutex. No new request, reload or health call is assumed.
- *RequestPipeline*: the goroutine runs, which includes reading a processor's reply
  from memory (`ReadMemory`), the context's deadline fires, and a call
  with an expired context returns. Nothing is assumed of upstream or client.
- *AsyncLogger*: `writeLoop` runs and a begun `Close` goes on. Nobody must log
  or close.

### What the violation runs show

1. `gateway_race`: reloads are not serialised. One assigns `Privacy`, the other
   assigns `Privacy` and stores, then the first stores: the processor of one
   configuration stays beside the snapshot of the other, though `router.go:21`
   calls it the processor of the current snapshot.
2. `pipeline_timeout`: without a privacy processor, a deadline that fires while a
   reply is read into the buffer to be converted (`pipeline.go:166-168`) is
   recorded with the upstream's status and no error; `改造说明.md:128` says
   timeouts leave an error.
3. `privacy_unmasked`: a session has mappings from a first request; a second one
   holds an original in a text that is not the latest of the user's (a tool's result,
   a system prompt), hits the cache, has at most its latest user text examined and
   sends the rest as it is. It need not be a new text: it may come from a request that
   failed before it saved or that the library answered, or have lost its placeholder to
   an overlapping request of the session, whose save replaces the mappings whole.
   `README.md:9` says that sensitive information is masked before a request reaches
   the upstream. What the code does guarantee is `SteadySessionMasked`.
4. `rewriting_shared`: with a rule for `a` whose value is an object and one for
   `a/b`, each request writes its `a/b` into the snapshot's object. A value taken
   from one request by `${ORIGIN}` stays there, a second request that has applied
   `a` can be sent with it, and two writes at a time end the process.
   `config/snapshot.go:5` says that BuildSnapshot clones the configuration so that
   handlers can treat a snapshot as immutable.

Met while modelling, without a run of their own: the JSON body `null` decodes to a
nil map, writing to it panics (`body_transform.go:108`,
`nonstream_to_stream.go:38`) and the client gets no answer, though `README.md:15`
promises a JSON error (`AnsweredUnlessNull` excepts these requests, `PipelineInvariant`
shows that they are the only ones); a conversation whose first user message is
empty has the hash of its whole body as identifier in its first request and
another one later, though `改造说明.md:28` says that every turn gets the same; two
conversations that begin with the same words share one, though `session.go:16`
has them told apart; an empty body has no identifier, though `session.go:20` says
that it is never empty (`session.go:23`); two header rules whose names differ in case only are one header,
and Go's map order decides which applies (`headers.go:43`); strings inside an object
given as a custom value are not interpolated (`body_transform.go:208`); of an Anthropic
stream the prompt tokens, which come in an early event below `message`, are not
read (`capture.go:100`); the usage of an unstreamed reply longer than limit and
window is lost (`capture.go:56`); a record that lacks only its newline can be read
until the next one is glued to it (`recorder.go:117`); even one reload lets a request
plan with the old snapshot and be masked by the new processor (`router.go:59`),
though `admin_handler.go:58` promises an atomic replacement; an entry of
`access_keys` may carry the label `default` that `access_key` implicitly has
(`snapshot.go:107`), though `validate.go:33` refuses repeated labels because a
transcript could not tell the tools apart; a privacy request without a session
that fails after its mappings were saved leaves them to the store's expiry
(`privacy.go:245`); a client of the old
configuration created between the reload's mark and its store is not draining
when the reload ends (`admin_handler.go:75`); a request refused because no
privacy processor exists leaves no record (`pipeline.go:118`); every failure to
read a reply into the buffer is answered as too large (`pipeline.go:187`); a
buffered reply that is cut on its way to a client that is there leaves a record
without an error (`pipeline.go:196`); a log line whose write fails is lost without a
trace (`logger.go:94`); a model rule replaces the channel's policy as a whole
(`select.go:45`), where `src/README.md:152` speaks of transforms on top of it (section
2, Configuration).

## 4. The proofs

TLAPS checks every theorem for all values of the constants; the assumptions are
the named `ASSUME`s of the modules, which TLC evaluates in the runs.

- **ClientPoolProofs.** From `NilNotAClient` and `RequestsFinite`. Inductive
  invariant `IInv`: the run's invariants with `LockOK` (who holds the lock is
  where it says, at most one request is selected, a client between store and
  load is draining) and `BornOK` (unallocated clients carry no state). The
  properties need one another: the close handshake is inductive only because a
  counter counts its holders exactly, which is a lemma about the cardinality of
  `Holders` when a request joins or leaves (`CountKept` and the steps of
  `CountKeeps` and `ReleaseDecKeeps`); `NeverAcquireDraining` needs the lock.
  `PoolRefinement` maps every step to a step or a stutter of `DrainingPool`
  (`StepSimulation`).
- **GatewayProofs.** From `ConfigAssumption`. `GInv` adds to the type invariant
  that a request upstream planned no protection (`RequestOK`), that a running
  reload has a target, and that a client leaves the pool's map only retired
  (`PoolOK`), which is why marking the map retires all that exist. Any number of
  reloads and requests. That the gateway does nothing to the clients that the pool
  does not do is the refinement `GatewayUsesPool` (`PoolStep`, step by step), and with
  it `OldClientsNotReused`: from a reload's mark on, no request starts on a client that
  the reload found. So what is proved of `ClientPool` against `DrainingPool` reaches
  the requests of the composed system. `HInv` goes on to the processor: a reload that is alone has
  written each word it need not write any more (`AloneOK`), so its store finds both
  of them its own (`SerialReloadsAgree`); and while no configuration lacks a privacy
  section, every word in the field, in a reload's and in a request's hands is of
  some processor (`ProcessorOK`), torn or not (`ProcessorAlwaysThere`).
- **RequestPipelineProofs.** From `BoundAssumption`, for any number of chunks and
  any limit. `NInv` says for every point of `Execute` what the client has got
  (`WireOK`), that no record is written before the outcome is known (`RecordsOK`),
  which path the request is on (`PathOK`), what the upstream may be asked for
  (`AskedOK`) and what is held (`ResourcesOK`: the body is closed before the client
  is released, and at the end nothing is held). The steps are grouped by the stages
  of `Execute`, one lemma each. `StreamOK` follows a reply that is passed
  on as it comes: whether it was sent all, or where its error is between the read or
  the write and the record. `RecordMatchesWire` needs both, and so does a result
  beyond the runs: such a reply that breaks off or times out is always recorded
  with an error (`StreamTimeoutsRecorded`), so that what `pipeline_timeout` shows is a
  matter of the buffer alone. Another is that every step leaves a request fewer steps (`RequestsAreFinite`, by the measure
  `StepsLeft`), which is the part of `Terminates` that needs no fairness.
- **AsyncLoggerProofs.** From `CapacityAssumption`, with any write failing. `LInv`:
  `InOrder`, where the
  writer and the closers stand relative to each other (`WriterOK`, `CloseOK`),
  and that accepted lines of a caller rise with the one on offer highest
  (`AcceptedOrder`). `CloseFlushes` follows since a returned Close implies an
  ended writer and an empty channel; `WritesWhileOpen` since a closed output
  implies an ended writer. `CallersCannotDelayClose` is the part of `CloseReturns` that
  needs no fairness: what is left to write once the channel is closed only shrinks.
- **ConfigurationProofs.** From `ConfigsAssumption`, for configurations with any
  number of keys, channels and rules. `CInv` says that the snapshot was compiled
  from a validated configuration; `PlanIsValid` that a plan from such a snapshot
  is accepted, because the rule compiled for a model is one of the configured
  ones (`RuleIsConfigured`); `KeysAttributed` uses that validation leaves one
  entry per key, and `PlansFollow` that a validated channel has one rule per model.
- **TranscriptProofs.** From `CaptureAssumption`, `ObservedAssumption` and
  `ResponsesAssumption`. `BInv` gives the contents of both buffers exactly
  (`Stretches`); its step rests on lemmas that adjacent stretches join (`BytesJoin`)
  and that the end of one is one (`BytesEnd`). `TranscriptImplementsCapture` carries
  this to the composition, where `UsageOK` says that the usage is what the text
  gives; that a line is whole in the text if and only if its bytes lie in the stretch
  decides `LastUsage` and `UsageNotLost`. For the file, `FInv` says that the parts of
  a line lie together, those of the line being written at the end (`LinesOK`), and
  that each part but a newline is followed by the next of its line unless that was
  cut short (`OrderOK`); `DamageLocal` reads the neighbours of a record off it, and
  `HistoryStays` needs only that the file grows at its end.
- **RequestRewritingProofs.** From `OpeningsAssumption`, `NamesAssumption`,
  `ExchangesAssumption` and `PoliciesAssumption`, for any conversations, documents and
  rules. `WInv` adds that without nested rules
  nobody is ever about to write to the snapshot (`KeptOK`), and that a conversation
  goes on from its opening, by whose first words all its requests were identified
  (`SessionsOK`). `HeadersOK` keeps what `PlanFollowed` proves of every order of the
  rules, and that a request under way has its identifier.
  `RewrittenAsIntended` needs three more parts. `SnapshotOK`: an object of the snapshot
  is as it was compiled except where a rule below it writes. `OrderOK`: a rule is done before
  those below it (`Turn`: among paths with rules above them there is a longest,
  `LongestPrefix`, found by well-founded induction on the gap, `LeastGap`). `DocumentsOK`:
  a leaf of a request under way is either in its own document or in an object that it
  links to, never in both (`Linked`, `Found`), and the leaves are those that the rules
  done so far ask for, `IntendedBy` of them (`Settled`). A rule applied to such a
  document gives one that is right for one rule more (`FoundAfter`, `DocumentAfter`,
  `SnapshotAfter`); with all of them done, resolving the links is `Intended`
  (`ResolvedIntended`). Without nested rules no step touches another request's
  documents; with them a request is followed only while it is the only one
  (`Private`), and what earlier requests left in the snapshot does no harm, because
  the same rules write the same leaves again before they are read.
- **PrivacyMappingsProofs.** From `SessionAssumption`, for any sessions,
  originals, placeholders and requests. `PInv` adds to the type invariant what
  the locals of a call hold at each point (`LocalsOK`), that what was shown has
  placeholders from detection on (`DetectedOK`), and, for a session that is not
  disturbed (`Steady`): it has at most one running request, what was examined in it
  has placeholders in the store, and the request builds on exactly these mappings. Nothing
  is assumed of the bodies; `SteadyMasked` holds because a request sends what has no
  placeholder in mappings that contain all that was examined. `StepKeeps` carries this
  over every step
  inside a call, `ReturnKeeps` over every end of one.

Only model-checked: liveness (`DrainingClosesEventually`, `Terminates`, `Flushes`,
`CloseReturns`), which like ENABLED is outside the prover's reach, and the properties
that the violation runs refute. Every safety property of the passing runs is proved.
Theorems without a run of their own (the refinement by the gateway, the measures of
`RequestsAreFinite` and `CallersCannotDelayClose`, `NewRequestsOnNewClients`,
`BrokenStreamRecorded`) have their statements next to their proofs.

## 5. Not modelled

- Inside the privacy processor: the masking library, the trusted model's prompts
  and answers, Redis, and how texts are found in a body.
- Rewriting when the body is not an object of the shapes the rules expect: which
  bodies are refused or panic is in `RequestPipeline`.
- The status map of a policy, and flushing in the fake-stream writer; that one
  status is written, and what follows when the converter fails before or after it,
  is in the pipeline.
- YAML and JSON parsing, files, the network, environment expansion, URL
  building, the random choice of a proxy, log levels and redaction, the SSE
  converter: data, I/O or a library.
- `logging/retention.go` (called by nobody), `max_idle_client_num` (validated,
  not used), tools and deployment files.
- That a goroutine which logs after Close panics is in the logger's model as an
  action; the program closes its logger nowhere, so no property forbids it.

## 6. The plan

Done: the pool and its abstraction, the gateway over it, the pipeline, body and
header rules and session identifiers, the configuration and planner, the transcript
from the captured bytes to the file, the logger, the privacy mappings; theorems for
all safety properties and for the refinements.

Next, in this order:

1. The status map, in `RequestPipeline`, with replies that must not have a body.
2. The configuration's remaining fields, as far as they interact: proxies and
   limits.
3. What holds of overlapping privacy requests: which of a session's originals stay
   masked when two of its requests save one after the other.
