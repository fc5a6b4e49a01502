-------------------------- MODULE RequestRewriting --------------------------
(***************************************************************************)
(* internal/pipeline: what the body and header rules of a policy make of   *)
(* the requests of several conversations and of their replies, and the     *)
(* session identifier each request gets.                                   *)
(*                                                                         *)
(* A JSON document is a function from the paths of its leaves to the       *)
(* leaves: text, numbers, lists, null and objects without members.  The    *)
(* values of the custom rules are documents too, written with the paths    *)
(* they have in the request.  compileRequestBody keeps a custom value that *)
(* is an object as it is, and applyCustom puts that very object into the   *)
(* request (a Link): whatever a later rule writes below it is written into *)
(* the snapshot, for all requests.                                         *)
(***************************************************************************)
EXTENDS Naturals, FiniteSets, SequencesExt, HeaderRules

CONSTANTS
    Conversations,   \* client conversations, each with one request at a time
    Openings,        \* what a conversation may begin with: sequences of messages
    Exchanges,       \* the rest of a request's document, its headers, and of the
                     \* reply its headers and whether it is converted to a stream
    Policies,        \* validated body and header rules
    UrlModel,        \* the model of a Gemini request, which stands in its URL
    Names,           \* what the members of objects are called
    Texts,           \* what messages and content blocks say
    MaxTurns         \* bound on the requests of a conversation

\* Messages are pairs of a role and a text.
Messages == {"system", "user", "assistant"} \X Texts
ASSUME OpeningsAssumption == Openings \subseteq Seq(Messages) /\ {"answer", "more"} \subseteq Texts

\* A path is a sequence of names; a leaf is not a Link, and a list has messages
\* or content blocks.
Paths == Seq(Names)
Blocks == Messages \cup ({"text"} \X Texts)
Link == <<"link">>
IsLeaf(value) == value # Link /\ (value[1] = "list" => Tail(value) \in Seq(Blocks))
ASSUME NamesAssumption ==
    {"model", "messages", "contents", "system", "systemInstruction", "parts", "max_tokens",
     "temperature", "generationConfig", "maxOutputTokens"} \subseteq Names

\* A document has its messages where its format has them, and no other list of
\* messages.
ASSUME ExchangesAssumption ==
    \A e \in Exchanges :
        /\ <<"messages">> \notin DOMAIN e.document /\ <<"contents">> \notin DOMAIN e.document
        /\ \A p \in DOMAIN e.document : p \in Paths /\ IsLeaf(e.document[p])

\* A custom value stands at its path or, if it is an object, below it.
ASSUME PoliciesAssumption ==
    \A r \in Policies :
        /\ r.format \in {"openai", "anthropic", "gemini"}
        /\ Link \notin {r.prompt, r.tokens, r.temperature}
        /\ \A m \in DOMAIN r.rewrite : r.rewrite[m] # Link
        /\ \A p \in DOMAIN r.custom :
              /\ p \in Paths
              /\ p \in DOMAIN r.custom[p] => DOMAIN r.custom[p] = {p}
              /\ \A q \in DOMAIN r.custom[p] :
                    q \in Paths /\ IsPrefix(p, q) /\ r.custom[p][q] # Link

VARIABLES
    policy,          \* the rules as configured
    snapshot,        \* the values of the custom rules in the runtime snapshot
    opening,         \* how each conversation began
    history,         \* its messages so far
    turn,            \* the requests it has sent
    pc,              \* where its request is
    original,        \* originalDocument of its request
    doc,             \* requestDocument of its request
    pending,         \* the custom rules yet to be applied
    writing,         \* the custom rule that is writing to a shared object
    sessions,        \* the session identifiers its requests got
    exchange,        \* its request's and its reply's inputs
    headers,         \* the headers sent upstream, and then those of the reply
    shared,          \* whether its request met another one on the way
    crashed          \* whether the runtime ended the process

request == <<pc, original, doc, pending, writing, exchange, headers, shared>>
conversation == <<opening, history, turn, sessions>>
vars == <<policy, snapshot, conversation, request, crashed>>

-----------------------------------------------------------------------------
(* Documents *)

None == <<>>
EmptyObject == <<"object">>
Leaf(path, value) == [p \in {path} |-> value]

\* The leaves at or below a path, and whether there is a value at all.
Below(d, path) == [p \in {q \in DOMAIN d : IsPrefix(path, q)} |-> d[p]]
Has(d, path) == DOMAIN Below(d, path) # {}

\* Assignment of a value to a path: what was there goes, and what stood in the
\* way of the path becomes an object.
Clear(d, path) == {p \in DOMAIN d : ~IsPrefix(path, p) /\ ~IsPrefix(p, path)}
Assign(d, path, value) ==
    [p \in Clear(d, path) \cup DOMAIN value |-> IF p \in DOMAIN value THEN value[p] ELSE d[p]]

IsList(value) == value[1] = "list"
Items(value) == Tail(value)

-----------------------------------------------------------------------------
(* The rules other than the custom ones *)

Gemini(r) == r.format = "gemini"
MessagesPath(r) == IF Gemini(r) THEN <<"contents">> ELSE <<"messages">>

\* ExtractModel, as far as model_rewrite needs it.
ModelName(r, d) ==
    IF Gemini(r) THEN UrlModel ELSE IF <<"model">> \in DOMAIN d THEN d[<<"model">>] ELSE None

\* applyModelRewrite: of a Gemini document only a model that is there.
Rewrites(r, d) ==
    ModelName(r, d) \in DOMAIN r.rewrite /\ (Gemini(r) => Has(d, <<"model">>))
ModelRewritten(r, d) ==
    IF Rewrites(r, d)
    THEN Assign(d, <<"model">>, Leaf(<<"model">>, r.rewrite[ModelName(r, d)]))
    ELSE d

PromptPath(r) ==
    CASE r.format = "openai" -> <<"messages">>
      [] r.format = "anthropic" -> <<"system">>
      [] Gemini(r) -> <<"systemInstruction", "parts">>
\* A message or content block with the text of a leaf.
Block(r, leaf) == <<IF r.format = "openai" THEN "system" ELSE "text", leaf[2]>>

\* applySystemPrompt refuses a value it cannot put a prompt in front of.
PromptFits(r, d) ==
    LET path == PromptPath(r)
    IN  \/ ~Has(d, path)
        \/ path \in DOMAIN d /\ (IsList(d[path]) \/ (r.format = "anthropic" /\ d[path][1] = "text"))

Prompted(r, d) ==
    LET path == PromptPath(r)
        block == Block(r, r.prompt)
        value == IF ~Has(d, path)
                 THEN IF r.format = "anthropic" THEN r.prompt ELSE <<"list", block>>
                 ELSE IF IsList(d[path]) THEN <<"list", block>> \o Items(d[path])
                 ELSE <<"list", block, Block(r, d[path])>>
    IN  IF r.prompt = None THEN d ELSE Assign(d, path, Leaf(path, value))

\* applyMaxTokens and applyTemperature
Configured(d, r, value, name, geminiName) ==
    LET path == IF Gemini(r) THEN <<"generationConfig", geminiName>> ELSE <<name>>
    IN  IF value = None THEN d ELSE Assign(d, path, Leaf(path, value))

\* TransformRequestBodyAt up to the custom rules.
Prepared(r, d) ==
    LET prompted == Prompted(r, ModelRewritten(r, d))
        limited == Configured(prompted, r, r.tokens, "max_tokens", "maxOutputTokens")
    IN  Configured(limited, r, r.temperature, "temperature", "temperature")

Refused(r, d) == r.prompt # None /\ ~PromptFits(r, ModelRewritten(r, d))

IsZero(r) ==
    /\ DOMAIN r.rewrite = {} /\ r.prompt = None /\ r.tokens = None /\ r.temperature = None
    /\ DOMAIN r.custom = {}

-----------------------------------------------------------------------------
(* The session identifier *)

\* Two seeds have the same hash only if they are the same.
Meaningful(message) == message[1] = "user" /\ message[2] # ""
FirstAmong(items, fits) ==
    IF fits = {} THEN None ELSE <<"seed", items[CHOOSE i \in fits : \A j \in fits : i <= j][2]>>

\* firstUserContent.
\* (Mutant: the first message, whoever wrote it.)
SeedFirst(items) == FirstAmong(items, {i \in DOMAIN items : items[i][2] # ""})
Seed(items) == FirstAmong(items, {i \in DOMAIN items : Meaningful(items[i])})

SeedAt(d, path) == IF path \in DOMAIN d /\ IsList(d[path]) THEN Seed(Items(d[path])) ELSE None

\* SessionIDFromBody: messages, then contents, then the whole body.
SessionID(d) ==
    IF SeedAt(d, <<"messages">>) # None THEN SeedAt(d, <<"messages">>)
    ELSE IF SeedAt(d, <<"contents">>) # None THEN SeedAt(d, <<"contents">>)
    ELSE <<"body", d>>

-----------------------------------------------------------------------------
(* The custom rules *)

IsObject(value, path) == path \notin DOMAIN value \/ value[path] = EmptyObject
Objects(r) == {p \in DOMAIN r.custom : IsObject(r.custom[p], p)}

\* bodyPathString: ${ORIGIN} is the text of what the client sent, JSON text if
\* that is a list or an object, and nothing if it is null or not there.
OriginText(d, path) ==
    CASE path \in DOMAIN d /\ d[path][1] \in {"text", "number"} -> <<"text", d[path][2]>>
      [] ~Has(d, path) \/ (path \in DOMAIN d /\ d[path][1] = "null") -> <<"text", "">>
      [] OTHER -> <<"json", Below(d, path)>>

\* interpolateCustomValue.
Interpolated(c, path) ==
    IF snapshot[path] = Leaf(path, <<"origin">>)
    THEN Leaf(path, OriginText(original[c], path)) ELSE snapshot[path]

\* What applyCustom stores: an object by reference.
Value(c, path) ==
    IF path \in Objects(policy) THEN Leaf(path, Link) ELSE Interpolated(c, path)

Longest(paths) == CHOOSE p \in paths : \A q \in paths : IsPrefix(q, p)

\* The snapshot's objects applyCustom passes on its way down a path.
Passed(c, path) ==
    {p \in Objects(policy) \ pending[c] : IsStrictPrefix(p, path)}

\* sortedCustomPaths puts a path before the paths below it; the order of the
\* others makes no difference, so it is left open.
\* (Mutant: the order of the map.)
MayApplyAny(c, path) == path \in pending[c]
MayApply(c, path) ==
    path \in pending[c] /\ \A p \in pending[c] : ~IsStrictPrefix(p, path)

\* The document json.Marshal finds: the links lead to the snapshot.
Resolved(c) ==
    LET shown(d) == {p \in DOMAIN d : d[p] # Link}
        linked == Objects(policy) \ pending[c]
        from(p) == CHOOSE q \in linked : p \in shown(snapshot[q])
    IN  [p \in shown(doc[c]) \cup UNION {shown(snapshot[q]) : q \in linked} |->
            IF p \in shown(doc[c]) THEN doc[c][p] ELSE snapshot[from(p)][p]]

InFlight(c) == pc[c] \in {"custom", "writing", "encoding"}

Init ==
    /\ policy \in Policies
    /\ snapshot = policy.custom
    /\ opening \in [Conversations -> Openings]
    /\ history = opening
    /\ turn = [c \in Conversations |-> 0]
    /\ sessions = [c \in Conversations |-> {}]
    /\ pc = [c \in Conversations |-> "idle"]
    /\ original = [c \in Conversations |-> None]
    /\ doc = [c \in Conversations |-> None]
    /\ pending = [c \in Conversations |-> {}]
    /\ writing = [c \in Conversations |-> None]
    /\ exchange = [c \in Conversations |-> None]
    /\ headers = [c \in Conversations |-> None]
    /\ shared = [c \in Conversations |-> FALSE]
    /\ crashed = FALSE

\* Execute and TransformRequestBodyAt up to the custom rules.
Receive(c, e) ==
    LET path == MessagesPath(policy)
        body == Assign(e.document, path, Leaf(path, <<"list">> \o history[c]))
    IN  /\ ~crashed /\ pc[c] = "idle" /\ turn[c] < MaxTurns
        /\ turn' = [turn EXCEPT ![c] = @ + 1]
        /\ sessions' = [sessions EXCEPT ![c] = @ \cup {SessionID(body)}]
        /\ original' = [original EXCEPT ![c] = body]
        /\ pc' = [pc EXCEPT ![c] = IF IsZero(policy) THEN "unchanged"
                                   ELSE IF Refused(policy, body) THEN "refused" ELSE "custom"]
        /\ doc' = [doc EXCEPT ![c] = IF pc'[c] = "custom" THEN Prepared(policy, body) ELSE body]
        /\ pending' = [pending EXCEPT ![c] = IF pc'[c] = "custom" THEN DOMAIN policy.custom ELSE {}]
        /\ exchange' = [exchange EXCEPT ![c] = e]
        /\ shared' = [d \in Conversations |->
                         IF d = c THEN \E o \in Conversations \ {c} : InFlight(o)
                                  ELSE shared[d] \/ InFlight(d)]
        /\ UNCHANGED <<policy, snapshot, opening, history, writing, headers, crashed>>

\* applyCustom within the request's own document, or as far as the write to an
\* object of the snapshot.
\* (Mutant: ${ORIGIN} is filled in where it stands, in the rule.)
ApplyInPlace(c, path) ==
    /\ ~crashed /\ pc[c] = "custom" /\ MayApply(c, path) /\ Passed(c, path) = {}
    /\ snapshot' = [snapshot EXCEPT ![path] = Interpolated(c, path)]
    /\ doc' = [doc EXCEPT ![c] = Assign(@, path, Value(c, path))]
    /\ pending' = [pending EXCEPT ![c] = @ \ {path}]
    /\ UNCHANGED <<policy, conversation, pc, original, writing, exchange, headers, shared, crashed>>
ApplyCustom(c, path) ==
    /\ ~crashed /\ pc[c] = "custom" /\ MayApply(c, path)
    /\ IF Passed(c, path) = {}
       THEN /\ doc' = [doc EXCEPT ![c] = Assign(@, path, Value(c, path))]
            /\ pending' = [pending EXCEPT ![c] = @ \ {path}]
            /\ UNCHANGED <<pc, writing>>
       ELSE /\ writing' = [writing EXCEPT ![c] = path]
            /\ pc' = [pc EXCEPT ![c] = "writing"]
            /\ UNCHANGED <<doc, pending>>
    /\ UNCHANGED <<policy, snapshot, conversation, original, exchange, headers, shared, crashed>>

\* The write itself.  The runtime may notice that another goroutine writes the
\* same map or reads it for json.Marshal, and then ends the process.
WriteShared(c) ==
    LET path == writing[c]
        object == Longest(Passed(c, path))
        noticed == \E d \in Conversations \ {c} :
                      \/ pc[d] = "encoding"
                      \/ pc[d] = "writing" /\ Longest(Passed(d, writing[d])) = object
    IN  /\ ~crashed /\ pc[c] = "writing"
        /\ snapshot' = [snapshot EXCEPT ![object] = Assign(@, path, Value(c, path))]
        /\ pending' = [pending EXCEPT ![c] = @ \ {path}]
        /\ writing' = [writing EXCEPT ![c] = None]
        /\ pc' = [pc EXCEPT ![c] = "custom"]
        /\ crashed' \in {FALSE, noticed}
        /\ UNCHANGED <<policy, conversation, original, doc, exchange, headers, shared>>

\* json.Marshal(requestDocument)
Encode(c) ==
    /\ ~crashed /\ pc[c] = "custom" /\ pending[c] = {}
    /\ pc' = [pc EXCEPT ![c] = "encoding"]
    /\ UNCHANGED <<policy, snapshot, conversation, original, doc, pending, writing, exchange,
                   headers, shared, crashed>>

\* The document is encoded, and the headers follow: the session identifier is
\* that of the body the client sent.
Send(c) ==
    /\ ~crashed /\ pc[c] \in {"encoding", "unchanged"}
    /\ doc' = [doc EXCEPT ![c] = IF pc[c] = "encoding" THEN Resolved(c) ELSE @]
    /\ \E h \in RequestHeaders(exchange[c].headers, policy.requestHeaders, SessionID(original[c])) :
          headers' = [headers EXCEPT ![c] = h]
    /\ pc' = [pc EXCEPT ![c] = "sent"]
    /\ UNCHANGED <<policy, snapshot, conversation, original, pending, writing, exchange, shared,
                   crashed>>

\* The reply is passed on.
Reply(c) ==
    /\ ~crashed /\ pc[c] = "sent"
    /\ \E h \in ResponseHeaders(exchange[c].reply, policy.responseHeaders, exchange[c].converted) :
          headers' = [headers EXCEPT ![c] = h]
    /\ pc' = [pc EXCEPT ![c] = "answered"]
    /\ doc' = [doc EXCEPT ![c] = None]
    /\ UNCHANGED <<policy, snapshot, conversation, original, pending, writing, exchange, shared,
                   crashed>>

\* The client goes on after the answer or the error.
Continue(c) ==
    /\ ~crashed /\ pc[c] \in {"answered", "refused"}
    /\ history' = [history EXCEPT ![c] =
                      IF pc[c] = "answered"
                      THEN @ \o <<<<"assistant", "answer">>, <<"user", "more">>>> ELSE @]
    /\ pc' = [pc EXCEPT ![c] = "idle"]
    /\ original' = [original EXCEPT ![c] = None]
    /\ doc' = [doc EXCEPT ![c] = None]
    /\ exchange' = [exchange EXCEPT ![c] = None]
    /\ headers' = [headers EXCEPT ![c] = None]
    /\ shared' = [shared EXCEPT ![c] = FALSE]
    /\ UNCHANGED <<policy, snapshot, opening, turn, sessions, pending, writing, crashed>>

Step(c) ==
    \/ \E e \in Exchanges : Receive(c, e)
    \/ \E path \in DOMAIN policy.custom : ApplyCustom(c, path)
    \/ WriteShared(c) \/ Encode(c) \/ Send(c) \/ Reply(c) \/ Continue(c)

Next == \E c \in Conversations : Step(c)

Spec == Init /\ [][Next]_vars

-----------------------------------------------------------------------------
(* Properties *)

\* Type invariant.
TypeOK ==
    /\ policy \in Policies
    /\ opening \in [Conversations -> Openings]
    /\ history \in [Conversations -> Seq(Messages)]
    /\ turn \in [Conversations -> Nat]
    /\ DOMAIN sessions = Conversations /\ DOMAIN original = Conversations
    /\ DOMAIN exchange = Conversations /\ DOMAIN headers = Conversations
    /\ DOMAIN doc = Conversations /\ DOMAIN writing = Conversations
    /\ shared \in [Conversations -> BOOLEAN]
    /\ pc \in [Conversations -> {"idle", "custom", "writing", "encoding", "unchanged", "sent",
                               "answered", "refused"}]
    /\ pending \in [Conversations -> SUBSET DOMAIN policy.custom]

\* No custom rule goes below another one whose value is an object.
Disjoint == \A p \in Objects(policy), q \in DOMAIN policy.custom : ~IsStrictPrefix(p, q)

\* The document a request should become by some of the custom rules: of those
\* that cover a leaf the most specific one decides, and a leaf no rule covers is
\* as the other rules left it, unless a rule needs an object in its place.
RuleValue(c, r) ==
    IF policy.custom[r] = Leaf(r, <<"origin">>)
    THEN Leaf(r, OriginText(original[c], r)) ELSE policy.custom[r]
Covering(rules, p) == {r \in rules : IsPrefix(r, p)}
Decided(c, rules, p) ==
    IF Covering(rules, p) = {} THEN Prepared(policy, original[c])
                               ELSE RuleValue(c, Longest(Covering(rules, p)))
IntendedBy(c, rules) ==
    LET leaves == DOMAIN Prepared(policy, original[c]) \cup UNION {DOMAIN RuleValue(c, r) : r \in rules}
        kept == {p \in leaves : /\ ~\E r \in rules : IsStrictPrefix(p, r)
                                /\ p \in DOMAIN Decided(c, rules, p)}
    IN  [p \in kept |-> Decided(c, rules, p)[p]]
Intended(c) == IntendedBy(c, DOMAIN policy.custom)

\* What goes upstream is the client's document with the rules applied, the
\* most specific rule winning and ${ORIGIN} standing for what the client sent;
\* if rules write into an object of the snapshot, this holds of the requests
\* that meet no other one.
RewrittenAsIntended ==
    \A c \in Conversations :
        pc[c] = "sent" /\ ~IsZero(policy) /\ (Disjoint \/ ~shared[c]) => doc[c] = Intended(c)

\* The headers that go out are those that came, without the dropped and the
\* deleted ones, and with the set ones, whatever the order of the rules: a rule
\* that sets wins over all that removes, and its ${ORIGIN} is the value that came,
\* also where the name is deleted, and its ${session_id} that of the client's body.
HeadersFollow(from, to, rules, dropped, session) ==
    \A n \in DOMAIN from \cup DOMAIN to \cup SetNames(rules) :
        LET setting == {key \in DOMAIN rules.set : key[1] = n}
        IN  IF setting # {}
            THEN /\ n \in DOMAIN to
                 /\ \E key \in setting : to[n] = Filled(rules.set[key], Get(from, n), session)
            ELSE IF n \in dropped \cup rules.delete THEN n \notin DOMAIN to
            ELSE n \in DOMAIN from /\ n \in DOMAIN to /\ to[n] = from[n]
HeadersAsIntended ==
    \A c \in Conversations :
        LET e == exchange[c]
        IN  /\ pc[c] = "sent" =>
                  \E session \in sessions[c] :
                      HeadersFollow(e.headers, headers[c], policy.requestHeaders, HopByHop, session)
            /\ pc[c] = "answered" =>
                  HeadersFollow(e.reply, headers[c], policy.responseHeaders,
                                IF e.converted THEN SkippedForStream ELSE {}, <<"text", "">>)

\* Unless a custom rule goes below another one's object, requests leave the
\* snapshot as it was compiled and never touch it at the same time.
SnapshotKept == Disjoint => snapshot = policy.custom /\ ~crashed

\* BuildSnapshot's promise: requests leave the snapshot as it was compiled.
SnapshotImmutable == snapshot = policy.custom

\* All requests of a conversation have the same session identifier, whatever
\* else changes between them, and two conversations share one only if their
\* users began with the same words; provided they began with words at all.
BeginsAt(items, i) ==
    Meaningful(items[i]) /\ \A j \in DOMAIN items : j < i => ~Meaningful(items[j])
SessionsFollowConversations ==
    \A c, d \in Conversations :
        \A i \in DOMAIN opening[c], j \in DOMAIN opening[d] :
            BeginsAt(opening[c], i) /\ BeginsAt(opening[d], j) =>
                \A s \in sessions[c], t \in sessions[d] :
                    s = t <=> opening[c][i][2] = opening[d][j][2]
=============================================================================
