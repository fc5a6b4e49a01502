------------------------- MODULE MCRequestRewriting -------------------------
(* Small instances of RequestRewriting.  The custom rules of a policy are   *)
(* sets of pairs of a path and a value, with one value for a path.          *)
EXTENDS RequestRewriting, TLC

MCUrlModel == <<"text", "m1">>
NoFunction == [x \in {} |-> None]
a == <<"a">>
ab == <<"a", "b">>
abc == <<"a", "b", "c">>
Text(s) == <<"text", s>>

\* Values for custom rules: ${ORIGIN}, constants and objects along one path.
Nested == {
    <<a, Leaf(a, <<"origin">>)>>, <<a, Leaf(a, EmptyObject)>>, <<a, Leaf(ab, Text("x"))>>,
    <<ab, Leaf(ab, <<"origin">>)>>, <<ab, Leaf(abc, Text("y"))>>,
    <<abc, Leaf(abc, <<"origin">>)>>}

\* Values for the paths the other rules write to.
Overriding == {
    <<<<"messages">>, Leaf(<<"messages">>, <<"list">>)>>,
    <<<<"max_tokens">>, Leaf(<<"max_tokens">>, <<"origin">>)>>}

Customs(S) == {T \in SUBSET S : \A x, y \in T : x[1] = y[1] => x = y}
CustomOf(S) == [p \in {x[1] : x \in S} |-> (CHOOSE x \in S : x[1] = p)[2]]

NoHeaderRules == [set |-> NoFunction, delete |-> {}]
Plain(format, custom) ==
    [format |-> format, rewrite |-> NoFunction, prompt |-> None, tokens |-> None,
     temperature |-> None, custom |-> custom,
     requestHeaders |-> NoHeaderRules, responseHeaders |-> NoHeaderRules]
Full(format, custom) ==
    [Plain(format, custom) EXCEPT
        !.rewrite = Leaf(Text("m1"), Text("m2")), !.prompt = Text("prompt"),
        !.tokens = <<"number", "9">>, !.temperature = <<"number", "0.5">>]

\* Header rules: the session, the client's own value of a deleted header, one
\* name spelled twice, a name that is otherwise dropped.
Sending == [
    set |-> <<"session", "lower">> :> <<"session">> @@ <<"trace", "lower">> :> <<"origin">>,
    delete |-> {"trace", "user-agent"}]
Twice == [
    set |-> <<"trace", "lower">> :> Text("1") @@ <<"trace", "upper">> :> <<"origin">>
            @@ <<"connection", "lower">> :> Text("close"),
    delete |-> {"session"}]
Routed(format, onRequest, onReply) ==
    [Plain(format, NoFunction) EXCEPT !.requestHeaders = onRequest, !.responseHeaders = onReply]

Formats == {"openai", "anthropic", "gemini"}
MCPolicies ==
    {Full(format, NoFunction) : format \in Formats}
    \cup {Full("openai", CustomOf(S)) : S \in Customs(Overriding)}
    \cup {Plain("openai", CustomOf(S)) : S \in Customs(Nested)}
    \cup {Routed("openai", Sending, Twice), Routed("gemini", Twice, Sending)}

MCTexts == {"", "s", "u", "v", "answer", "more", "l", "t"}
MCNames == {
    "model", "messages", "contents", "system", "systemInstruction", "parts", "max_tokens",
    "temperature", "generationConfig", "maxOutputTokens", "a", "b", "c"}
MCOpenings == {
    <<<<"system", "s">>, <<"user", "u">>>>, <<<<"system", "s">>, <<"user", "v">>>>,
    <<<<"user", "">>>>}

\* A plain document, one with objects and lists, one with values of odd types;
\* headers with and without those the rules name; replies passed on or converted.
Exchange(document, header, reply, converted) ==
    [document |-> document, headers |-> header, reply |-> reply, converted |-> converted]
MCExchanges == {
    Exchange(Leaf(<<"model">>, Text("m1")), NoFunction, "content-length" :> Text("9"), FALSE),
    Exchange(
        Leaf(<<"model">>, Text("m1")) @@ Leaf(ab, <<"number", "7">>) @@ Leaf(<<"max_tokens">>, <<"number", "5">>)
            @@ Leaf(<<"system">>, Text("t")) @@ Leaf(<<"systemInstruction", "parts">>, <<"list", <<"text", "t">>>>),
        "trace" :> Text("t") @@ "session" :> Text("mine") @@ "connection" :> Text("keep-alive"),
        "trace" :> Text("r") @@ "content-encoding" :> Text("gzip") @@ "connection" :> Text("keep-alive"),
        TRUE),
    Exchange(
        Leaf(a, <<"list", <<"text", "l">>>>) @@ Leaf(<<"generationConfig">>, <<"null">>)
            @@ Leaf(<<"system">>, <<"null">>) @@ Leaf(<<"systemInstruction">>, Text("t")),
        "user-agent" :> Text("x") @@ "trace" :> Text("t"), "trace" :> Text("r"), FALSE)}
Symmetry == Permutations(Conversations)
=============================================================================
