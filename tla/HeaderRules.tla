---------------------------- MODULE HeaderRules ----------------------------
(***************************************************************************)
(* internal/pipeline/headers.go: what the header rules of a policy make of *)
(* the headers of a request or a reply.                                    *)
(*                                                                         *)
(* Headers are a function from canonical names to values.  The keys of     *)
(* rules.set are pairs of a name and a spelling of it, since the           *)
(* configuration may have two keys for one name; rules.delete holds names. *)
(***************************************************************************)

HopByHop == {"connection", "keep-alive", "proxy-authenticate", "proxy-authorization",
             "te", "trailer", "transfer-encoding", "upgrade"}

\* What a converted reply must not keep.
SkippedForStream == HopByHop \cup {"content-length", "content-encoding"}

Get(headers, name) == IF name \in DOMAIN headers THEN headers[name] ELSE <<"text", "">>
Without(headers, names) == [n \in DOMAIN headers \ names |-> headers[n]]

\* interpolateWithSession, for a value that is one variable or none.
Filled(template, origin, session) ==
    CASE template = <<"origin">> -> origin
      [] template = <<"session">> -> session
      [] OTHER -> template

SetNames(rules) == {key[1] : key \in DOMAIN rules.set}

\* The range over a map has any order: of the keys for one name any may be last.
LastKeys(rules) ==
    {last \in [SetNames(rules) -> DOMAIN rules.set] : \A n \in SetNames(rules) : last[n][1] = n}

\* ApplyHeaderPlanWithOriginAt, with everything it may leave.
\* (Mutant: ${ORIGIN} is what the deletions have left.)
ApplyHeaderPlanLate(headers, origin, rules, session) ==
    LET kept == Without(headers, rules.delete)
    IN  {[n \in DOMAIN kept \cup SetNames(rules) |->
             IF n \in SetNames(rules) THEN Filled(rules.set[last[n]], Get(kept, n), session)
                                      ELSE kept[n]] : last \in LastKeys(rules)}
ApplyHeaderPlan(headers, origin, rules, session) ==
    LET kept == Without(headers, rules.delete)
    IN  {[n \in DOMAIN kept \cup SetNames(rules) |->
             IF n \in SetNames(rules) THEN Filled(rules.set[last[n]], Get(origin, n), session)
                                      ELSE kept[n]] : last \in LastKeys(rules)}

\* ApplyRequestHeaders; a reply has no session.
RequestHeaders(headers, rules, session) ==
    ApplyHeaderPlan(Without(headers, HopByHop), headers, rules, session)

\* WriteUpstreamResponse, and newFakeStreamResponseWriter for a converted reply.
ResponseHeaders(headers, rules, converted) ==
    ApplyHeaderPlan(IF converted THEN Without(headers, SkippedForStream) ELSE headers,
                    headers, rules, <<"text", "">>)
=============================================================================
