-------------------------- MODULE MCConfiguration --------------------------
EXTENDS Configuration, TLC

CONSTANTS k1, k2, short, tool, spaces, m1, m2, chA, chB

MCLabels == {tool, "default", spaces}

Plain == [timeout |-> 0, stream |-> "none", prompt |-> FALSE]
SomePolicies == {Plain, [Plain EXCEPT !.timeout = 5, !.stream = "ntos"],
                 [Plain EXCEPT !.prompt = TRUE],
                 [Plain EXCEPT !.timeout = -1], [Plain EXCEPT !.stream = "other"]}

SomeRules == [model : {m1, NoModel}, enabled : BOOLEAN, protect : BOOLEAN,
              policy : {Plain, [Plain EXCEPT !.stream = "ntos"]}]
RuleLists == {<<>>} \cup {<<r>> : r \in SomeRules}
             \cup {<<r, s>> : r, s \in {x \in SomeRules : x.model = m1}}

SomeChannels ==
    {[enabled |-> TRUE, protect |-> p, url |-> TRUE, format |-> f, policy |-> policy,
      rules |-> rules] : p \in BOOLEAN, f \in {"openai", "gemini"}, policy \in SomePolicies,
                         rules \in RuleLists}
    \cup {[enabled |-> e, protect |-> FALSE, url |-> u, format |-> f, policy |-> Plain,
           rules |-> <<>>] : e \in BOOLEAN, u \in BOOLEAN, f \in {"anthropic", "other"}}

Base == [accessKey |-> k1, accessKeys |-> <<>>, timeout |-> 0, privacy |-> "full",
         channels |-> [c \in {chA} |->
             [enabled |-> TRUE, protect |-> TRUE, url |-> TRUE, format |-> "openai",
              policy |-> Plain, rules |-> <<>>]]]

SomeEntries == [key : {k1, k2, short}, label : MCLabels]
EntryLists == {<<>>} \cup {<<a>> : a \in SomeEntries} \cup {<<a, b>> : a, b \in SomeEntries}

\* Every channel under every privacy section, and every list of access keys.
MCConfigs ==
    {[Base EXCEPT !.privacy = p, !.channels = [c \in {chA} |-> ch]] :
        p \in {"none", "partial", "full"}, ch \in SomeChannels}
    \cup {[Base EXCEPT !.accessKey = k, !.accessKeys = list] : k \in {k1, short}, list \in EntryLists}
    \cup {[Base EXCEPT !.timeout = t] : t \in {-1, 3}}
    \cup {[Base EXCEPT !.channels = <<>>]}
=============================================================================
