--------------------------- MODULE Configuration ---------------------------
(***************************************************************************)
(* internal/config and internal/planner: from a decoded configuration to   *)
(* the execution plan of a request.                                        *)
(*                                                                         *)
(* LoadBytes fills defaults and validates, BuildSnapshot compiles, and for *)
(* a request serveProxy looks up the access key and the channel, finds the *)
(* model and selects the one policy that applies.                          *)
(*                                                                         *)
(* Of a policy the model keeps the timeout, the streaming mode and whether *)
(* it inserts a system prompt, the last one standing for every transform   *)
(* that validation does not relate to planning.                            *)
(***************************************************************************)
EXTENDS Integers, Sequences

CONSTANTS
    Keys,        \* access keys
    ShortKeys,   \* those of at most 8 bytes
    Labels,      \* tool labels
    Blank,       \* a label of white space
    Models,      \* model names
    NoModel,     \* the empty model name
    Malformed,   \* the model of a body that is no JSON object
    Channels,    \* channel names
    Configs,     \* decoded configurations
    Nil          \* no snapshot, request or outcome

Formats == {"openai", "anthropic", "gemini"}
DefaultLabel == "default"
DefaultTimeout == 120

Policies == [timeout : Int, stream : {"none", "ntos", "other"}, prompt : BOOLEAN]
Rules == [model : Models \cup {NoModel}, enabled : BOOLEAN, protect : BOOLEAN,
          policy : Policies]
ChannelConfigs == [enabled : BOOLEAN, protect : BOOLEAN, url : BOOLEAN,
                   format : Formats \cup {"other"}, policy : Policies, rules : Seq(Rules)]
Entries == [key : Keys, label : Labels]
IsConfig(c) ==
    /\ c = [accessKey |-> c.accessKey, accessKeys |-> c.accessKeys, timeout |-> c.timeout,
            privacy |-> c.privacy, channels |-> c.channels]
    /\ c.accessKey \in Keys /\ c.accessKeys \in Seq(Entries) /\ c.timeout \in Int
    /\ c.privacy \in {"none", "partial", "full"}
    /\ DOMAIN c.channels \subseteq Channels
    /\ c.channels \in [DOMAIN c.channels -> ChannelConfigs]

Requests == [key : Keys, channel : Channels, path : Models \cup {NoModel},
             body : Models \cup {NoModel, Malformed}]

\* What serveProxy answers instead of a plan.
Errors == {"authentication failed", "channel does not exist", "channel is disabled",
           "invalid request body", "request planning failed"}

ASSUME ConfigsAssumption ==
    /\ ShortKeys \subseteq Keys /\ Blank \in Labels /\ DefaultLabel \in Labels
    /\ NoModel \notin Models /\ Malformed \notin Models /\ NoModel # Malformed
    /\ \A c \in Configs : IsConfig(c)
    /\ Nil \notin Errors \cup {"planned"} \cup Requests

VARIABLES
    cfg,         \* the configuration as it was decoded
    state,       \* "decoded", "rejected" or "running"
    snapshot,    \* the compiled configuration
    request,     \* the last request
    outcome      \* its plan, or the error it was answered with

vars == <<cfg, state, snapshot, request, outcome>>

-----------------------------------------------------------------------------
(* Validate *)

\* No key is given twice, and no label within access_keys.
\* (Mutant: the list is not compared with access_key.)
DistinctInList(c) ==
    \A i, j \in DOMAIN c.accessKeys :
        i # j => /\ c.accessKeys[i].key # c.accessKeys[j].key
                 /\ c.accessKeys[i].label # c.accessKeys[j].label
Distinct(c) ==
    /\ \A i \in DOMAIN c.accessKeys : c.accessKeys[i].key # c.accessKey
    /\ \A i, j \in DOMAIN c.accessKeys :
          i # j => /\ c.accessKeys[i].key # c.accessKeys[j].key
                   /\ c.accessKeys[i].label # c.accessKeys[j].label

ValidKeys(c) ==
    /\ c.accessKey \notin ShortKeys
    /\ \A i \in DOMAIN c.accessKeys :
          c.accessKeys[i].key \notin ShortKeys /\ c.accessKeys[i].label # Blank
    /\ Distinct(c)

ValidPolicy(policy) == policy.timeout >= 0 /\ policy.stream # "other"

UniqueModels(rules) ==
    \A i, j \in DOMAIN rules : i # j => rules[i].model # rules[j].model

ValidChannel(ch) ==
    /\ ch.url /\ ch.format \in Formats
    /\ \A i \in DOMAIN ch.rules : ch.rules[i].model # NoModel /\ ValidPolicy(ch.rules[i].policy)
    /\ UniqueModels(ch.rules)
    /\ ValidPolicy(ch.policy)

\* Privacy is needed when any channel or any rule, enabled or not, asks for it.
\* (Mutant: rules are forgotten.)
PrivacyNeededByChannel(c) == \E name \in DOMAIN c.channels : c.channels[name].protect
PrivacyNeeded(c) ==
    \E name \in DOMAIN c.channels :
        LET ch == c.channels[name] IN
          ch.protect \/ \E i \in DOMAIN ch.rules : ch.rules[i].protect

Validate(c) ==
    /\ ValidKeys(c)
    /\ c.timeout > 0
    /\ DOMAIN c.channels # {}
    /\ \A name \in DOMAIN c.channels : ValidChannel(c.channels[name])
    /\ PrivacyNeeded(c) => c.privacy = "full"

FillDefaults(c) == [c EXCEPT !.timeout = IF @ = 0 THEN DefaultTimeout ELSE @]

-----------------------------------------------------------------------------
(* BuildSnapshot: later entries overwrite earlier ones of the same name *)

LastEntry(c, key) ==
    CHOOSE i \in DOMAIN c.accessKeys :
        /\ c.accessKeys[i].key = key
        /\ \A j \in DOMAIN c.accessKeys : j > i => c.accessKeys[j].key # key

AccessKeyLabels(c) ==
    [key \in {c.accessKey} \cup {c.accessKeys[i].key : i \in DOMAIN c.accessKeys} |->
        IF \E i \in DOMAIN c.accessKeys : c.accessKeys[i].key = key
        THEN c.accessKeys[LastEntry(c, key)].label
        ELSE DefaultLabel]

LastRule(rules, model) ==
    CHOOSE i \in DOMAIN rules :
        /\ rules[i].model = model
        /\ \A j \in DOMAIN rules : j > i => rules[j].model # model

ModelRules(rules) ==
    [model \in {rules[i].model : i \in DOMAIN rules} |-> rules[LastRule(rules, model)]]

BuildSnapshot(c) ==
    [labels |-> AccessKeyLabels(c), timeout |-> c.timeout, privacy |-> c.privacy # "none",
     channels |-> [name \in DOMAIN c.channels |->
                      [enabled |-> c.channels[name].enabled,
                       protect |-> c.channels[name].protect,
                       url |-> c.channels[name].url,
                       format |-> c.channels[name].format,
                       policy |-> c.channels[name].policy,
                       rules |-> ModelRules(c.channels[name].rules)]]]

-----------------------------------------------------------------------------
(* BuildExecutionPlan *)

ExtractModel(format, req) == IF format = "gemini" THEN req.path ELSE req.body

HasEnabledRule(ch, model) == model \in DOMAIN ch.rules /\ ch.rules[model].enabled

\* An enabled rule replaces the channel's policy, it does not add to it.
\* (Mutant: it adds to it, as src/README.md:152 has it: what the rule leaves
\* open is the channel's.)
PolicySourceAdded(ch, model) ==
    IF ~HasEnabledRule(ch, model) THEN ch
    ELSE [ch.rules[model] EXCEPT
             !.policy.timeout = IF @ = 0 THEN ch.policy.timeout ELSE @,
             !.policy.stream = IF @ = "none" THEN ch.policy.stream ELSE @,
             !.policy.prompt = @ \/ ch.policy.prompt]
PolicySource(ch, model) == IF HasEnabledRule(ch, model) THEN ch.rules[model] ELSE ch

SelectedTimeout(policy, snap) ==
    IF policy.timeout = 0 THEN snap.timeout ELSE policy.timeout

Plan(snap, req) ==
    LET ch == snap.channels[req.channel]
        source == PolicySource(ch, ExtractModel(ch.format, req)) IN
      [label |-> snap.labels[req.key],
       url |-> ch.url,
       format |-> ch.format,
       timeout |-> SelectedTimeout(source.policy, snap),
       stream |-> source.policy.stream,
       prompt |-> source.policy.prompt,
       protect |-> source.protect]

ValidatePlan(plan, snap) ==
    /\ plan.url /\ plan.format \in Formats
    /\ plan.timeout > 0
    /\ plan.stream # "other"
    /\ plan.protect => snap.privacy

\* serveProxy and mapPlannerError
Answer(snap, req) ==
    IF req.key \notin DOMAIN snap.labels THEN "authentication failed"
    ELSE IF req.channel \notin DOMAIN snap.channels THEN "channel does not exist"
    ELSE LET ch == snap.channels[req.channel] IN
      IF ~ch.enabled THEN "channel is disabled"
      ELSE IF ch.format # "gemini" /\ req.body = Malformed THEN "invalid request body"
      ELSE IF ~ValidatePlan(Plan(snap, req), snap) THEN "request planning failed"
      ELSE "planned"

-----------------------------------------------------------------------------
Init ==
    /\ cfg \in Configs
    /\ state = "decoded"
    /\ snapshot = Nil /\ request = Nil /\ outcome = Nil

\* LoadBytes, BuildSnapshot.
Load ==
    /\ state = "decoded"
    /\ LET c == FillDefaults(cfg) IN
         IF Validate(c) THEN state' = "running" /\ snapshot' = BuildSnapshot(c)
         ELSE state' = "rejected" /\ UNCHANGED snapshot
    /\ UNCHANGED <<cfg, request, outcome>>

Serve(req) ==
    /\ state = "running" /\ request = Nil
    /\ request' = req
    /\ outcome' = Answer(snapshot, req)
    /\ UNCHANGED <<cfg, state, snapshot>>

Next == Load \/ \E req \in Requests : Serve(req)

Spec == Init /\ [][Next]_vars

-----------------------------------------------------------------------------
(* Properties *)

\* Type invariant: only a configuration that was accepted has a snapshot.
TypeOK ==
    /\ state \in {"decoded", "rejected", "running"}
    /\ state = "running" <=> snapshot # Nil
    /\ request \in Requests \cup {Nil} /\ outcome \in Errors \cup {"planned", Nil}

\* What Validate accepts, ValidatePlan never refuses: no request to an enabled
\* channel fails because of a timeout, a mode or a missing privacy section.
NeverUnplannable == outcome # "request planning failed"

\* An access key is attributed to the entry that configures it.
KeysKeepTheirLabels ==
    state = "running" =>
        /\ snapshot.labels[cfg.accessKey] = DefaultLabel
        /\ \A i \in DOMAIN cfg.accessKeys :
              snapshot.labels[cfg.accessKeys[i].key] = cfg.accessKeys[i].label

\* A plan is made from one policy, whole: the rule's that the configuration
\* enables for the request's model, else the channel's.  What the rule leaves
\* open stays open, and a timeout it does not give is the runtime's default,
\* never the channel's.  So say select.go:42-43 and planner_test.go:56-66;
\* src/README.md:152 says that a rule adds to the channel's policy, which the
\* code does not do.
PlanFollowsConfig ==
    outcome = "planned" =>
        LET ch == cfg.channels[request.channel]
            plan == Plan(snapshot, request)
            default == FillDefaults(cfg).timeout
            made(source) ==
                /\ plan.protect = source.protect
                /\ plan.stream = source.policy.stream
                /\ plan.prompt = source.policy.prompt
                /\ plan.timeout = IF source.policy.timeout = 0 THEN default
                                  ELSE source.policy.timeout
            enabled == {i \in DOMAIN ch.rules :
                           /\ ch.rules[i].model = ExtractModel(ch.format, request)
                           /\ ch.rules[i].enabled}
        IN  IF enabled = {} THEN made(ch) ELSE \A i \in enabled : made(ch.rules[i])
=============================================================================
