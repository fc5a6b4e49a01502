------------------------ MODULE ConfigurationProofs ------------------------
(***************************************************************************)
(* Proofs about Configuration, for any set of configurations: what passes  *)
(* Validate can be planned, and an access key keeps the label of its entry.*)
(***************************************************************************)
EXTENDS Configuration, TLAPS

\* A running server's snapshot was built from its validated configuration.
CInv ==
    /\ cfg \in Configs
    /\ state = "running" =>
          /\ Validate(FillDefaults(cfg))
          /\ snapshot = BuildSnapshot(FillDefaults(cfg))

\* The configuration is read and compiled once.
THEOREM CompiledFromValid == Spec => []CInv
  <1>1. Init => CInv  BY DEF Init, CInv
  <1>2. CInv /\ [Next]_vars => CInv'
    <2> SUFFICES ASSUME CInv, [Next]_vars PROVE CInv'  OBVIOUS
    <2> USE DEF CInv
    <2>1. CASE Load  BY <2>1 DEF Load
    <2>2. ASSUME NEW req \in Requests, Serve(req) PROVE CInv'  BY <2>2 DEF Serve
    <2>3. CASE UNCHANGED vars  BY <2>3 DEF vars
    <2> QED  BY <2>1, <2>2, <2>3 DEF Next
  <1> QED  BY <1>1, <1>2, PTL DEF Spec

\* FillDefaults touches the default timeout only.
LEMMA Filled ==
    ASSUME NEW c \in Configs
    PROVE  /\ FillDefaults(c).channels = c.channels
           /\ FillDefaults(c).accessKey = c.accessKey
           /\ FillDefaults(c).accessKeys = c.accessKeys
           /\ FillDefaults(c).privacy = c.privacy
           /\ FillDefaults(c).timeout \in Int
           /\ IsConfig(FillDefaults(c))
  <1> IsConfig(c)  BY ConfigsAssumption
  <1> QED  BY DEF IsConfig, FillDefaults, DefaultTimeout

\* Without duplicates, a model's rule in the snapshot is the one configured.
LEMMA RuleIsConfigured ==
    ASSUME NEW rules \in Seq(Rules), UniqueModels(rules), NEW model \in DOMAIN ModelRules(rules)
    PROVE  \E i \in DOMAIN rules : rules[i].model = model /\ ModelRules(rules)[model] = rules[i]
  <1>1. PICK i \in DOMAIN rules : rules[i].model = model  BY DEF ModelRules
  <1>2. \A j \in DOMAIN rules : j > i => rules[j].model # model
    BY <1>1 DEF UniqueModels
  <1>3. LastRule(rules, model) \in DOMAIN rules /\ rules[LastRule(rules, model)].model = model
    BY <1>1, <1>2 DEF LastRule
  <1> QED  BY <1>3 DEF ModelRules

\* Every source of a policy was validated, so its plan passes ValidatePlan.
LEMMA PlanIsValid ==
    ASSUME NEW c \in Configs, Validate(FillDefaults(c)), NEW req \in Requests,
           req.channel \in DOMAIN BuildSnapshot(FillDefaults(c)).channels
    PROVE  ValidatePlan(Plan(BuildSnapshot(FillDefaults(c)), req), BuildSnapshot(FillDefaults(c)))
  <1> DEFINE d == FillDefaults(c)
             snap == BuildSnapshot(d)
             ch == d.channels[req.channel]
             run == snap.channels[req.channel]
             model == ExtractModel(run.format, req)
             source == PolicySource(run, model)
  <1>1. IsConfig(d)  BY Filled
  <1>2. d.timeout > 0 /\ d.timeout \in Int  BY <1>1 DEF Validate, IsConfig
  <1>3. req.channel \in DOMAIN d.channels  BY DEF BuildSnapshot
  <1>4. ValidChannel(ch)  BY <1>3 DEF Validate
  <1>5. ch \in ChannelConfigs  BY <1>1, <1>3 DEF IsConfig
  <1>6. /\ run.policy = ch.policy /\ run.protect = ch.protect /\ run.url = ch.url
        /\ run.format = ch.format /\ run.rules = ModelRules(ch.rules)
    BY <1>3 DEF BuildSnapshot
  <1>7. snap.timeout = d.timeout /\ (snap.privacy <=> d.privacy # "none")
    BY DEF BuildSnapshot
  <1>8. \/ source = run
        \/ \E i \in DOMAIN ch.rules : source = ch.rules[i]
    <2>1. CASE HasEnabledRule(run, model)
      <3>1. model \in DOMAIN ModelRules(ch.rules)  BY <2>1, <1>6 DEF HasEnabledRule
      <3>2. ch.rules \in Seq(Rules) /\ UniqueModels(ch.rules)
        BY <1>4, <1>5 DEF ValidChannel, ChannelConfigs
      <3> QED  BY <2>1, <3>1, <3>2, <1>6, RuleIsConfigured DEF PolicySource
    <2>2. CASE ~HasEnabledRule(run, model)  BY <2>2 DEF PolicySource
    <2> QED  BY <2>1, <2>2
  <1>9. ValidPolicy(source.policy) /\ source.policy.timeout \in Int
    <2>1. CASE source = run  BY <2>1, <1>4, <1>5, <1>6 DEF ValidChannel, ChannelConfigs, Policies
    <2>2. ASSUME NEW i \in DOMAIN ch.rules, source = ch.rules[i]
          PROVE  ValidPolicy(source.policy) /\ source.policy.timeout \in Int
      <3>1. ch.rules[i] \in Rules  BY <1>5 DEF ChannelConfigs
      <3> QED  BY <2>2, <3>1, <1>4 DEF ValidChannel, Rules, Policies
    <2> QED  BY <2>1, <2>2, <1>8
  <1>10. source.protect => snap.privacy
    <2>1. source.protect => PrivacyNeeded(d)  BY <1>3, <1>6, <1>8 DEF PrivacyNeeded
    <2> QED  BY <2>1, <1>7 DEF Validate
  <1> HIDE DEF source, run, snap, d, ch, model
  <1>11. SelectedTimeout(source.policy, snap) > 0
    BY <1>2, <1>7, <1>9 DEF SelectedTimeout, ValidPolicy
  <1>12. run.url /\ run.format \in Formats  BY <1>4, <1>6 DEF ValidChannel
  <1>13. Plan(snap, req).timeout = SelectedTimeout(source.policy, snap)
         /\ Plan(snap, req).stream = source.policy.stream
         /\ Plan(snap, req).protect = source.protect
         /\ Plan(snap, req).url = run.url /\ Plan(snap, req).format = run.format
    BY DEF Plan, source, run, model
  <1>14. ValidatePlan(Plan(snap, req), snap)
    BY <1>9, <1>10, <1>11, <1>12, <1>13 DEF ValidatePlan, ValidPolicy
  <1> QED  BY <1>14 DEF snap, d

\* A request to a running server never fails in ValidatePlan.
THEOREM ValidMeansPlannable == Spec => []NeverUnplannable
  <1>1. Init => NeverUnplannable
    BY ConfigsAssumption DEF Init, NeverUnplannable, Errors
  <1>2. CInv /\ NeverUnplannable /\ [Next]_vars => NeverUnplannable'
    <2> SUFFICES ASSUME CInv, NeverUnplannable, [Next]_vars PROVE NeverUnplannable'
      OBVIOUS
    <2>1. CASE Load  BY <2>1 DEF Load, NeverUnplannable
    <2>2. ASSUME NEW req \in Requests, Serve(req) PROVE NeverUnplannable'
      <3>1. /\ cfg \in Configs /\ Validate(FillDefaults(cfg))
            /\ snapshot = BuildSnapshot(FillDefaults(cfg))
        BY <2>2 DEF CInv, Serve
      <3>2. req.channel \in DOMAIN snapshot.channels => ValidatePlan(Plan(snapshot, req), snapshot)
        BY <3>1, PlanIsValid
      <3> QED  BY <2>2, <3>2 DEF Serve, NeverUnplannable, Answer
    <2>3. CASE UNCHANGED vars  BY <2>3 DEF vars, NeverUnplannable
    <2> QED  BY <2>1, <2>2, <2>3 DEF Next
  <1> QED  BY <1>1, <1>2, CompiledFromValid, PTL DEF Spec

\* An access key is attributed to the entry that configures it.
THEOREM KeysAttributed == Spec => []KeysKeepTheirLabels
  <1>1. CInv => KeysKeepTheirLabels
    <2> DEFINE d == FillDefaults(cfg)
    <2> SUFFICES ASSUME CInv, state = "running" PROVE KeysKeepTheirLabels
      BY DEF KeysKeepTheirLabels
    <2>1. d.accessKey = cfg.accessKey /\ d.accessKeys = cfg.accessKeys  BY Filled DEF CInv
    <2>2. Distinct(d)  BY DEF CInv, Validate, ValidKeys
    <2>3. snapshot.labels = AccessKeyLabels(d)  BY DEF CInv, BuildSnapshot
    <2> HIDE DEF d
    <2>4. AccessKeyLabels(d)[d.accessKey] = DefaultLabel
      BY <2>2 DEF AccessKeyLabels, Distinct
    <2>5. ASSUME NEW i \in DOMAIN d.accessKeys
          PROVE  AccessKeyLabels(d)[d.accessKeys[i].key] = d.accessKeys[i].label
      <3> DEFINE key == d.accessKeys[i].key
      <3>1. \A j \in DOMAIN d.accessKeys : d.accessKeys[j].key = key => j = i
        BY <2>2 DEF Distinct
      <3>2. \A j \in DOMAIN d.accessKeys : j > i => d.accessKeys[j].key # key
        <4>1. DOMAIN d.accessKeys \subseteq Nat
          <5>1. d.accessKeys \in Seq(Entries)
            BY <2>1, ConfigsAssumption DEF CInv, IsConfig
          <5> QED  BY <5>1
        <4> QED  BY <3>1, <4>1
      <3>3. LastEntry(d, key) = i  BY <3>1, <3>2 DEF LastEntry
      <3> QED  BY <3>3 DEF AccessKeyLabels
    <2> QED  BY <2>1, <2>3, <2>4, <2>5 DEF KeysKeepTheirLabels
  <1> QED  BY <1>1, CompiledFromValid, PTL

\* A plan takes the policy of the model's enabled rule, or else the channel's.
LEMMA PlanFromSource ==
    ASSUME NEW c \in Configs, Validate(FillDefaults(c)), NEW req,
           req.channel \in DOMAIN BuildSnapshot(FillDefaults(c)).channels
    PROVE  LET ch == c.channels[req.channel]
               plan == Plan(BuildSnapshot(FillDefaults(c)), req)
               default == FillDefaults(c).timeout
               made(source) ==
                   /\ plan.protect = source.protect
                   /\ plan.stream = source.policy.stream
                   /\ plan.prompt = source.policy.prompt
                   /\ plan.timeout = IF source.policy.timeout = 0 THEN default
                                     ELSE source.policy.timeout
               enabled == {i \in DOMAIN ch.rules :
                              /\ ch.rules[i].model = ExtractModel(ch.format, req)
                              /\ ch.rules[i].enabled}
           IN  IF enabled = {} THEN made(ch) ELSE \A i \in enabled : made(ch.rules[i])
  <1> DEFINE d == FillDefaults(c)
             snap == BuildSnapshot(d)
             ch == c.channels[req.channel]
             run == snap.channels[req.channel]
             model == ExtractModel(ch.format, req)
             source == PolicySource(run, model)
             plan == Plan(snap, req)
             enabled == {i \in DOMAIN ch.rules : ch.rules[i].model = model /\ ch.rules[i].enabled}
  <1>1. d.channels = c.channels /\ IsConfig(d)  BY Filled
  <1>2. req.channel \in DOMAIN d.channels  BY DEF BuildSnapshot
  <1>3. ValidChannel(ch)  BY <1>1, <1>2 DEF Validate
  <1>4. ch.rules \in Seq(Rules) /\ UniqueModels(ch.rules)
    BY <1>1, <1>2, <1>3 DEF IsConfig, ChannelConfigs, ValidChannel
  <1>5. /\ run.policy = ch.policy /\ run.protect = ch.protect
        /\ run.format = ch.format /\ run.rules = ModelRules(ch.rules)
    BY <1>1, <1>2 DEF BuildSnapshot
  <1>6. /\ plan.protect = source.protect /\ plan.stream = source.policy.stream
        /\ plan.prompt = source.policy.prompt
        /\ plan.timeout = IF source.policy.timeout = 0 THEN d.timeout
                          ELSE source.policy.timeout
    BY <1>5 DEF Plan, SelectedTimeout, BuildSnapshot
  <1> HIDE DEF d, snap, ch, run, model, plan
  <1>7. ASSUME NEW i \in enabled PROVE source = ch.rules[i]
    <2>1. model \in DOMAIN ModelRules(ch.rules)  BY DEF ModelRules
    <2>2. PICK k \in DOMAIN ch.rules :
             ch.rules[k].model = model /\ ModelRules(ch.rules)[model] = ch.rules[k]
      BY <1>4, <2>1, RuleIsConfigured
    <2>3. k = i  BY <1>4, <2>2 DEF UniqueModels
    <2> QED  BY <1>5, <2>1, <2>2, <2>3 DEF PolicySource, HasEnabledRule
  <1>8. ASSUME enabled = {} PROVE source = run
    <2>1. ASSUME HasEnabledRule(run, model) PROVE FALSE
      <3>1. model \in DOMAIN ModelRules(ch.rules) /\ ModelRules(ch.rules)[model].enabled
        BY <1>5, <2>1 DEF HasEnabledRule
      <3>2. PICK k \in DOMAIN ch.rules :
               ch.rules[k].model = model /\ ModelRules(ch.rules)[model] = ch.rules[k]
        BY <1>4, <3>1, RuleIsConfigured
      <3> QED  BY <1>8, <3>1, <3>2
    <2> QED  BY <2>1 DEF PolicySource
  <1> HIDE DEF source
  <1> DEFINE made(s) == /\ plan.protect = s.protect
                        /\ plan.stream = s.policy.stream
                        /\ plan.prompt = s.policy.prompt
                        /\ plan.timeout = IF s.policy.timeout = 0 THEN d.timeout
                                          ELSE s.policy.timeout
  <1>9. (enabled = {} => made(ch)) /\ \A i \in enabled : made(ch.rules[i])
    BY <1>5, <1>6, <1>7, <1>8
  <1> QED  BY <1>9 DEF plan, snap, d, ch, model

\* A request that is planned was one to a running server and a known channel.
PInv ==
    outcome = "planned" =>
        state = "running" /\ request.channel \in DOMAIN snapshot.channels

\* A plan is made from one policy, whole: that of the rule the configuration
\* enables for its model, or else the channel's.
THEOREM PlansFollow == Spec => []PlanFollowsConfig
  <1>1. Init => PInv  BY ConfigsAssumption DEF Init, PInv, Errors
  <1>2. PInv /\ [Next]_vars => PInv'
    <2> SUFFICES ASSUME PInv, [Next]_vars PROVE PInv'  OBVIOUS
    <2>1. CASE Load  BY <2>1 DEF Load, PInv
    <2>2. ASSUME NEW req \in Requests, Serve(req) PROVE PInv'
      BY <2>2 DEF Serve, PInv, Answer
    <2>3. CASE UNCHANGED vars  BY <2>3 DEF vars, PInv
    <2> QED  BY <2>1, <2>2, <2>3 DEF Next
  <1>3. CInv /\ PInv => PlanFollowsConfig
    <2> SUFFICES ASSUME CInv, PInv, outcome = "planned" PROVE PlanFollowsConfig
      BY DEF PlanFollowsConfig
    <2>1. /\ cfg \in Configs /\ Validate(FillDefaults(cfg))
          /\ snapshot = BuildSnapshot(FillDefaults(cfg))
          /\ request.channel \in DOMAIN snapshot.channels
      BY DEF CInv, PInv
    <2> QED  BY <2>1, PlanFromSource DEF PlanFollowsConfig
  <1> QED  BY <1>1, <1>2, <1>3, CompiledFromValid, PTL DEF Spec
=============================================================================
