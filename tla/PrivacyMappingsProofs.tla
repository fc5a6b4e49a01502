----------------------- MODULE PrivacyMappingsProofs -----------------------
(***************************************************************************)
(* Theorems about PrivacyMappings, for any number of sessions, originals   *)
(* and concurrent requests.                                                *)
(***************************************************************************)
EXTENDS PrivacyMappings, TLAPS

\* A call that has not begun or has returned has no local variables, and one
\* that has not saved yet owns no stored mappings.
Locals(p) ==
    /\ ~Active(p) => job[p] = NoJob /\ map[p] = Empty /\ ~hit[p]
    /\ pc[p] = "library" => map[p] = Empty /\ ~hit[p]
    /\ pc[p] # "upstream" => sent[p] = {}
    /\ ~job[p].user => job[p].latest = {}
    /\ hit[p] => HasSession(p)
    /\ pc[p] \in {"new", "library", "detect", "save"} => p \notin oneTime

LocalsOK == \A p \in Requests : Locals(p)

\* From its detection on, a request has a placeholder for all it has shown.
Detected(p) ==
    /\ pc[p] \in {"save", "rewrite", "upstream"} => Scanned(p) \subseteq DOMAIN map[p]
    /\ pc[p] = "upstream" => sent[p] = Texts(p) \ DOMAIN map[p]

DetectedOK == \A p \in Requests : Detected(p)

\* An undisturbed session has one request at a time, which builds on the
\* mappings it has loaded; what was examined in it has placeholders.
Builds(p, s) ==
    /\ pc[p] = "detect" => map[p] = store[s] /\ hit[p] = (DOMAIN store[s] # {})
    /\ pc[p] = "save" => \A x \in DOMAIN store[s] :
                            x \in DOMAIN map[p] /\ map[p][x] = store[s][x]
    /\ pc[p] \in {"rewrite", "upstream"} => map[p] = store[s]

Steady(s) ==
    /\ examined[s] \subseteq DOMAIN store[s]
    /\ \A p, q \in Requests :
          Active(p) /\ Active(q) /\ Session(p) = s /\ Session(q) = s => p = q
    /\ \A p \in Requests : Active(p) /\ Session(p) = s => Builds(p, s)

SteadyOK == \A s \in Sessions \ disturbed : Steady(s)

PInv == TypeOK /\ LocalsOK /\ MappingsOneToOne /\ DetectedOK /\ SteadyOK
-----------------------------------------------------------------------------
(* Mappings *)

\* No mappings are mappings.
LEMMA EmptyMapping == Empty \in Mappings /\ IsInjective(Empty) /\ DOMAIN Empty = {}
<1>1. DOMAIN Empty = {}
  BY DEF Empty
<1>2. Empty \in [{} -> Placeholders]
  BY DEF Empty
<1>3. Empty \in Mappings
  BY <1>2 DEF Mappings
<1>. QED
  BY <1>1, <1>3 DEF IsInjective

\* Merging extends one-to-one mappings by what was found.
LEMMA MergedMapping ==
    ASSUME NEW m \in Mappings, NEW found \in SUBSET Originals, NEW n \in Merged(m, found)
    PROVE  /\ n \in Mappings
           /\ IsInjective(n)
           /\ DOMAIN n = DOMAIN m \cup found
           /\ \A x \in DOMAIN m : n[x] = m[x]
<1>1. DOMAIN m \subseteq Originals
  BY DEF Mappings
<1>2. n \in [DOMAIN m \cup found -> Placeholders]
  BY DEF Merged
<1>3. n \in Mappings
  BY <1>1, <1>2 DEF Mappings
<1>. QED
  BY <1>2, <1>3 DEF Merged

-----------------------------------------------------------------------------
(* The invariant *)

\* newCompatibilityProcessor establishes it.
LEMMA PInit == Init => PInv
<1>. SUFFICES ASSUME Init PROVE PInv
  OBVIOUS
<1>. USE EmptyMapping DEF Init
<1>1. TypeOK
  BY SessionAssumption DEF TypeOK, NoJob, Jobs, Phases, Ended, HasSession, Session
<1>2. LocalsOK
  BY DEF LocalsOK, Locals, NoJob, Active
<1>3. MappingsOneToOne
  BY DEF MappingsOneToOne
<1>4. DetectedOK
  BY DEF DetectedOK, Detected
<1>5. SteadyOK
  BY DEF SteadyOK, Steady, Active
<1>. QED
  BY <1>1, <1>2, <1>3, <1>4, <1>5 DEF PInv

\* A request that begins in a session is alone in it, or disturbs it.
LEMMA BeginKeeps ==
    ASSUME PInv, NEW p \in Requests, NEW s \in Sessions \cup {NoSession},
           NEW texts \in SUBSET Originals, NEW user \in BOOLEAN,
           NEW latest \in SUBSET Originals, Begin(p, s, texts, user, latest)
    PROVE  PInv'
<1>. USE DEF PInv, Begin, Goto, Session
<1>a. /\ pc' = [pc EXCEPT ![p] = "library"]
      /\ job'[p] = [session |-> s, texts |-> texts, user |-> user, latest |-> latest]
      /\ \A q \in Requests \ {p} : job'[q] = job[q] /\ pc'[q] = pc[q]
      /\ pc'[p] = "library"
  BY DEF TypeOK
<1>b. pc[p] = "new" /\ ~Active(p) /\ p \notin oneTime
  BY DEF LocalsOK, Locals, Active
<1>c. \A q \in Requests : Active(q)' <=> q = p \/ Active(q)
  BY <1>a, <1>b DEF Active, Ended
<1>1. TypeOK'
  <2>1. job' \in [Requests -> Jobs]
    BY DEF TypeOK, Jobs
  <2>2. pc' \in [Requests -> Phases]
    BY DEF TypeOK, Phases
  <2>3. oneTime' \subseteq {q \in Requests : pc'[q] \in Ended \/ ~HasSession(q)'}
    BY <1>a, <1>b DEF TypeOK, HasSession
  <2>4. disturbed' \subseteq Sessions
    BY DEF TypeOK
  <2>. QED
    BY <2>1, <2>2, <2>3, <2>4 DEF TypeOK
<1>2. LocalsOK'
  <2>. SUFFICES ASSUME NEW q \in Requests
                PROVE  Locals(q)'
    BY DEF LocalsOK
  <2>1. Locals(q) /\ map'[q] = map[q] /\ hit'[q] = hit[q] /\ sent'[q] = sent[q]
    BY DEF LocalsOK
  <2>2. CASE q = p
    BY <1>a, <1>b, <1>c, <2>1, <2>2 DEF Locals
  <2>3. CASE q # p
    BY <1>a, <1>c, <2>1, <2>3 DEF Locals, HasSession
  <2>. QED
    BY <2>2, <2>3
<1>3. MappingsOneToOne'
  BY DEF MappingsOneToOne
<1>4. DetectedOK'
  BY <1>a DEF DetectedOK, Detected, Scanned, Texts
<1>5. SteadyOK'
  <2>. SUFFICES ASSUME NEW t \in Sessions, t \notin disturbed'
                PROVE  Steady(t)'
    BY DEF SteadyOK
  <2>1. t \notin disturbed /\ Steady(t)
    BY DEF SteadyOK
  <2>2. s = t => \A q \in Requests : ~(Active(q) /\ Session(q) = t)
    BY SessionAssumption
  <2>3. \A q \in Requests : Active(q)' /\ Session(q)' = t =>
           (q = p /\ s = t) \/ (q # p /\ Active(q) /\ Session(q) = t)
    BY <1>a, <1>c
  <2>. QED
    BY <1>a, <2>1, <2>2, <2>3 DEF Steady, Builds
<1>. QED
  BY <1>1, <1>2, <1>3, <1>4, <1>5

\* A call that returns takes its locals along and leaves what was stored.
LEMMA ReturnKeeps ==
    ASSUME PInv, NEW p \in Requests, Active(p), NEW how \in Ended, Return(p, how),
           UNCHANGED <<store, examined, disturbed>>, oneTime' \in {oneTime, oneTime \ {p}}
    PROVE  PInv'
<1>. USE EmptyMapping DEF PInv, Return, Goto
<1>a. /\ pc'[p] = how /\ job'[p] = NoJob /\ map'[p] = Empty /\ hit'[p] = FALSE /\ sent'[p] = {}
      /\ \A q \in Requests \ {p} : /\ job'[q] = job[q] /\ pc'[q] = pc[q] /\ map'[q] = map[q]
                                   /\ hit'[q] = hit[q] /\ sent'[q] = sent[q]
  BY DEF TypeOK
<1>c. \A q \in Requests : Active(q)' <=> q # p /\ Active(q)
  BY <1>a DEF Active
<1>1. TypeOK'
  <2>1. NoJob \in Jobs
    BY DEF NoJob, Jobs
  <2>3. oneTime' \subseteq {q \in Requests : pc'[q] \in Ended \/ ~HasSession(q)'}
    BY <1>a DEF TypeOK, HasSession, Session
  <2>4. /\ job' \in [Requests -> Jobs] /\ map' \in [Requests -> Mappings]
        /\ hit' \in [Requests -> BOOLEAN] /\ sent' \in [Requests -> SUBSET Originals]
        /\ pc' \in [Requests -> Phases]
    BY <2>1 DEF TypeOK, Phases
  <2>. QED
    BY <2>3, <2>4 DEF TypeOK
<1>2. LocalsOK'
  <2>. SUFFICES ASSUME NEW q \in Requests
                PROVE  Locals(q)'
    BY DEF LocalsOK
  <2>1. Locals(q)
    BY DEF LocalsOK
  <2>2. CASE q = p
    BY <1>a, <1>c, <2>2 DEF Locals, NoJob, Ended
  <2>3. CASE q # p
    BY <1>a, <1>c, <2>1, <2>3 DEF Locals, HasSession, Session
  <2>. QED
    BY <2>2, <2>3
<1>3. MappingsOneToOne'
  BY <1>a DEF MappingsOneToOne
<1>4. DetectedOK'
  BY <1>a DEF DetectedOK, Detected, Scanned, Texts, Ended
<1>5. SteadyOK'
  <2>. SUFFICES ASSUME NEW t \in Sessions, t \notin disturbed'
                PROVE  Steady(t)'
    BY DEF SteadyOK
  <2>1. t \notin disturbed /\ Steady(t)
    BY DEF SteadyOK
  <2>2. \A q \in Requests : Active(q)' /\ Session(q)' = t =>
           q # p /\ Active(q) /\ Session(q) = t
    BY <1>a, <1>c DEF Session
  <2>3. ASSUME NEW q \in Requests, Active(q)', Session(q)' = t
        PROVE  Builds(q, t)'
    <3>1. q # p /\ Builds(q, t)
      BY <2>1, <2>2, <2>3 DEF Steady
    <3>. QED
      BY <1>a, <3>1 DEF Builds
  <2>4. \A q, r \in Requests :
           Active(q)' /\ Active(r)' /\ Session(q)' = t /\ Session(r)' = t => q = r
    BY <2>1, <2>2 DEF Steady
  <2>. QED
    BY <2>1, <2>3, <2>4 DEF Steady
<1>. QED
  BY <1>1, <1>2, <1>3, <1>4, <1>5

\* A step of a running call changes its own locals, and in the store at most
\* the mappings of its session.
LEMMA StepKeeps ==
    ASSUME PInv, NEW p \in Requests, Active(p),
           NEW phase \in Phases \ ({"new"} \cup Ended), Goto(p, phase),
           UNCHANGED <<job, disturbed>>,
           \A q \in Requests \ {p} :
              map'[q] = map[q] /\ hit'[q] = hit[q] /\ sent'[q] = sent[q]
              /\ (q \in oneTime' <=> q \in oneTime),
           \A s \in Sessions \ {Session(p)} :
              store'[s] = store[s] /\ examined'[s] = examined[s],
           TypeOK', MappingsOneToOne', Locals(p)', Detected(p)',
           \A s \in Sessions \ disturbed : s = Session(p) =>
              Builds(p, s)' /\ examined'[s] \subseteq DOMAIN store'[s]
    PROVE  PInv'
<1>. USE DEF PInv, Goto
<1>a. /\ pc'[p] = phase
      /\ \A q \in Requests \ {p} : pc'[q] = pc[q]
      /\ \A q \in Requests : Session(q)' = Session(q)
  BY DEF TypeOK, Session
<1>b. \A q \in Requests : Active(q)' <=> Active(q)
  BY <1>a DEF Active
<1>1. LocalsOK'
  <2>. SUFFICES ASSUME NEW q \in Requests \ {p}
                PROVE  Locals(q)'
    BY DEF LocalsOK
  <2>1. Locals(q)
    BY DEF LocalsOK
  <2>. QED
    BY <1>a, <1>b, <2>1 DEF Locals, HasSession
<1>2. DetectedOK'
  <2>. SUFFICES ASSUME NEW q \in Requests \ {p}
                PROVE  Detected(q)'
    BY DEF DetectedOK
  <2>1. Detected(q)
    BY DEF DetectedOK
  <2>. QED
    BY <1>a, <2>1 DEF Detected, Scanned, Texts
<1>3. SteadyOK'
  <2>. SUFFICES ASSUME NEW t \in Sessions, t \notin disturbed
                PROVE  Steady(t)'
    BY DEF SteadyOK
  <2>1. Steady(t)
    BY DEF SteadyOK
  <2>2. examined'[t] \subseteq DOMAIN store'[t]
    BY <2>1 DEF Steady
  <2>3. ASSUME NEW q \in Requests, Active(q), Session(q) = t
        PROVE  Builds(q, t)'
    <3>1. CASE q = p
      BY <2>3, <3>1
    <3>2. CASE Session(p) # t
      <4>1. q # p /\ Builds(q, t) /\ store'[t] = store[t]
        BY <2>1, <2>3, <3>2 DEF Steady
      <4>. QED
        BY <1>a, <4>1 DEF Builds
    <3>. QED
      BY <2>1, <2>3, <3>1, <3>2 DEF Steady
  <2>4. \A q, r \in Requests :
           Active(q) /\ Active(r) /\ Session(q) = t /\ Session(r) = t => q = r
    BY <2>1 DEF Steady
  <2>. QED
    BY <1>a, <1>b, <2>2, <2>3, <2>4 DEF Steady
<1>. QED
  BY <1>1, <1>2, <1>3

\* The fallback starts from what the session has.
LEMMA LoadKeeps == ASSUME PInv, NEW p \in Requests, Load(p) PROVE PInv'
<1>. USE EmptyMapping DEF Load, Goto
<1>a. /\ pc'[p] = "detect" /\ pc[p] = "library" /\ Active(p)
      /\ map'[p] = IF HasSession(p) THEN store[Session(p)] ELSE Empty
      /\ hit'[p] = (HasSession(p) /\ DOMAIN store[Session(p)] # {})
  BY DEF PInv, TypeOK, Active, Ended
<1>b. HasSession(p) => Session(p) \in Sessions
  BY DEF PInv, TypeOK, HasSession, Session, Jobs
<1>c. Locals(p)
  BY DEF PInv, LocalsOK
<1>1. TypeOK'
  <2>1. map'[p] \in Mappings /\ hit'[p] \in BOOLEAN
    BY <1>a, <1>b DEF PInv, TypeOK
  <2>2. oneTime' \subseteq {q \in Requests : pc'[q] \in Ended \/ ~HasSession(q)'}
    BY <1>a, <1>c DEF PInv, TypeOK, HasSession, Session, Locals
  <2>. QED
    BY <2>1, <2>2 DEF PInv, TypeOK, Phases
<1>2. MappingsOneToOne'
  BY <1>a, <1>b DEF PInv, MappingsOneToOne, TypeOK
<1>3. Locals(p)'
  BY <1>a, <1>c DEF Locals, HasSession, Session, Active, Ended
<1>4. Detected(p)'
  BY <1>a DEF Detected
<1>5. \A s \in Sessions \ disturbed : s = Session(p) =>
         Builds(p, s)' /\ examined'[s] \subseteq DOMAIN store'[s]
  <2>. SUFFICES ASSUME Session(p) \in Sessions \ disturbed
                PROVE  /\ Builds(p, Session(p))'
                       /\ examined[Session(p)] \subseteq DOMAIN store[Session(p)]
    BY DEF Session
  <2>1. Steady(Session(p)) /\ HasSession(p)
    BY SessionAssumption DEF PInv, SteadyOK, HasSession
  <2>. QED
    BY <1>a, <2>1 DEF Steady, Builds, Session
<1>. QED
  BY <1>a, <1>1, <1>2, <1>3, <1>4, <1>5, StepKeeps DEF PInv, TypeOK, Phases, Ended

\* A cache hit without user text shows nothing.
LEMMA SkipKeeps == ASSUME PInv, NEW p \in Requests, Skip(p) PROVE PInv'
<1>. USE DEF Skip, Goto
<1>a. pc'[p] = "rewrite" /\ pc[p] = "detect" /\ Active(p) /\ hit[p] /\ ~job[p].user
  BY DEF PInv, TypeOK, Active, Ended, NothingNew
<1>b. Locals(p)
  BY DEF PInv, LocalsOK
<1>1. TypeOK'
  BY <1>a, <1>b DEF PInv, TypeOK, Phases, HasSession, Session, Locals
<1>2. MappingsOneToOne'
  BY DEF PInv, MappingsOneToOne
<1>3. Locals(p)' /\ HasSession(p) /\ job[p].latest = {}
  BY <1>a, <1>b DEF Locals, HasSession, Session, Active, Ended
<1>4. Detected(p)'
  BY <1>a, <1>3 DEF Detected, Scanned
<1>5. \A s \in Sessions \ disturbed : s = Session(p) =>
         Builds(p, s)' /\ examined'[s] \subseteq DOMAIN store'[s]
  BY <1>a DEF PInv, SteadyOK, Steady, Builds
<1>. QED
  BY <1>a, <1>1, <1>2, <1>3, <1>4, <1>5, StepKeeps DEF PInv, TypeOK, Phases, Ended

\* Detection extends what was loaded by what was shown.
LEMMA DetectKeeps == ASSUME PInv, NEW p \in Requests, Detect(p) PROVE PInv'
<1>. USE DEF Goto
<1>b. Locals(p) /\ job[p] \in Jobs /\ map[p] \in Mappings
  BY DEF PInv, LocalsOK, TypeOK
<1>c. Scanned(p) \in SUBSET Originals
  BY <1>b DEF Jobs, Scanned, Texts
<1>. PICK n \in Merged(map[p], Scanned(p)) : map' = [map EXCEPT ![p] = n]
  BY DEF Detect
<1>d. /\ n \in Mappings /\ IsInjective(n) /\ DOMAIN n = DOMAIN map[p] \cup Scanned(p)
      /\ \A x \in DOMAIN map[p] : n[x] = map[p][x]
  BY <1>b, <1>c, MergedMapping
<1>a. /\ pc[p] = "detect" /\ pc' = [pc EXCEPT ![p] = "save"]
      /\ UNCHANGED <<store, oneTime, job, hit, sent, examined, disturbed>>
      /\ pc'[p] = "save" /\ map'[p] = n /\ Active(p)
      /\ \A q \in Requests \ {p} : map'[q] = map[q]
  BY DEF Detect, PInv, TypeOK, Active, Ended
<1>1. TypeOK'
  <2>1. oneTime' \subseteq {q \in Requests : pc'[q] \in Ended \/ ~HasSession(q)'}
    BY <1>a, <1>b DEF PInv, TypeOK, HasSession, Session, Locals
  <2>. QED
    BY <1>a, <1>d, <2>1 DEF PInv, TypeOK, Phases
<1>2. MappingsOneToOne'
  BY <1>a, <1>d DEF PInv, MappingsOneToOne
<1>3. Locals(p)'
  BY <1>a, <1>b DEF Locals, HasSession, Session, Active, Ended
<1>4. Detected(p)'
  BY <1>a, <1>d DEF Detected, Scanned, Texts
<1>5. \A s \in Sessions \ disturbed : s = Session(p) =>
         Builds(p, s)' /\ examined'[s] \subseteq DOMAIN store'[s]
  <2>. SUFFICES ASSUME Session(p) \in Sessions \ disturbed
                PROVE  /\ Builds(p, Session(p))'
                       /\ examined[Session(p)] \subseteq DOMAIN store[Session(p)]
    BY <1>a DEF Session
  <2>1. Steady(Session(p))
    BY DEF PInv, SteadyOK
  <2>. QED
    BY <1>a, <1>d, <2>1 DEF Steady, Builds, Session
<1>. QED
  BY <1>a, <1>1, <1>2, <1>3, <1>4, <1>5, StepKeeps DEF PInv, TypeOK, Phases, Ended

\* What is saved in a steady session contains what the session had.
LEMMA SaveKeeps == ASSUME PInv, NEW p \in Requests, Save(p) PROVE PInv'
<1>. USE DEF Save, SaveWith, Goto
<1>a. /\ pc'[p] = "rewrite" /\ pc[p] = "save" /\ Active(p)
      /\ \A s \in Sessions : store'[s] = IF s = Session(p) THEN map[p] ELSE store[s]
  BY DEF PInv, TypeOK, Active, Ended
<1>b. Locals(p)
  BY DEF PInv, LocalsOK
<1>1. TypeOK'
  <2>1. oneTime' \subseteq {q \in Requests : pc'[q] \in Ended \/ ~HasSession(q)'}
    BY <1>a, <1>b DEF PInv, TypeOK, HasSession, Session, Locals
  <2>2. store' \in [Sessions -> Mappings]
    BY DEF PInv, TypeOK
  <2>3. examined' \in [Sessions -> SUBSET Originals]
    BY DEF PInv, TypeOK, Scanned, Texts, Jobs
  <2>. QED
    BY <1>a, <2>1, <2>2, <2>3 DEF PInv, TypeOK, Phases
<1>2. MappingsOneToOne'
  BY <1>a DEF PInv, MappingsOneToOne
<1>3. Locals(p)'
  BY <1>a, <1>b DEF Locals, HasSession, Session, Active, Ended
<1>4. Detected(p)'
  BY <1>a DEF PInv, DetectedOK, Detected, Scanned, Texts
<1>5. \A s \in Sessions \ disturbed : s = Session(p) =>
         Builds(p, s)' /\ examined'[s] \subseteq DOMAIN store'[s]
  <2>. SUFFICES ASSUME Session(p) \in Sessions \ disturbed
                PROVE  /\ Builds(p, Session(p))'
                       /\ examined[Session(p)] \cup Scanned(p) \subseteq DOMAIN map[p]
    BY <1>a DEF Session, PInv, TypeOK
  <2>1. Steady(Session(p)) /\ Scanned(p) \subseteq DOMAIN map[p]
    BY <1>a DEF PInv, SteadyOK, DetectedOK, Detected
  <2>. QED
    BY <1>a, <2>1 DEF Steady, Builds, Session
<1>. QED
  BY <1>a, <1>1, <1>2, <1>3, <1>4, <1>5, StepKeeps DEF PInv, TypeOK, Phases, Ended

\* The rewritten request has placeholders for all that the mappings know.
LEMMA SendKeeps == ASSUME PInv, NEW p \in Requests, Send(p) PROVE PInv'
<1>. USE DEF Send, Goto
<1>a. /\ pc'[p] = "upstream" /\ pc[p] = "rewrite" /\ Active(p)
      /\ sent'[p] = Texts(p) \ DOMAIN map[p]
      /\ \A q \in Requests \ {p} : sent'[q] = sent[q]
  BY DEF PInv, TypeOK, Active, Ended
<1>b. Locals(p) /\ job[p] \in Jobs
  BY DEF PInv, LocalsOK, TypeOK
<1>1. TypeOK'
  <2>1. oneTime' \subseteq {q \in Requests : pc'[q] \in Ended \/ ~HasSession(q)'}
    BY <1>a DEF PInv, TypeOK, HasSession, Session, Ended
  <2>2. sent' \in [Requests -> SUBSET Originals]
    BY <1>b DEF PInv, TypeOK, Jobs, Texts
  <2>. QED
    BY <1>a, <2>1, <2>2 DEF PInv, TypeOK, Phases
<1>2. MappingsOneToOne'
  BY DEF PInv, MappingsOneToOne
<1>3. Locals(p)'
  BY <1>a, <1>b DEF Locals, HasSession, Session, Active, Ended
<1>4. Detected(p)'
  BY <1>a DEF PInv, DetectedOK, Detected, Scanned, Texts
<1>5. \A s \in Sessions \ disturbed : s = Session(p) =>
         Builds(p, s)' /\ examined'[s] \subseteq DOMAIN store'[s]
  BY <1>a DEF PInv, SteadyOK, Steady, Builds
<1>. QED
  BY <1>a, <1>1, <1>2, <1>3, <1>4, <1>5, StepKeeps DEF PInv, TypeOK, Phases, Ended

\* Calls that return, on whichever path.
LEMMA ReturnsKeep ==
    ASSUME PInv, NEW p \in Requests, LibraryAnswers(p) \/ Fail(p) \/ Refuse(p) \/ Answer(p)
    PROVE  PInv'
<1>1. CASE LibraryAnswers(p)
  <2>1. Active(p) /\ Return(p, "answered") /\ disturbed' \subseteq Sessions
    BY <1>1 DEF LibraryAnswers, Active, Ended, PInv, TypeOK, Session, Jobs
  <2>. QED
    BY <1>1, <2>1, ReturnKeeps DEF LibraryAnswers, Ended
<1>2. CASE Fail(p)
  BY <1>2, ReturnKeeps DEF Fail, Ended, PInv, TypeOK
<1>3. CASE Refuse(p)
  <2>1. Active(p)
    BY <1>3 DEF Refuse, Active, Ended
  <2>. QED
    BY <1>3, <2>1, ReturnKeeps DEF Refuse, Ended, PInv, TypeOK
<1>4. CASE Answer(p)
  <2>1. Active(p)
    BY <1>4 DEF Answer, Active, Ended
  <2>. QED
    BY <1>4, <2>1, ReturnKeeps DEF Answer, Ended, PInv, TypeOK
<1>. QED
  BY <1>1, <1>2, <1>3, <1>4

\* Every step keeps the invariant.
LEMMA PNext == PInv /\ [Next]_vars => PInv'
<1>. SUFFICES ASSUME PInv, [Next]_vars PROVE PInv'
  OBVIOUS
<1>1. ASSUME NEW p \in Requests, Do(p) PROVE PInv'
  <2>1. CASE \E s \in Sessions \cup {NoSession}, texts, latest \in SUBSET Originals,
                user \in BOOLEAN : Begin(p, s, texts, user, latest)
    BY <2>1, BeginKeeps
  <2>2. CASE Compatibility(p)
    BY <2>2, LoadKeeps, SkipKeeps, DetectKeeps, SaveKeeps, SendKeeps, ReturnsKeep
       DEF Compatibility
  <2>3. CASE LibraryAnswers(p) \/ Fail(p)
    BY <2>3, ReturnsKeep
  <2>. QED
    BY <1>1, <2>1, <2>2, <2>3 DEF Do
<1>2. CASE UNCHANGED vars
  BY <1>2 DEF vars, PInv, TypeOK, LocalsOK, Locals, MappingsOneToOne, DetectedOK, Detected,
              SteadyOK, Steady, Builds, Active, Session, HasSession, Scanned, Texts
<1>. QED
  BY <1>1, <1>2 DEF Next

\* The variables keep their types and the inductive invariant holds.
THEOREM MappingsInvariant == Spec => []PInv
  BY PInit, PNext, PTL DEF Spec

\* Concurrent requests of a session never leave a placeholder that stands for
\* two originals.
THEOREM StoresOneToOne == Spec => []MappingsOneToOne
<1>1. PInv => MappingsOneToOne
  BY DEF PInv
<1>. QED
  BY <1>1, MappingsInvariant, PTL

\* What the trusted model was shown is masked in the request that was sent.
THEOREM ScannedMasked == Spec => []ScannedIsMasked
<1>1. PInv => ScannedIsMasked
  <2>. SUFFICES ASSUME PInv, NEW p \in Requests
                PROVE  sent[p] \cap job[p].latest = {} /\ (~hit[p] => sent[p] = {})
    BY DEF ScannedIsMasked
  <2>1. Locals(p) /\ Detected(p)
    BY DEF PInv, LocalsOK, DetectedOK
  <2>. QED
    BY <2>1 DEF Locals, Detected, Scanned, Texts
<1>. QED
  BY <1>1, MappingsInvariant, PTL

\* What the trusted model was once shown in a session whose requests came one
\* after the other is masked in all its later requests.
THEOREM SteadyMasked == Spec => []SteadySessionMasked
<1>1. PInv => SteadySessionMasked
  <2>. SUFFICES ASSUME PInv, NEW p \in Requests, Session(p) \in Sessions \ disturbed
                PROVE  sent[p] \cap examined[Session(p)] = {}
    BY DEF SteadySessionMasked
  <2>1. Locals(p) /\ Detected(p) /\ Steady(Session(p))
    BY DEF PInv, LocalsOK, DetectedOK, SteadyOK
  <2>2. CASE pc[p] = "upstream"
    <3>1. map[p] = store[Session(p)]
      BY <2>1, <2>2 DEF Steady, Builds, Active, Ended
    <3>. QED
      BY <2>1, <2>2, <3>1 DEF Detected, Steady
  <2>. QED
    BY <2>1, <2>2 DEF Locals
<1>. QED
  BY <1>1, MappingsInvariant, PTL

\* In such a session an original keeps its placeholder.
THEOREM SteadyPlaceholders == Spec => PlaceholdersStable
<1>. DEFINE Stable(s) == \A x \in DOMAIN store[s] :
                            x \in DOMAIN store'[s] /\ store'[s][x] = store[s][x]
<1>1. PInv /\ [Next]_vars => \A s \in Sessions \ disturbed : Stable(s)
  <2>. SUFFICES ASSUME PInv, [Next]_vars, NEW s \in Sessions \ disturbed
                PROVE  Stable(s)
    OBVIOUS
  <2>1. CASE UNCHANGED store
    BY <2>1
  <2>2. CASE \E p \in Requests : Save(p)
    <3>. PICK p \in Requests : Save(p)
      BY <2>2
    <3>1. pc[p] = "save" /\ store'[s] = IF s = Session(p) THEN map[p] ELSE store[s]
      BY DEF Save, SaveWith
    <3>2. Active(p) /\ Steady(s)
      BY <3>1 DEF PInv, SteadyOK, Active, Ended
    <3>. QED
      BY <3>1, <3>2 DEF Steady, Builds
  <2>. QED
    BY <2>1, <2>2 DEF Next, Do, Compatibility, vars, Begin, LibraryAnswers, Fail, Load, Skip,
                      Detect, Send, Refuse, Answer
<1>. QED
  BY <1>1, MappingsInvariant, PTL DEF Spec, PlaceholdersStable

\* An answered or refused request has left no mappings of its own.
THEOREM OneTimeGone == Spec => []OneTimeMappingsGone
<1>1. Init => OneTimeMappingsGone
  BY DEF Init, OneTimeMappingsGone
<1>2. PInv /\ OneTimeMappingsGone /\ [Next]_vars => OneTimeMappingsGone'
  <2>. SUFFICES ASSUME PInv, OneTimeMappingsGone, [Next]_vars,
                       NEW q \in Requests, pc'[q] \in {"answered", "refused"}
                PROVE  q \notin oneTime'
    BY DEF OneTimeMappingsGone
  <2>1. CASE UNCHANGED vars
    BY <2>1 DEF vars, OneTimeMappingsGone
  <2>2. ASSUME NEW p \in Requests, Do(p) PROVE q \notin oneTime'
    <3>1. CASE p = q
      <4>1. LibraryAnswers(p) \/ Refuse(p) \/ Answer(p)
        BY <2>2, <3>1 DEF Do, Compatibility, Begin, Fail, Load, Skip, Detect, Save, SaveWith,
                          Send, Return, Goto, Ended, PInv, TypeOK
      <4>. QED
        BY <3>1, <4>1 DEF LibraryAnswers, Refuse, Answer, PInv, LocalsOK, Locals
    <3>2. CASE p # q
      <4>1. pc'[q] = pc[q]
        BY <2>2, <3>2 DEF Do, Compatibility, LibraryAnswers, Begin, Fail, Load, Skip, Detect,
                          Save, SaveWith, Send, Refuse, Answer, Return, Goto, PInv, TypeOK
      <4>2. q \in oneTime' => q \in oneTime
        BY <2>2, <3>2 DEF Do, Compatibility, LibraryAnswers, Begin, Fail, Load, Skip, Detect,
                          Save, SaveWith, Send, Refuse, Answer
      <4>. QED
        BY <4>1, <4>2 DEF OneTimeMappingsGone
    <3>. QED
      BY <3>1, <3>2
  <2>. QED
    BY <2>1, <2>2 DEF Next
<1>. QED
  BY <1>1, <1>2, MappingsInvariant, PTL DEF Spec
=============================================================================
