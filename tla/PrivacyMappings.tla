-------------------------- MODULE PrivacyMappings --------------------------
(***************************************************************************)
(* internal/privacy: concurrent requests through a LibraryProcessor.       *)
(*                                                                         *)
(* Do hands a request to the masking library and, when the trusted model's *)
(* answer has a shape the library cannot read, to compatibilityProcessor,  *)
(* which has a store of its own.  It loads the mappings of the request's   *)
(* session, has the trusted model look for what is new (in the latest user *)
(* text alone once the session has mappings, else in every text), saves    *)
(* all mappings, masks the request and sends it.                           *)
(*                                                                         *)
(* Of a text the model keeps the originals in it that have to be masked.   *)
(* The library, the store, the trusted model and the protocols are         *)
(* external: the trusted model finds every original in what it is shown,   *)
(* merging its answer keeps mappings one-to-one or fails, loading copies,  *)
(* and the library's mappings are in a memory store of its own.            *)
(***************************************************************************)
EXTENDS Functions

CONSTANTS
    Sessions,      \* values of X-Privacy-Session-Id
    NoSession,     \* the empty session identifier
    Originals,     \* what has to be masked
    Placeholders,
    Requests       \* calls of Do, each made at most once

ASSUME SessionAssumption == NoSession \notin Sessions

VARIABLES
    store,         \* session mappings: store[s] maps originals to placeholders
    oneTime,       \* requests without a session whose mappings are stored
    pc,            \* the next thing a request does, or how it ended
    job,           \* its session, what its texts hold, and the latest user text if any
    map,           \* originalToPlaceholder
    hit,           \* cacheHit
    sent,          \* originals in what compatibilityProcessor sends upstream
    examined,      \* history: per session, the originals in what the trusted
                   \* model was shown by requests that went on to save
    disturbed      \* history: sessions with overlapping requests

vars == <<store, oneTime, pc, job, map, hit, sent, examined, disturbed>>

Empty == [x \in {} |-> x]
Mappings == UNION {[S -> Placeholders] : S \in SUBSET Originals}
Jobs == [session : Sessions \cup {NoSession}, texts : SUBSET Originals,
         user : BOOLEAN, latest : SUBSET Originals]
Ended == {"answered", "refused", "failed"}
Phases == {"new", "library", "detect", "save", "rewrite", "upstream"} \cup Ended

Session(p) == job[p].session
HasSession(p) == Session(p) # NoSession
Texts(p) == job[p].texts

\* Type invariant: one-time mappings belong to requests without a session.
TypeOK ==
    /\ store \in [Sessions -> Mappings]
    /\ pc \in [Requests -> Phases]
    /\ job \in [Requests -> Jobs]
    /\ map \in [Requests -> Mappings]
    /\ hit \in [Requests -> BOOLEAN]
    /\ sent \in [Requests -> SUBSET Originals]
    /\ oneTime \subseteq {p \in Requests : pc[p] \in Ended \/ ~HasSession(p)}
    /\ examined \in [Sessions -> SUBSET Originals]
    /\ disturbed \subseteq Sessions

NoJob == [session |-> NoSession, texts |-> {}, user |-> FALSE, latest |-> {}]

\* newCompatibilityProcessor: the store is empty.
Init ==
    /\ store = [s \in Sessions |-> Empty]
    /\ oneTime = {}
    /\ pc = [p \in Requests |-> "new"]
    /\ job = [p \in Requests |-> NoJob]
    /\ map = [p \in Requests |-> Empty]
    /\ hit = [p \in Requests |-> FALSE]
    /\ sent = [p \in Requests |-> {}]
    /\ examined = [s \in Sessions |-> {}]
    /\ disturbed = {}

Goto(p, phase) == pc' = [pc EXCEPT ![p] = phase]

\* The call returns, and with it go its local variables.
Return(p, how) ==
    /\ Goto(p, how)
    /\ job' = [job EXCEPT ![p] = NoJob]
    /\ map' = [map EXCEPT ![p] = Empty]
    /\ hit' = [hit EXCEPT ![p] = FALSE]
    /\ sent' = [sent EXCEPT ![p] = {}]

-----------------------------------------------------------------------------
(* A body holds any texts: of the user, the model, tools, the system prompt,  *)
(* repeated from requests that were answered, refused or failed, or new.      *)

Active(q) == pc[q] \notin {"new"} \cup Ended

Begin(p, s, texts, user, latest) ==
    /\ pc[p] = "new"
    /\ latest \subseteq texts
    /\ latest # {} => user
    /\ job' = [job EXCEPT ![p] = [session |-> s, texts |-> texts, user |-> user,
                                  latest |-> latest]]
    /\ disturbed' = IF \E q \in Requests : Active(q) /\ Session(q) = s
                    THEN disturbed \cup ({s} \ {NoSession}) ELSE disturbed
    /\ Goto(p, "library")
    /\ UNCHANGED <<store, oneTime, map, hit, sent, examined>>

-----------------------------------------------------------------------------
(* LibraryProcessor.Do *)

\* The library masks and sends the request, and keeps its mappings to itself.
LibraryAnswers(p) ==
    /\ pc[p] = "library"
    /\ Return(p, "answered")
    /\ UNCHANGED <<store, oneTime, examined, disturbed>>

-----------------------------------------------------------------------------
(* compatibilityProcessor.Do.  Every call of it can fail; the error paths    *)
(* return at once and leave what was stored.                                 *)

Fail(p) ==
    /\ Active(p)
    /\ Return(p, "failed")
    /\ UNCHANGED <<store, oneTime, examined, disturbed>>

\* shouldRetryWithCompatibilityFallback, and LoadSessionMappings as the first
\* thing the fallback does; a session without mappings is no cache hit.
Load(p) ==
    /\ pc[p] = "library"
    /\ map' = [map EXCEPT ![p] = IF HasSession(p) THEN store[Session(p)] ELSE Empty]
    /\ hit' = [hit EXCEPT ![p] = HasSession(p) /\ DOMAIN store[Session(p)] # {}]
    /\ Goto(p, "detect")
    /\ UNCHANGED <<store, oneTime, job, sent, examined, disturbed>>

\* A cache hit without user text: nothing is looked for, nothing saved.
\* (Mutant: the same for every cache hit.)
NothingNewCached(p) == hit[p]
NothingNew(p) == hit[p] /\ ~job[p].user

Skip(p) ==
    /\ pc[p] = "detect" /\ NothingNew(p)
    /\ Goto(p, "rewrite")
    /\ UNCHANGED <<store, oneTime, job, map, hit, sent, examined, disturbed>>

\* What the trusted model is shown: on a cache hit nothing but the latest user text.
Scanned(p) == IF hit[p] THEN job[p].latest ELSE Texts(p)

\* MergeMappings (external): known originals keep their placeholders, new ones
\* get unused ones.  (Mutant: the new answer replaces the old.)
MergedAnew(m, found) == {n \in [DOMAIN m \cup found -> Placeholders] : IsInjective(n)}
Merged(m, found) ==
    {n \in [DOMAIN m \cup found -> Placeholders] :
        IsInjective(n) /\ \A x \in DOMAIN m : n[x] = m[x]}

Detect(p) ==
    /\ pc[p] = "detect" /\ ~NothingNew(p)
    /\ \E n \in Merged(map[p], Scanned(p)) : map' = [map EXCEPT ![p] = n]
    /\ Goto(p, "save")
    /\ UNCHANGED <<store, oneTime, job, hit, sent, examined, disturbed>>

\* SaveSessionMappings replaces the session's mappings, SaveRequestMappings
\* keeps those of the request.
\* (Mutants: the mappings are added to what is there; only the first are saved.)
SaveWith(p, mappings) ==
    /\ pc[p] = "save"
    /\ store' = [s \in Sessions |-> IF s = Session(p) THEN mappings ELSE store[s]]
    /\ oneTime' = IF HasSession(p) THEN oneTime ELSE oneTime \cup {p}
    /\ examined' = [s \in Sessions |-> IF s = Session(p) THEN examined[s] \cup Scanned(p)
                                                       ELSE examined[s]]
    /\ Goto(p, "rewrite")
    /\ UNCHANGED <<job, map, hit, sent, disturbed>>
Added(m, n) == [x \in DOMAIN m \cup DOMAIN n |-> IF x \in DOMAIN m THEN m[x] ELSE n[x]]
SaveAdds(p) ==
    SaveWith(p, IF HasSession(p) THEN Added(map[p], store[Session(p)]) ELSE Empty)
SaveFirst(p) == SaveWith(p, IF hit[p] THEN store[Session(p)] ELSE map[p])
Save(p) == SaveWith(p, map[p])

\* RewriteRequest, ForceNonStream and the call: known originals are masked.
Send(p) ==
    /\ pc[p] = "rewrite"
    /\ sent' = [sent EXCEPT ![p] = Texts(p) \ DOMAIN map[p]]
    /\ Goto(p, "upstream")
    /\ UNCHANGED <<store, oneTime, job, map, hit, examined, disturbed>>

\* A reply that is no 2xx is passed on as it is.
\* (Mutant: the request's mappings are not deleted.)
RefuseKeeps(p) ==
    /\ pc[p] = "upstream"
    /\ Return(p, "refused")
    /\ UNCHANGED <<store, oneTime, examined, disturbed>>
Refuse(p) ==
    /\ pc[p] = "upstream"
    /\ oneTime' = oneTime \ {p}
    /\ Return(p, "refused")
    /\ UNCHANGED <<store, examined, disturbed>>

\* RewriteResponse, DeleteRequestMappings.
Answer(p) ==
    /\ pc[p] = "upstream"
    /\ oneTime' = oneTime \ {p}
    /\ Return(p, "answered")
    /\ UNCHANGED <<store, examined, disturbed>>

-----------------------------------------------------------------------------
Compatibility(p) ==
    Load(p) \/ Skip(p) \/ Detect(p) \/ Save(p) \/ Send(p) \/ Refuse(p) \/ Answer(p)

Do(p) ==
    \/ \E s \in Sessions \cup {NoSession}, texts, latest \in SUBSET Originals,
          user \in BOOLEAN : Begin(p, s, texts, user, latest)
    \/ LibraryAnswers(p) \/ Fail(p) \/ Compatibility(p)

Next == \E p \in Requests : Do(p)

Spec == Init /\ [][Next]_vars

-----------------------------------------------------------------------------
(* Properties *)

\* Whatever other requests save meanwhile, a request is sent without any
\* original that the trusted model was shown: none of its latest text, and none
\* at all when its session had no mappings.
ScannedIsMasked ==
    \A p \in Requests : sent[p] \cap job[p].latest = {} /\ (~hit[p] => sent[p] = {})

\* Saves replace one another whole, so concurrent requests of a session never
\* leave a placeholder that stands for two originals.
MappingsOneToOne ==
    /\ \A s \in Sessions : IsInjective(store[s])
    /\ \A p \in Requests : IsInjective(map[p])

\* In a session whose requests came one after the other, what the trusted model was once
\* shown is masked in every later request, wherever in its body it stands, and although
\* only the latest user text is looked at again.  So such a session sends an original
\* unmasked only if no request of it has had it examined: a text that is neither the
\* latest of the user's nor a repetition of one.
SteadySessionMasked ==
    \A p \in Requests : Session(p) \in Sessions \ disturbed =>
        sent[p] \cap examined[Session(p)] = {}

\* In such a session an original keeps its placeholder for good, so that the
\* upstream sees one consistent conversation.
PlaceholdersStable ==
    [][\A s \in Sessions \ disturbed : \A x \in DOMAIN store[s] :
          x \in DOMAIN store'[s] /\ store'[s][x] = store[s][x]]_vars

\* A request that was answered or refused leaves no mappings of its own.
OneTimeMappingsGone ==
    \A p \in Requests : pc[p] \in {"answered", "refused"} => p \notin oneTime

\* Nothing that has to be masked reaches the upstream.
NothingUnmasked == \A p \in Requests : sent[p] = {}
=============================================================================
