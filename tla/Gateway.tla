------------------------------ MODULE Gateway ------------------------------
(***************************************************************************)
(* internal/router: proxy requests racing configuration reloads.           *)
(*                                                                         *)
(* A reload replaces three pieces of shared state one after the other:     *)
(* every pooled upstream client is marked draining, the handler's Privacy  *)
(* field is assigned, the new snapshot is stored.  Nothing serialises      *)
(* reloads.  A proxy request loads the snapshot first, plans with it, and  *)
(* reads Privacy and the pool later.                                       *)
(*                                                                         *)
(* Handler.Privacy is a Go interface, two machine words (type and data),   *)
(* read and written without synchronisation: each word is an access of its *)
(* own, in either order.  The pool is DrainingPool, whose atomic steps     *)
(* ClientPool implements.                                                  *)
(***************************************************************************)
EXTENDS Naturals, FiniteSets

CONSTANTS
    Configs,      \* validated configurations a reload may load
    InitConfig,   \* the configuration New started with
    HasPrivacy,   \* configurations with an llm_private_protect_config section
    Protected,    \* configurations whose plan for a request has LLMPrivateProtect
    KeyOf,        \* the pool key of the request's plan under each configuration
    Keys, ClientIds, Requests, Nil,     \* as in DrainingPool
    Reloads       \* reload calls, concurrent with one another

ASSUME ConfigAssumption ==
    /\ InitConfig \in Configs
    /\ HasPrivacy \subseteq Configs
    /\ Protected \subseteq HasPrivacy   \* Validate refuses the other configurations
    /\ KeyOf \in [Configs -> Keys]
    /\ Nil \notin ClientIds /\ Nil \notin Configs

VARIABLES
    store,        \* Handler.Store: the current snapshot's configuration
    privType,     \* Handler.Privacy, type word: TRUE for *LibraryProcessor
    privData,     \* Handler.Privacy, data word: the processor's configuration or Nil
    rpc,          \* where each reload is
    target,       \* the configuration each reload installs
    unwritten,    \* the words of Handler.Privacy each reload has yet to write
    before,       \* the clients that existed when each reload's build succeeded
    pc,           \* where each request is
    snap,         \* the snapshot each request loaded
    unread,       \* the words of Handler.Privacy each request has yet to read
    got,          \* the words it has read
    current, using, retired, born, \* the client pool
    bare,         \* (history) some accepted configuration had no privacy section
    alone,        \* (history) the running reloads that met no other one
    settled       \* (history) the last reload to store had met no other one

pool == <<current, using, retired, born>>
privacy == <<privType, privData>>
reloading == <<rpc, target, unwritten, before>>
requesting == <<pc, snap, unread, got>>
history == <<bare, alone, settled>>
vars == <<store, privacy, reloading, requesting, pool, history>>

\* Idle connections concern nobody outside the pool.
Pool == INSTANCE DrainingPool WITH warm <- {}

Words == {"type", "data"}

\* The interface value buildReloadSnapshot returns for a configuration.
\* (Mutant: it builds a processor only if a channel uses it.)
ProcessorTypeIfUsed(c) == c \in Protected
ProcessorType(c) == c \in HasPrivacy
ProcessorData(c) == IF c \in HasPrivacy THEN c ELSE Nil

\* Type invariant: the store always holds a snapshot, never a nil one.
TypeOK ==
    /\ store \in Configs
    /\ privType \in BOOLEAN /\ privData \in Configs \cup {Nil}
    /\ rpc \in [Reloads -> {"idle", "built", "marked", "assigned", "stored"}]
    /\ target \in [Reloads -> Configs \cup {Nil}]
    /\ unwritten \in [Reloads -> SUBSET Words]
    /\ before \in [Reloads -> SUBSET ClientIds]
    /\ pc \in [Requests -> {"idle", "planning", "piped", "masking", "upstream",
                            "misconfigured", "crashed"}]
    /\ snap \in [Requests -> Configs \cup {Nil}]
    /\ unread \in [Requests -> SUBSET Words]
    /\ got \in [Requests -> [type : BOOLEAN, data : Configs \cup {Nil}]]
    /\ current \in [Keys -> ClientIds \cup {Nil}]
    /\ using \in [Requests -> ClientIds \cup {Nil}]
    /\ retired \subseteq ClientIds /\ born \subseteq ClientIds
    /\ bare \in BOOLEAN /\ alone \subseteq Reloads /\ settled \in BOOLEAN

\* app.New: the snapshot and its processor are built together.
Init ==
    /\ store = InitConfig
    /\ privType = ProcessorType(InitConfig) /\ privData = ProcessorData(InitConfig)
    /\ rpc = [r \in Reloads |-> "idle"]
    /\ target = [r \in Reloads |-> Nil]
    /\ unwritten = [r \in Reloads |-> {}]
    /\ before = [r \in Reloads |-> {}]
    /\ pc = [p \in Requests |-> "idle"]
    /\ snap = [p \in Requests |-> Nil]
    /\ unread = [p \in Requests |-> {}]
    /\ got = [p \in Requests |-> [type |-> FALSE, data |-> Nil]]
    /\ Pool!PInit
    /\ bare = (InitConfig \notin HasPrivacy) /\ alone = {} /\ settled = TRUE

\* The reloads that may have changed some of the shared state and not all of it.
Busy == {r \in Reloads : rpc[r] \in {"marked", "assigned"}}

-----------------------------------------------------------------------------
(* Reload *)

\* buildReloadSnapshot succeeds with some configuration.  When it fails, or
\* the caller is refused, the reload ends here: a step that changes nothing.
ReloadBuild(r, c) ==
    /\ rpc[r] = "idle"
    /\ rpc' = [rpc EXCEPT ![r] = "built"]
    /\ target' = [target EXCEPT ![r] = c]
    /\ before' = [before EXCEPT ![r] = born]
    /\ bare' = (bare \/ c \notin HasPrivacy)
    /\ UNCHANGED <<store, privacy, unwritten, requesting, pool, alone, settled>>

\* (Mutant: the pool is left alone.)
ReloadMarkNothing(r) ==
    /\ rpc[r] = "built"
    /\ rpc' = [rpc EXCEPT ![r] = "marked"]
    /\ unwritten' = [unwritten EXCEPT ![r] = Words]
    /\ alone' = IF Busy = {} THEN {r} ELSE {}
    /\ UNCHANGED <<store, privacy, target, before, requesting, pool, bare, settled>>

\* h.Clients.MarkAllDraining()
ReloadMark(r) ==
    /\ rpc[r] = "built"
    /\ rpc' = [rpc EXCEPT ![r] = "marked"]
    /\ unwritten' = [unwritten EXCEPT ![r] = Words]
    /\ Pool!RetireAll
    /\ alone' = IF Busy = {} THEN {r} ELSE {}
    /\ UNCHANGED <<store, privacy, target, before, requesting, bare, settled>>

\* (Mutant: a nil processor is not assigned.)
WriteUnlessNil(c, word) ==
    IF c \notin HasPrivacy THEN UNCHANGED privacy
    ELSE IF word = "type" THEN privType' = TRUE /\ UNCHANGED privData
    ELSE privData' = c /\ UNCHANGED privType

\* h.Privacy = privacyProcessor, word by word.
Write(c, word) ==
    IF word = "type" THEN privType' = ProcessorType(c) /\ UNCHANGED privData
                     ELSE privData' = ProcessorData(c) /\ UNCHANGED privType

ReloadAssign(r, word) ==
    /\ rpc[r] = "marked" /\ word \in unwritten[r]
    /\ Write(target[r], word)
    /\ unwritten' = [unwritten EXCEPT ![r] = @ \ {word}]
    /\ rpc' = [rpc EXCEPT ![r] = IF unwritten'[r] = {} THEN "assigned" ELSE "marked"]
    /\ UNCHANGED <<store, target, before, requesting, pool, history>>

\* h.Store.Store(snapshot)
ReloadStore(r) ==
    /\ rpc[r] = "assigned"
    /\ store' = target[r]
    /\ rpc' = [rpc EXCEPT ![r] = "stored"]
    /\ settled' = (r \in alone) /\ alone' = alone \ {r}
    /\ UNCHANGED <<privacy, target, unwritten, before, requesting, pool, bare>>

\* The success response; the caller may reload again.
ReloadAnswer(r) ==
    /\ rpc[r] = "stored"
    /\ rpc' = [rpc EXCEPT ![r] = "idle"]
    /\ target' = [target EXCEPT ![r] = Nil]
    /\ before' = [before EXCEPT ![r] = {}]
    /\ UNCHANGED <<store, privacy, unwritten, requesting, pool, history>>

-----------------------------------------------------------------------------
(* Proxy requests *)

\* snapshotOrError; the request goes on to plan with this snapshot.
Load(p) ==
    /\ pc[p] = "idle"
    /\ snap' = [snap EXCEPT ![p] = store]
    /\ unread' = [unread EXCEPT ![p] = Words]
    /\ pc' = [pc EXCEPT ![p] = "planning"]
    /\ UNCHANGED <<store, privacy, reloading, got, pool, history>>

\* The goroutine ends; its slot serves the next request.
EndRequest(p) ==
    /\ pc' = [pc EXCEPT ![p] = "idle"]
    /\ snap' = [snap EXCEPT ![p] = Nil]
    /\ unread' = [unread EXCEPT ![p] = {}]
    /\ got' = [got EXCEPT ![p] = [type |-> FALSE, data |-> Nil]]

\* An unknown route, key or channel, a disabled channel, an unreadable body or
\* a planning error: all decided by the snapshot and the request alone.
Reject(p) ==
    /\ pc[p] = "planning" /\ unread[p] = Words
    /\ EndRequest(p)
    /\ UNCHANGED <<store, privacy, reloading, pool, history>>

\* BuildExecutionPlan accepted; h.pipeline() reads the Privacy field.
ReadPrivacy(p, word) ==
    /\ pc[p] = "planning" /\ word \in unread[p]
    /\ unread' = [unread EXCEPT ![p] = @ \ {word}]
    /\ got' = [got EXCEPT ![p] = IF word = "type" THEN [@ EXCEPT !.type = privType]
                                                  ELSE [@ EXCEPT !.data = privData]]
    /\ pc' = [pc EXCEPT ![p] = IF unread'[p] = {} THEN "piped" ELSE "planning"]
    /\ UNCHANGED <<store, privacy, reloading, snap, pool, history>>

\* The plan decides, not the processor.  (Mutant: both do.)
MustMaskIfAble(p) == snap[p] \in Protected /\ got[p].type
MustMask(p) == snap[p] \in Protected

\* executePrivacyProtectedRequest: Do through a processor, or with none.  A
\* type word without data is a nil *LibraryProcessor, whose Do panics.
Protect(p) ==
    /\ pc[p] = "piped" /\ MustMask(p)
    /\ pc' = [pc EXCEPT ![p] = IF ~got[p].type THEN "misconfigured"
                               ELSE IF got[p].data = Nil THEN "crashed"
                               ELSE "masking"]
    /\ UNCHANGED <<store, privacy, reloading, snap, unread, got, pool, history>>

\* The processor talks to the upstream itself, outside the client pool.
Masked(p) ==
    /\ pc[p] = "masking"
    /\ EndRequest(p)
    /\ UNCHANGED <<store, privacy, reloading, pool, history>>

\* The 5003 answer, or the aborted connection, ends the request.
Failed(p) ==
    /\ pc[p] \in {"misconfigured", "crashed"}
    /\ EndRequest(p)
    /\ UNCHANGED <<store, privacy, reloading, pool, history>>

\* executeDirectUpstreamRequest: Acquire the client of the plan's key.
Direct(p) ==
    /\ pc[p] = "piped" /\ ~MustMask(p)
    /\ Pool!Reuse(p, KeyOf[snap[p]]) \/ Pool!Create(p, KeyOf[snap[p]])
    /\ pc' = [pc EXCEPT ![p] = "upstream"]
    /\ UNCHANGED <<store, privacy, reloading, snap, unread, got, history>>

\* The response, or an upstream error, is passed on and the client released.
Release(p) ==
    /\ pc[p] = "upstream" /\ Pool!End(p)
    /\ EndRequest(p)
    /\ UNCHANGED <<store, privacy, reloading, history>>

-----------------------------------------------------------------------------
Reload(r) ==
    \/ \E c \in Configs : ReloadBuild(r, c)
    \/ ReloadMark(r)
    \/ \E word \in Words : ReloadAssign(r, word)
    \/ ReloadStore(r)
    \/ ReloadAnswer(r)

Request(p) ==
    \/ Load(p) \/ Reject(p)
    \/ \E word \in Words : ReadPrivacy(p, word)
    \/ Protect(p) \/ Masked(p) \/ Failed(p) \/ Direct(p) \/ Release(p)

Next == (\E r \in Reloads : Reload(r)) \/ (\E p \in Requests : Request(p))

Spec == Init /\ [][Next]_vars

-----------------------------------------------------------------------------
(* Properties *)

\* Whatever reloads do meanwhile, a request planned with privacy protection
\* never reaches the upstream through the unprotected path: it is masked,
\* refused, or lost.
NeverUnprotected ==
    \A p \in Requests : snap[p] \in Protected =>
        using[p] = Nil /\ pc[p] # "upstream"

\* Once a reload has marked, every client that existed when its configuration
\* was accepted is draining, and stays so.
ReloadRetiresExisting ==
    \A r \in Reloads : rpc[r] \in {"marked", "assigned", "stored"} =>
        before[r] \subseteq retired

Quiet == Busy = {}
Matching == privType = ProcessorType(store) /\ privData = ProcessorData(store)

\* After a reload that met no other one the handler's processor is the one of
\* the snapshot, both words of it, whatever reloads that did meet had left.
SerialReloadsMatch == Quiet /\ settled => Matching

\* router.go's comment on Privacy: with no reload under way the processor is
\* the one of the current snapshot.
ProcessorMatchesSnapshot == Quiet => Matching

\* As long as every configuration had a privacy section, no interleaving leaves
\* a protected request without a processor.
AlwaysAProcessor == ~bare => \A p \in Requests : pc[p] \notin {"misconfigured", "crashed"}
=============================================================================
