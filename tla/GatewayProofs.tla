--------------------------- MODULE GatewayProofs ---------------------------
(***************************************************************************)
(* Proofs about Gateway, for any configurations, reloads and requests: a   *)
(* request that must be masked never takes the direct path, a reload       *)
(* retires every client that existed before it, however reloads race, and  *)
(* reloads that do not race leave the processor of their snapshot.         *)
(***************************************************************************)
EXTENDS Gateway, TLAPS

\* A reload between its build and its answer has a configuration to install.
ReloadOK == \A r \in Reloads : rpc[r] # "idle" => target[r] \in Configs

\* A request has a snapshot from Load on, and a client exactly while it is
\* upstream, which only a request that need not be masked can be.
RequestOK ==
    \A p \in Requests :
        /\ pc[p] # "idle" => snap[p] \in Configs
        /\ using[p] # Nil => pc[p] = "upstream"
        /\ pc[p] = "upstream" => snap[p] \notin Protected

\* A client leaves the pool's map only once it is retired.
PoolOK ==
    /\ \A k \in Keys : current[k] # Nil => current[k] \in born
    /\ \A c \in born : c \in retired \/ \E k \in Keys : current[k] = c
    /\ \A r \in Reloads : before[r] \subseteq born

GInv == TypeOK /\ ReloadOK /\ RequestOK /\ PoolOK /\ ReloadRetiresExisting

\* app.New establishes it.
LEMMA GInit == Init => GInv
  <1> SUFFICES ASSUME Init PROVE GInv  OBVIOUS
  <1> USE ConfigAssumption DEF Init, Pool!PInit
  <1>1. TypeOK  BY DEF TypeOK, ProcessorType, ProcessorData
  <1>2. ReloadOK /\ RequestOK /\ PoolOK /\ ReloadRetiresExisting
    BY DEF ReloadOK, RequestOK, PoolOK, ReloadRetiresExisting
  <1> QED  BY <1>1, <1>2 DEF GInv

\* A reload disturbs no request.
LEMMA ReloadKeeps ==
    ASSUME GInv, NEW r \in Reloads, Reload(r)
    PROVE  GInv'
  <1> USE ConfigAssumption DEF GInv, pool, requesting, privacy, history
  <1>1. ASSUME NEW c \in Configs, ReloadBuild(r, c) PROVE GInv'
    <2> USE <1>1 DEF ReloadBuild
    <2>1. TypeOK'  BY DEF TypeOK
    <2>2. ReloadOK' /\ RequestOK'  BY DEF TypeOK, ReloadOK, RequestOK
    <2>3. PoolOK'  BY DEF TypeOK, PoolOK
    <2>4. ReloadRetiresExisting'  BY DEF TypeOK, ReloadRetiresExisting
    <2> QED  BY <2>1, <2>2, <2>3, <2>4
  <1>2. CASE ReloadMark(r)
    <2> USE <1>2 DEF ReloadMark, Pool!RetireAll
    <2>1. TypeOK'  BY DEF TypeOK, Words
    <2>2. ReloadOK' /\ RequestOK'  BY DEF TypeOK, ReloadOK, RequestOK
    <2>3. PoolOK'  BY DEF TypeOK, PoolOK
    <2>4. born \subseteq retired'  BY DEF TypeOK, PoolOK
    <2>5. ReloadRetiresExisting'  BY <2>4 DEF TypeOK, PoolOK, ReloadRetiresExisting
    <2> QED  BY <2>1, <2>2, <2>3, <2>5
  <1>3. ASSUME NEW word \in Words, ReloadAssign(r, word) PROVE GInv'
    <2> USE <1>3 DEF ReloadAssign
    <2>1. target[r] \in Configs  BY DEF ReloadOK
    <2>2. privType' \in BOOLEAN /\ privData' \in Configs \cup {Nil}
      <3>1. CASE word = "type"
        <4>1. privType' = (target[r] \in HasPrivacy) /\ privData' = privData
          BY <3>1 DEF Write, ProcessorType
        <4> QED  BY <4>1 DEF TypeOK
      <3>2. CASE word # "type"
        <4>1. privData' = ProcessorData(target[r]) /\ privType' = privType
          BY <3>2 DEF Write
        <4> QED  BY <2>1, <4>1 DEF TypeOK, ProcessorData
      <3> QED  BY <3>1, <3>2
    <2>3. TypeOK'  BY <2>2 DEF TypeOK
    <2>4. ReloadOK' /\ RequestOK'  BY DEF TypeOK, ReloadOK, RequestOK
    <2>5. PoolOK' /\ ReloadRetiresExisting'  BY DEF TypeOK, PoolOK, ReloadRetiresExisting
    <2> QED  BY <2>3, <2>4, <2>5
  <1>4. CASE ReloadStore(r)
    <2> USE <1>4 DEF ReloadStore
    <2>1. TypeOK'  BY DEF TypeOK, ReloadOK
    <2>2. ReloadOK' /\ RequestOK'  BY DEF TypeOK, ReloadOK, RequestOK
    <2>3. PoolOK' /\ ReloadRetiresExisting'  BY DEF TypeOK, PoolOK, ReloadRetiresExisting
    <2> QED  BY <2>1, <2>2, <2>3
  <1>5. CASE ReloadAnswer(r)
    <2> USE <1>5 DEF ReloadAnswer
    <2>1. TypeOK'  BY DEF TypeOK
    <2>2. ReloadOK' /\ RequestOK'  BY DEF TypeOK, ReloadOK, RequestOK
    <2>3. PoolOK' /\ ReloadRetiresExisting'  BY DEF TypeOK, PoolOK, ReloadRetiresExisting
    <2> QED  BY <2>1, <2>2, <2>3
  <1> QED  BY <1>1, <1>2, <1>3, <1>4, <1>5 DEF Reload

\* A request disturbs no reload.
LEMMA RequestKeeps ==
    ASSUME GInv, NEW p \in Requests, Request(p)
    PROVE  GInv'
  <1> USE ConfigAssumption DEF GInv, pool, reloading, privacy, history
  <1>1. CASE Load(p)
    <2> USE <1>1 DEF Load
    <2>1. TypeOK'  BY DEF TypeOK, Words
    <2>2. ReloadOK' /\ RequestOK'  BY DEF TypeOK, ReloadOK, RequestOK
    <2> QED  BY <2>1, <2>2 DEF PoolOK, ReloadRetiresExisting
  <1>2. CASE Reject(p) \/ Masked(p) \/ Failed(p)
    <2> /\ EndRequest(p) /\ pc[p] # "upstream"
        /\ UNCHANGED <<store, privacy, reloading, pool, history>>
      BY <1>2 DEF Reject, Masked, Failed
    <2> USE DEF EndRequest
    <2>1. TypeOK'  BY DEF TypeOK
    <2>2. ReloadOK' /\ RequestOK'  BY DEF TypeOK, ReloadOK, RequestOK
    <2> QED  BY <2>1, <2>2 DEF PoolOK, ReloadRetiresExisting
  <1>3. ASSUME NEW word \in Words, ReadPrivacy(p, word) PROVE GInv'
    <2> USE <1>3 DEF ReadPrivacy
    <2>1. TypeOK'  BY DEF TypeOK
    <2>2. ReloadOK' /\ RequestOK'  BY DEF TypeOK, ReloadOK, RequestOK
    <2> QED  BY <2>1, <2>2 DEF PoolOK, ReloadRetiresExisting
  <1>4. CASE Protect(p)
    <2> USE <1>4 DEF Protect
    <2>1. TypeOK'  BY DEF TypeOK
    <2>2. ReloadOK' /\ RequestOK'  BY DEF TypeOK, ReloadOK, RequestOK
    <2> QED  BY <2>1, <2>2 DEF PoolOK, ReloadRetiresExisting
  <1>5. CASE Direct(p)
    <2> USE <1>5 DEF Direct, MustMask, Pool!Reuse, Pool!Create
    <2>1. snap[p] \in Configs \ Protected /\ KeyOf[snap[p]] \in Keys
      BY DEF RequestOK
    <2>2. TypeOK'
      <3>1. /\ current' \in [Keys -> ClientIds \cup {Nil}]
            /\ using' \in [Requests -> ClientIds \cup {Nil}]
            /\ born' \subseteq ClientIds
        <4>1. CASE Pool!Reuse(p, KeyOf[snap[p]])
          BY <2>1, <4>1 DEF TypeOK
        <4>2. CASE Pool!Create(p, KeyOf[snap[p]])
          <5>1. PICK c \in ClientIds \ born :
                    /\ using' = [using EXCEPT ![p] = c]
                    /\ current' = [current EXCEPT ![KeyOf[snap[p]]] = c]
                    /\ born' = born \cup {c}
            BY <4>2
          <5> QED  BY <2>1, <5>1 DEF TypeOK
        <4> QED  BY <4>1, <4>2
      <3> QED  BY <3>1 DEF TypeOK
    <2>3. ReloadOK' /\ RequestOK'  BY <2>1 DEF TypeOK, ReloadOK, RequestOK
    <2>4. PoolOK'  BY <2>1 DEF TypeOK, PoolOK
    <2>5. ReloadRetiresExisting'  BY DEF ReloadRetiresExisting
    <2> QED  BY <2>2, <2>3, <2>4, <2>5
  <1>6. CASE Release(p)
    <2> USE <1>6 DEF Release, EndRequest, Pool!End
    <2>1. TypeOK'  BY DEF TypeOK
    <2>2. ReloadOK' /\ RequestOK'  BY DEF TypeOK, ReloadOK, RequestOK
    <2> QED  BY <2>1, <2>2 DEF PoolOK, ReloadRetiresExisting
  <1> QED  BY <1>1, <1>2, <1>3, <1>4, <1>5, <1>6 DEF Request

\* Every reachable state satisfies the invariant.
THEOREM GatewayInvariant == Spec => []GInv
  <1>1. GInv /\ UNCHANGED vars => GInv'
    BY DEF vars, history, pool, requesting, privacy, reloading, GInv, TypeOK, ReloadOK, RequestOK, PoolOK,
           ReloadRetiresExisting
  <1>2. GInv /\ [Next]_vars => GInv'
    BY <1>1, ReloadKeeps, RequestKeeps DEF Next
  <1> QED  BY <1>2, GInit, PTL DEF Spec

\* A request that must be masked never holds an upstream client, however many
\* reloads race with it.
THEOREM ProtectedNeverDirect == Spec => []NeverUnprotected
  <1>1. GInv => NeverUnprotected  BY DEF GInv, RequestOK, NeverUnprotected
  <1> QED  BY <1>1, GatewayInvariant, PTL

\* A reload retires every client that existed when its build succeeded.
THEOREM ExistingRetired == Spec => []ReloadRetiresExisting
  <1>1. GInv => ReloadRetiresExisting  BY DEF GInv
  <1> QED  BY <1>1, GatewayInvariant, PTL

-----------------------------------------------------------------------------
(* The processor *)

\* A reload that met no other one is the only busy one, and the words it has
\* written are still there.
AloneOK ==
    /\ \A r \in alone : Busy = {r}
    /\ \A r \in Reloads : rpc[r] = "assigned" => unwritten[r] = {}
    /\ \A r \in alone :
          /\ "type" \notin unwritten[r] => privType = ProcessorType(target[r])
          /\ "data" \notin unwritten[r] => privData = ProcessorData(target[r])

\* With privacy sections only, the words in the field, in the reloads' hands
\* and in the requests' hands all are of some processor.
ProcessorOK ==
    ~bare =>
        /\ privType = TRUE /\ privData # Nil
        /\ \A r \in Reloads : rpc[r] # "idle" => target[r] \in HasPrivacy
        /\ \A p \in Requests :
              /\ pc[p] \notin {"misconfigured", "crashed"}
              /\ pc[p] = "piped" => unread[p] = {}
              /\ pc[p] \in {"planning", "piped"} =>
                    /\ "type" \notin unread[p] => got[p].type = TRUE
                    /\ "data" \notin unread[p] => got[p].data # Nil

HInv == GInv /\ AloneOK /\ SerialReloadsMatch /\ ProcessorOK

LEMMA HInit == Init => HInv
  <1> SUFFICES ASSUME Init PROVE HInv  OBVIOUS
  <1>1. GInv  BY GInit
  <1>2. AloneOK /\ SerialReloadsMatch
    BY DEF Init, AloneOK, SerialReloadsMatch, Matching, Busy
  <1>3. ProcessorOK
    BY ConfigAssumption DEF Init, ProcessorOK, ProcessorType, ProcessorData
  <1> QED  BY <1>1, <1>2, <1>3 DEF HInv

\* Steps of a reload.  While one is busy nothing is claimed of the field and
\* the snapshot together.
LEMMA ReloadKeepsProcessor ==
    ASSUME HInv, NEW r \in Reloads, Reload(r)
    PROVE  AloneOK' /\ SerialReloadsMatch' /\ ProcessorOK'
  <1> USE ConfigAssumption DEF HInv, GInv, pool, requesting, privacy, history
  <1>1. ASSUME NEW c \in Configs, ReloadBuild(r, c)
        PROVE  AloneOK' /\ SerialReloadsMatch' /\ ProcessorOK'
    <2> USE <1>1 DEF ReloadBuild
    <2>1. Busy' = Busy /\ r \notin Busy  BY DEF TypeOK, Busy
    <2>2. AloneOK'
      <3>1. r \notin alone  BY <2>1 DEF AloneOK
      <3> QED  BY <2>1, <3>1 DEF TypeOK, AloneOK
    <2>3. SerialReloadsMatch'
      BY <2>1 DEF SerialReloadsMatch, Quiet, Matching
    <2>4. ProcessorOK'  BY DEF TypeOK, ProcessorOK
    <2> QED  BY <2>2, <2>3, <2>4
  <1>2. CASE ReloadMark(r)
    <2> USE <1>2 DEF ReloadMark
    <2>1. Busy' = Busy \cup {r}  BY DEF TypeOK, Busy
    <2>2. AloneOK'  BY <2>1 DEF TypeOK, AloneOK, Words
    <2>3. SerialReloadsMatch'  BY <2>1 DEF SerialReloadsMatch, Quiet
    <2>4. ProcessorOK'  BY DEF TypeOK, ProcessorOK
    <2> QED  BY <2>2, <2>3, <2>4
  <1>3. ASSUME NEW word \in Words, ReloadAssign(r, word)
        PROVE  AloneOK' /\ SerialReloadsMatch' /\ ProcessorOK'
    <2> USE <1>3 DEF ReloadAssign
    <2>1. Busy' = Busy /\ r \in Busy  BY DEF TypeOK, Busy
    <2>2. /\ word = "type" => privType' = ProcessorType(target[r]) /\ privData' = privData
          /\ word # "type" => privData' = ProcessorData(target[r]) /\ privType' = privType
      BY DEF Write
    <2>3. word = "type" \/ word = "data"  BY DEF Words
    <2>4. AloneOK'
      <3>1. ASSUME NEW q \in alone PROVE q = r  BY <2>1 DEF AloneOK
      <3>2. alone \subseteq Reloads /\ alone' = alone /\ target' = target  BY DEF TypeOK
      <3>3. unwritten'[r] = unwritten[r] \ {word}  BY DEF TypeOK
      <3>4. \A q \in Reloads : rpc'[q] = "assigned" => unwritten'[q] = {}
        BY DEF TypeOK, AloneOK
      <3>5. \A q \in alone :
              /\ "type" \notin unwritten'[q] => privType' = ProcessorType(target[q])
              /\ "data" \notin unwritten'[q] => privData' = ProcessorData(target[q])
        BY <2>2, <2>3, <3>1, <3>3 DEF AloneOK
      <3>6. \A q \in alone' : Busy' = {q}  BY <2>1, <3>2 DEF AloneOK
      <3> QED  BY <3>2, <3>4, <3>5, <3>6 DEF AloneOK, ProcessorType, ProcessorData
    <2>5. SerialReloadsMatch'  BY <2>1 DEF SerialReloadsMatch, Quiet
    <2>6. ProcessorOK'
      <3>1. ~bare => target[r] \in HasPrivacy  BY DEF ProcessorOK
      <3>2. ~bare => privType' = TRUE /\ privData' # Nil
        <4>1. target[r] \in Configs  BY DEF ReloadOK
        <4> QED  BY <2>2, <3>1, <4>1 DEF ProcessorOK, ProcessorType, ProcessorData
      <3> QED  BY <3>2 DEF TypeOK, ProcessorOK
    <2> QED  BY <2>4, <2>5, <2>6
  <1>4. CASE ReloadStore(r)
    <2> USE <1>4 DEF ReloadStore
    <2>1. Busy' = Busy \ {r} /\ r \in Busy  BY DEF TypeOK, Busy
    <2>2. r \in alone => privType = ProcessorType(target[r]) /\ privData = ProcessorData(target[r])
      BY DEF AloneOK
    <2>3. AloneOK'  BY <2>1 DEF TypeOK, AloneOK
    <2>4. SerialReloadsMatch'
      BY <2>2 DEF SerialReloadsMatch, Quiet, Matching, ProcessorType, ProcessorData
    <2>5. ProcessorOK'  BY DEF TypeOK, ProcessorOK
    <2> QED  BY <2>3, <2>4, <2>5
  <1>5. CASE ReloadAnswer(r)
    <2> USE <1>5 DEF ReloadAnswer
    <2>1. Busy' = Busy /\ r \notin Busy  BY DEF TypeOK, Busy
    <2>2. AloneOK'
      <3>1. r \notin alone  BY <2>1 DEF AloneOK
      <3> QED  BY <2>1, <3>1 DEF TypeOK, AloneOK
    <2>3. SerialReloadsMatch'  BY <2>1 DEF SerialReloadsMatch, Quiet, Matching
    <2>4. ProcessorOK'  BY DEF TypeOK, ProcessorOK
    <2> QED  BY <2>2, <2>3, <2>4
  <1> QED  BY <1>1, <1>2, <1>3, <1>4, <1>5 DEF Reload

\* A request only reads the field, one word after the other.
LEMMA RequestKeepsProcessor ==
    ASSUME HInv, NEW p \in Requests, Request(p)
    PROVE  AloneOK' /\ SerialReloadsMatch' /\ ProcessorOK'
  <1> USE ConfigAssumption DEF HInv, GInv, pool, reloading, privacy, history
  <1>1. UNCHANGED <<store, privacy, reloading, history>>
    BY DEF Request, Load, Reject, ReadPrivacy, Protect, Masked, Failed, Direct, Release
  <1>2. AloneOK' /\ SerialReloadsMatch'
    BY <1>1 DEF AloneOK, SerialReloadsMatch, Quiet, Matching, Busy
  <1>3. ProcessorOK'
    <2> SUFFICES ASSUME ~bare
                 PROVE  \A q \in Requests :
              /\ pc'[q] \notin {"misconfigured", "crashed"}
              /\ pc'[q] = "piped" => unread'[q] = {}
              /\ pc'[q] \in {"planning", "piped"} =>
                    /\ "type" \notin unread'[q] => got'[q].type = TRUE
                    /\ "data" \notin unread'[q] => got'[q].data # Nil
      BY <1>1 DEF ProcessorOK
    <2>1. CASE Load(p)  BY <2>1 DEF Load, TypeOK, ProcessorOK, Words
    <2>2. CASE Reject(p) \/ Masked(p) \/ Failed(p) \/ Release(p)
      <3>1. EndRequest(p)  BY <2>2 DEF Reject, Masked, Failed, Release
      <3>2. pc'[p] = "idle"  BY <3>1 DEF EndRequest, TypeOK
      <3>3. \A q \in Requests \ {p} : pc'[q] = pc[q] /\ unread'[q] = unread[q] /\ got'[q] = got[q]
        BY <3>1 DEF EndRequest, TypeOK
      <3> QED  BY <3>2, <3>3 DEF ProcessorOK
    <2>3. ASSUME NEW word \in Words, ReadPrivacy(p, word)
          PROVE  \A q \in Requests :
              /\ pc'[q] \notin {"misconfigured", "crashed"}
              /\ pc'[q] = "piped" => unread'[q] = {}
              /\ pc'[q] \in {"planning", "piped"} =>
                    /\ "type" \notin unread'[q] => got'[q].type = TRUE
                    /\ "data" \notin unread'[q] => got'[q].data # Nil
      <3>1. privType = TRUE /\ privData # Nil  BY DEF ProcessorOK
      <3>2. /\ got[p] \in [type : BOOLEAN, data : Configs \cup {Nil}]
            /\ got'[p] = IF word = "type" THEN [got[p] EXCEPT !.type = privType]
                                            ELSE [got[p] EXCEPT !.data = privData]
            /\ unread'[p] = unread[p] \ {word}
            /\ pc'[p] \in {"planning", "piped"} /\ (pc'[p] = "piped" => unread'[p] = {})
            /\ pc[p] = "planning"
        BY <2>3 DEF ReadPrivacy, TypeOK
      <3>3. word = "type" \/ word = "data"  BY DEF Words
      <3>4. /\ "type" \notin unread'[p] => got'[p].type = TRUE
            /\ "data" \notin unread'[p] => got'[p].data # Nil
        BY <3>1, <3>2, <3>3 DEF ProcessorOK
      <3>5. \A q \in Requests \ {p} : pc'[q] = pc[q] /\ unread'[q] = unread[q] /\ got'[q] = got[q]
        BY <2>3 DEF ReadPrivacy, TypeOK
      <3> QED  BY <3>2, <3>4, <3>5 DEF ProcessorOK
    <2>4. CASE Protect(p)  BY <2>4 DEF Protect, TypeOK, ProcessorOK
    <2>5. CASE Direct(p)  BY <2>5 DEF Direct, TypeOK, ProcessorOK
    <2> QED  BY <2>1, <2>2, <2>3, <2>4, <2>5 DEF Request
  <1> QED  BY <1>2, <1>3

LEMMA HInvariant == Spec => []HInv
  <1>1. HInv /\ UNCHANGED vars => HInv'
    <2> SUFFICES ASSUME HInv, UNCHANGED vars PROVE HInv'  OBVIOUS
    <2> USE DEF vars, pool, requesting, privacy, reloading, history, HInv
    <2>1. GInv'  BY DEF GInv, TypeOK, ReloadOK, RequestOK, PoolOK, ReloadRetiresExisting
    <2>2. AloneOK' /\ SerialReloadsMatch'
      BY DEF AloneOK, SerialReloadsMatch, Quiet, Matching, Busy
    <2>3. ProcessorOK'  BY DEF ProcessorOK
    <2> QED  BY <2>1, <2>2, <2>3
  <1>2. HInv /\ [Next]_vars => HInv'
    BY <1>1, ReloadKeeps, RequestKeeps, ReloadKeepsProcessor, RequestKeepsProcessor
    DEF Next, HInv
  <1> QED  BY <1>2, HInit, PTL DEF Spec

\* Of any number of reloads, one that meets no other leaves the processor that
\* belongs to the snapshot.
THEOREM SerialReloadsAgree == Spec => []SerialReloadsMatch
  <1>1. HInv => SerialReloadsMatch  BY DEF HInv
  <1> QED  BY <1>1, HInvariant, PTL

\* With privacy sections only, a protected request always finds a processor,
\* even when it reads half of one and half of another.
THEOREM ProcessorAlwaysThere == Spec => []AlwaysAProcessor
  <1>1. HInv => AlwaysAProcessor  BY DEF HInv, ProcessorOK, AlwaysAProcessor
  <1> QED  BY <1>1, HInvariant, PTL

-----------------------------------------------------------------------------
(* The pool: what DrainingPool promises holds of it here, and reaches from   *)
(* the reload that retires a client to the requests that start later.        *)

\* A step of a reload or of a request is one call of the pool, or none.
LEMMA PoolStep ==
    ASSUME GInv, Next
    PROVE  [Pool!PNext]_(Pool!pvars)
  <1>1. ASSUME NEW r \in Reloads, Reload(r)
        PROVE  Pool!RetireAll \/ UNCHANGED pool
    BY <1>1 DEF Reload, ReloadBuild, ReloadMark, ReloadAssign, ReloadStore, ReloadAnswer
  <1>2. ASSUME NEW p \in Requests, Request(p)
        PROVE  \/ \E k \in Keys : Pool!Reuse(p, k) \/ Pool!Create(p, k)
               \/ Pool!End(p)
               \/ UNCHANGED pool
    <2>1. CASE Direct(p)
      <3>1. KeyOf[snap[p]] \in Keys
        BY <2>1, ConfigAssumption DEF Direct, GInv, RequestOK
      <3> QED  BY <2>1, <3>1 DEF Direct
    <2>2. CASE Release(p)  BY <2>2 DEF Release
    <2>3. CASE ~Direct(p) /\ ~Release(p)
      BY <1>2, <2>3 DEF Request, Load, Reject, ReadPrivacy, Protect, Masked, Failed
    <2> QED  BY <2>1, <2>2, <2>3
  <1>3. UNCHANGED pool => UNCHANGED Pool!pvars  BY DEF pool, Pool!pvars
  <1> QED  BY <1>1, <1>2, <1>3 DEF Next, Pool!PNext

\* The gateway uses its clients only as the pool allows.
UsesPool == Pool!PSafety

\* Whatever reloads and requests do at the same time, what they do to the clients is
\* a behaviour of DrainingPool, the specification ClientPool implements.
THEOREM GatewayUsesPool == Spec => UsesPool
  <1>1. Init => Pool!PInit  BY DEF Init
  <1>2. GInv /\ [Next]_vars => [Pool!PNext]_(Pool!pvars)
    <2>1. UNCHANGED vars => UNCHANGED Pool!pvars  BY DEF vars, pool, Pool!pvars
    <2> QED  BY <2>1, PoolStep
  <1> QED  BY <1>1, <1>2, GatewayInvariant, PTL DEF Spec, UsesPool, Pool!PSafety

\* From the moment a reload has marked until it is answered, no request starts on a
\* client that existed when its configuration was accepted.
NewRequestsOnNewClients ==
    [][\A p \in Requests, r \in Reloads :
          /\ rpc[r] \in {"marked", "assigned", "stored"}
          /\ using[p] = Nil /\ using'[p] # Nil
          => using'[p] \notin before[r]]_vars

\* A reload keeps later requests off the connections and the transport settings of
\* the clients it found, whichever requests and reloads run beside it.
THEOREM OldClientsNotReused == Spec => NewRequestsOnNewClients
  <1>1. ASSUME GInv, Next,
               NEW p \in Requests, NEW r \in Reloads,
               rpc[r] \in {"marked", "assigned", "stored"},
               using[p] = Nil, using'[p] # Nil
        PROVE  using'[p] \notin before[r]
    <2> USE <1>1
    <2>1. before[r] \subseteq retired /\ before[r] \subseteq born
      BY DEF GInv, ReloadRetiresExisting, PoolOK
    <2>2. PICK q \in Requests, k \in Keys : Pool!Reuse(q, k) \/ Pool!Create(q, k)
      BY PoolStep, ConfigAssumption
      DEF GInv, TypeOK, Pool!PNext, Pool!pvars, Pool!Exchange, Pool!End, Pool!RetireAll, Pool!Cool
    <2>3. q = p  BY <2>2 DEF Pool!Reuse, Pool!Create, GInv, TypeOK
    <2>4. CASE Pool!Reuse(q, k)
      BY <2>1, <2>3, <2>4 DEF Pool!Reuse, GInv, TypeOK
    <2>5. CASE Pool!Create(q, k)
      BY <2>1, <2>3, <2>5 DEF Pool!Create, GInv, TypeOK
    <2> QED  BY <2>2, <2>4, <2>5
  <1>2. GInv /\ [Next]_vars =>
          [\A p \in Requests, r \in Reloads :
              /\ rpc[r] \in {"marked", "assigned", "stored"}
              /\ using[p] = Nil /\ using'[p] # Nil
              => using'[p] \notin before[r]]_vars
    BY <1>1
  <1> QED  BY <1>2, GatewayInvariant, PTL DEF Spec, NewRequestsOnNewClients
=============================================================================
