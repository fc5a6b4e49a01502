-------------------------- MODULE ClientPoolProofs --------------------------
(***************************************************************************)
(* Proofs about ClientPool, for any sets of keys, clients and (finitely    *)
(* many) requests: the pool's safety invariants.                           *)
(***************************************************************************)
EXTENDS ClientPool, FiniteSetTheorems, TLAPS

\* Manager.mu: exactly one request is inside Acquire when it holds the lock,
\* and only MarkAllDraining has a client between its store and its load.
LockOK ==
    /\ mu = "acquire" => \E p \in Requests : pc[p] = "selected"
    /\ \A p \in Requests : pc[p] = "selected" => mu = "acquire"
    /\ \A p, q \in Requests : pc[p] = "selected" /\ pc[q] = "selected" => p = q
    /\ cursor # Nil => mu = "mark" /\ draining[cursor]

\* Only allocated clients are held, in the map, or carry any state.
BornOK ==
    /\ \A p \in Requests : pc[p] # "idle" => held[p] \in born
    /\ InMap \subseteq born
    /\ mu = "mark" => todo \subseteq born
    /\ \A c \in ClientIds \ born : ~draining[c] /\ ~idle[c]

IInv ==
    /\ TypeOK
    /\ LockOK
    /\ BornOK
    /\ ActiveCountsHolders
    /\ NeverAcquireDraining
    /\ NoOrphan
    /\ DrainedIsClosed
    /\ StatsCoversMap

\* The holders of a client are finitely many, so their number is a natural.
LEMMA HoldersFinite ==
    ASSUME NEW c
    PROVE  IsFiniteSet(Holders(c)) /\ Cardinality(Holders(c)) \in Nat
  <1>1. Holders(c) \subseteq Requests  BY DEF Holders
  <1> QED  BY <1>1, RequestsFinite, FS_Subset, FS_CardinalityType

\* The pool starts in the invariant: nothing is allocated or held.
LEMMA InitIInv == Init => IInv
  <1> SUFFICES ASSUME Init PROVE IInv  OBVIOUS
  <1> USE NilNotAClient
  <1>1. TypeOK  BY DEF Init, TypeOK, Phases
  <1>2. LockOK /\ BornOK  BY DEF Init, LockOK, BornOK, InMap
  <1>3. ActiveCountsHolders
    <2>1. \A c \in ClientIds : Holders(c) = {}  BY DEF Init, Holders
    <2> QED  BY <2>1, FS_EmptySet DEF Init, ActiveCountsHolders
  <1>4. NeverAcquireDraining /\ NoOrphan /\ DrainedIsClosed /\ StatsCoversMap
    BY DEF Init, NeverAcquireDraining, NoOrphan, DrainedIsClosed, StatsCoversMap
  <1> QED  BY <1>1, <1>2, <1>3, <1>4 DEF IInv

\* A step that neither counts nor uncounts anybody keeps the accounting.
LEMMA CountKept ==
    ASSUME ActiveCountsHolders, UNCHANGED active,
           \A c \in ClientIds : Holders(c)' = Holders(c)
    PROVE  ActiveCountsHolders'
  BY DEF ActiveCountsHolders

-----------------------------------------------------------------------------
(* One lemma per operation. *)

\* Acquire under the lock selects a client that is not draining.
LEMMA SelectKeeps ==
    ASSUME IInv, NEW p \in Requests, NEW k \in Keys, AcquireSelect(p, k)
    PROVE  IInv'
  <1> USE NilNotAClient DEF IInv, AcquireSelect, Select, scan, transport
  <1>1. held'[p] \in ClientIds /\ held'[p] \in born' /\ ~draining[held'[p]]
    BY DEF TypeOK, BornOK, InMap, Reusable
  <1>2. TypeOK'  BY <1>1 DEF TypeOK, Phases
  <1>3. LockOK'  BY DEF TypeOK, LockOK
  <1>4. BornOK'  BY <1>1 DEF TypeOK, BornOK, InMap
  <1>5. ActiveCountsHolders'
    <2>1. \A c \in ClientIds : Holders(c)' = Holders(c)  BY DEF TypeOK, Holders
    <2> QED  BY <2>1, CountKept
  <1>6. NeverAcquireDraining'  BY <1>1 DEF TypeOK, LockOK, NeverAcquireDraining
  <1>7. NoOrphan'  BY DEF TypeOK, NoOrphan, InMap, Reusable, BornOK
  <1>8. DrainedIsClosed'  BY DEF TypeOK, DrainedIsClosed
  <1>9. StatsCoversMap'  BY DEF StatsCoversMap
  <1> QED  BY <1>2, <1>3, <1>4, <1>5, <1>6, <1>7, <1>8, <1>9

\* Counting a request adds it to the holders of its client.
LEMMA CountKeeps ==
    ASSUME IInv, NEW p \in Requests, AcquireCount(p)
    PROVE  IInv'
  <1> USE NilNotAClient DEF IInv, AcquireCount, scan, transport
  <1>1. held[p] \in ClientIds  BY DEF TypeOK, BornOK
  <1>2. TypeOK'  BY <1>1 DEF TypeOK, Phases
  <1>3. LockOK'  BY DEF TypeOK, LockOK
  <1>4. BornOK'  BY DEF TypeOK, BornOK, InMap
  <1>5. ActiveCountsHolders'
    <2>1. Holders(held[p])' = Holders(held[p]) \cup {p} /\ p \notin Holders(held[p])
      BY DEF TypeOK, Holders
    <2>2. \A c \in ClientIds \ {held[p]} : Holders(c)' = Holders(c)
      BY DEF TypeOK, Holders
    <2>3. Cardinality(Holders(held[p]))' = Cardinality(Holders(held[p])) + 1
      BY <2>1, HoldersFinite, FS_AddElement
    <2> QED  BY <1>1, <2>2, <2>3 DEF TypeOK, ActiveCountsHolders
  <1>6. NeverAcquireDraining'  BY DEF TypeOK, LockOK, NeverAcquireDraining
  <1>7. NoOrphan'  BY DEF NoOrphan, InMap
  <1>8. DrainedIsClosed'  BY <1>1 DEF TypeOK, DrainedIsClosed
  <1>9. StatsCoversMap'  BY DEF StatsCoversMap
  <1> QED  BY <1>2, <1>3, <1>4, <1>5, <1>6, <1>7, <1>8, <1>9

\* A request on its client keeps it in use, whatever its connections do.
LEMMA ExchangeKeeps ==
    ASSUME IInv, NEW p \in Requests, Send(p) \/ Receive(p) \/ Abandon(p)
    PROVE  IInv'
  <1> USE NilNotAClient DEF IInv, scan, transport
  <1>1. /\ pc[p] \in {"holding", "inflight"} /\ pc' = [pc EXCEPT ![p] = pc'[p]]
        /\ pc'[p] \in {"inflight", "served"}
        /\ UNCHANGED <<mu, clients, born, active, draining, held, scan>>
    BY DEF TypeOK, Send, Receive, Abandon
  <1>2. held[p] \in born /\ held[p] \in ClientIds  BY <1>1 DEF TypeOK, BornOK
  <1>3. /\ idle' \in [ClientIds -> BOOLEAN] /\ closeIdle' \in [ClientIds -> BOOLEAN]
        /\ \A c \in ClientIds \ {held[p]} : idle'[c] = idle[c]
    BY <1>2 DEF TypeOK, Send, Receive, Abandon
  <1>4. active[held[p]] > 0
    <2>1. p \in Holders(held[p])  BY <1>1 DEF Holders
    <2>2. Cardinality(Holders(held[p])) # 0  BY <2>1, HoldersFinite, FS_EmptySet
    <2> QED  BY <1>2, <2>2 DEF TypeOK, ActiveCountsHolders
  <1>5. TypeOK'  BY <1>1, <1>3 DEF TypeOK, Phases
  <1>6. LockOK'  BY <1>1 DEF TypeOK, LockOK
  <1>7. BornOK'  BY <1>1, <1>2, <1>3 DEF TypeOK, BornOK, InMap
  <1>8. ActiveCountsHolders'
    <2>1. \A c \in ClientIds : Holders(c)' = Holders(c)  BY <1>1 DEF TypeOK, Holders
    <2> QED  BY <1>1, <2>1, CountKept
  <1>9. NeverAcquireDraining'  BY <1>1 DEF TypeOK, NeverAcquireDraining
  <1>10. NoOrphan' /\ StatsCoversMap'  BY <1>1 DEF NoOrphan, StatsCoversMap, InMap
  <1>11. DrainedIsClosed'
    <2> SUFFICES ASSUME NEW c \in ClientIds, draining'[c], idle'[c], active'[c] = 0
                 PROVE  cursor' = c \/ \E q \in Requests : pc'[q] = "releasing" /\ held'[q] = c
      BY <1>1 DEF TypeOK, DrainedIsClosed
    <2>1. c # held[p]  BY <1>1, <1>4
    <2> QED  BY <1>1, <1>3, <2>1 DEF TypeOK, DrainedIsClosed
  <1> QED  BY <1>5, <1>6, <1>7, <1>8, <1>9, <1>10, <1>11

\* A release that leaves the counter at zero goes on to look at the flag.
LEMMA ReleaseDecKeeps ==
    ASSUME IInv, NEW p \in Requests, ReleaseDec(p)
    PROVE  IInv'
  <1> USE NilNotAClient DEF IInv, ReleaseDec, Uncount, scan, transport
  <1>1. held[p] \in ClientIds  BY DEF TypeOK, BornOK
  <1>2. /\ Holders(held[p])' = Holders(held[p]) \ {p} /\ p \in Holders(held[p])
        /\ \A c \in ClientIds \ {held[p]} : Holders(c)' = Holders(c)
    BY DEF TypeOK, Holders
  <1>3. /\ Cardinality(Holders(held[p]))' = Cardinality(Holders(held[p])) - 1
        /\ Cardinality(Holders(held[p])) # 0
    BY <1>2, HoldersFinite, FS_RemoveElement, FS_EmptySet
  <1>4. active[held[p]] \in Nat \ {0}  BY <1>1, <1>3 DEF TypeOK, ActiveCountsHolders
  <1>5. TypeOK'  BY <1>1, <1>4 DEF TypeOK, Phases
  <1>6. LockOK' /\ BornOK'  BY DEF TypeOK, LockOK, BornOK, InMap
  <1>7. ActiveCountsHolders'
    BY <1>1, <1>2, <1>3 DEF TypeOK, ActiveCountsHolders
  <1>8. NeverAcquireDraining' /\ NoOrphan'
    BY DEF TypeOK, NeverAcquireDraining, NoOrphan, InMap
  <1>9. DrainedIsClosed'
    <2> SUFFICES ASSUME NEW c \in ClientIds, draining[c], idle[c], active'[c] = 0
                 PROVE  cursor = c \/ \E q \in Requests : pc'[q] = "releasing" /\ held[q] = c
      BY DEF TypeOK, DrainedIsClosed
    <2>1. CASE c = held[p]
      <3>1. pc'[p] = "releasing"  BY <1>4, <2>1 DEF TypeOK
      <3> QED  BY <2>1, <3>1
    <2>2. CASE c # held[p]
      <3>1. active[c] = 0  BY <2>2 DEF TypeOK
      <3> QED  BY <3>1 DEF TypeOK, DrainedIsClosed
    <2> QED  BY <2>1, <2>2
  <1>10. StatsCoversMap'
    <2>1. \A c \in ClientIds : active'[c] <= active[c] /\ active'[c] \in Nat
      BY <1>1, <1>4, <1>5 DEF TypeOK
    <2> QED  BY <2>1 DEF TypeOK, StatsCoversMap, InMap
  <1> QED  BY <1>5, <1>6, <1>7, <1>8, <1>9, <1>10

\* A release that sees the flag closes the idle connections.
LEMMA ReleaseCheckKeeps ==
    ASSUME IInv, NEW p \in Requests, ReleaseCheck(p)
    PROVE  IInv'
  <1> USE NilNotAClient DEF IInv, ReleaseCheck, scan, CloseIdleConnections
  <1>1. held[p] \in ClientIds  BY DEF TypeOK, BornOK
  <1>2. TypeOK'  BY <1>1 DEF TypeOK, Phases, transport
  <1>3. LockOK'  BY DEF TypeOK, LockOK
  <1>4. BornOK'  BY <1>1 DEF TypeOK, BornOK, InMap, transport
  <1>5. ActiveCountsHolders'
    <2>1. \A c \in ClientIds : Holders(c)' = Holders(c)  BY DEF TypeOK, Holders
    <2> QED  BY <2>1, CountKept
  <1>6. NeverAcquireDraining' /\ NoOrphan' /\ StatsCoversMap'
    BY DEF TypeOK, NeverAcquireDraining, NoOrphan, StatsCoversMap, InMap
  <1>7. DrainedIsClosed'
    <2> SUFFICES ASSUME NEW c \in ClientIds, draining[c], idle'[c], active[c] = 0
                 PROVE  cursor = c \/ \E q \in Requests : pc'[q] = "releasing" /\ held[q] = c
      BY DEF TypeOK, DrainedIsClosed
    <2>1. c # held[p] /\ idle[c]  BY <1>1 DEF TypeOK, transport
    <2> QED  BY <2>1 DEF TypeOK, DrainedIsClosed
  <1> QED  BY <1>2, <1>3, <1>4, <1>5, <1>6, <1>7

\* MarkAllDraining covers a client it has flagged until it has read its counter.
LEMMA MarkKeeps ==
    ASSUME IInv, Mark
    PROVE  IInv'
  <1> USE NilNotAClient DEF IInv, scan
  <1>1. CASE MarkLock \/ MarkUnlock
    <2> USE <1>1 DEF MarkLock, MarkUnlock, transport
    <2>1. TypeOK'  BY DEF TypeOK, InMap
    <2>2. LockOK' /\ BornOK'  BY DEF TypeOK, LockOK, BornOK, InMap
    <2>3. ActiveCountsHolders'
      <3>1. \A c \in ClientIds : Holders(c)' = Holders(c)  BY DEF Holders
      <3> QED  BY <3>1, CountKept
    <2>4. NeverAcquireDraining' /\ NoOrphan' /\ DrainedIsClosed' /\ StatsCoversMap'
      BY DEF TypeOK, NeverAcquireDraining, NoOrphan, DrainedIsClosed, StatsCoversMap, InMap
    <2> QED  BY <2>1, <2>2, <2>3, <2>4
  <1>2. ASSUME NEW c \in ClientIds, MarkStore(c) PROVE IInv'
    <2> USE <1>2 DEF MarkStore, transport
    <2>0. c \in born \/ ~idle[c]  BY DEF BornOK
    <2>1. TypeOK'  BY DEF TypeOK
    <2>2. LockOK'  BY DEF TypeOK, LockOK
    <2>3. ActiveCountsHolders'
      <3>1. \A d \in ClientIds : Holders(d)' = Holders(d)  BY DEF Holders
      <3> QED  BY <3>1, CountKept
    <2>4. NeverAcquireDraining'  BY DEF TypeOK, LockOK, NeverAcquireDraining
    <2>5. NoOrphan' /\ StatsCoversMap'  BY DEF TypeOK, NoOrphan, StatsCoversMap, InMap
    <2>6. DrainedIsClosed'  BY DEF TypeOK, DrainedIsClosed
    <2>7. BornOK'  BY DEF TypeOK, BornOK, InMap
    <2> QED  BY <2>1, <2>2, <2>3, <2>4, <2>5, <2>6, <2>7
  <1>3. CASE MarkCheck
    <2> USE <1>3 DEF MarkCheck, CloseIdleConnections
    <2>1. cursor \in ClientIds  BY DEF TypeOK
    <2>2. TypeOK'  BY <2>1 DEF TypeOK, transport
    <2>3. LockOK' /\ BornOK'  BY <2>1 DEF TypeOK, LockOK, BornOK, InMap, transport
    <2>4. ActiveCountsHolders'
      <3>1. \A c \in ClientIds : Holders(c)' = Holders(c)  BY DEF Holders
      <3> QED  BY <3>1, CountKept
    <2>5. NeverAcquireDraining' /\ NoOrphan' /\ StatsCoversMap'
      BY DEF TypeOK, NeverAcquireDraining, NoOrphan, StatsCoversMap, InMap
    <2>6. DrainedIsClosed'
      <3> SUFFICES ASSUME NEW c \in ClientIds, draining[c], idle'[c], active[c] = 0
                   PROVE  \E q \in Requests : pc[q] = "releasing" /\ held[q] = c
        BY DEF TypeOK, DrainedIsClosed
      <3>1. c # cursor /\ idle[c]  BY <2>1 DEF TypeOK, transport
      <3> QED  BY <3>1 DEF TypeOK, DrainedIsClosed
    <2> QED  BY <2>2, <2>3, <2>4, <2>5, <2>6
  <1> QED  BY <1>1, <1>2, <1>3 DEF Mark

\* Stats reads counters that can only fall while it holds the lock.
LEMMA StatsKeeps ==
    ASSUME IInv, Stats
    PROVE  IInv'
  <1> USE NilNotAClient DEF IInv, scan, transport
  <1>1. CASE StatsLock \/ StatsUnlock
    <2> USE <1>1 DEF StatsLock, StatsUnlock
    <2>1. TypeOK'  BY DEF TypeOK, InMap
    <2>2. LockOK' /\ BornOK'  BY DEF TypeOK, LockOK, BornOK, InMap
    <2>3. ActiveCountsHolders'
      <3>1. \A c \in ClientIds : Holders(c)' = Holders(c)  BY DEF Holders
      <3> QED  BY <3>1, CountKept
    <2>4. NeverAcquireDraining' /\ NoOrphan' /\ DrainedIsClosed' /\ StatsCoversMap'
      BY DEF TypeOK, NeverAcquireDraining, NoOrphan, DrainedIsClosed, StatsCoversMap, InMap
    <2> QED  BY <2>1, <2>2, <2>3, <2>4
  <1>2. ASSUME NEW c \in ClientIds, StatsRead(c) PROVE IInv'
    <2> USE <1>2 DEF StatsRead
    <2>1. TypeOK'  BY DEF TypeOK
    <2>2. LockOK' /\ BornOK'  BY DEF TypeOK, LockOK, BornOK, InMap
    <2>3. ActiveCountsHolders'
      <3>1. \A d \in ClientIds : Holders(d)' = Holders(d)  BY DEF Holders
      <3> QED  BY <3>1, CountKept
    <2>4. NeverAcquireDraining' /\ NoOrphan' /\ DrainedIsClosed'
      BY DEF TypeOK, NeverAcquireDraining, NoOrphan, DrainedIsClosed, InMap
    <2>5. StatsCoversMap'  BY DEF TypeOK, StatsCoversMap, InMap
    <2> QED  BY <2>1, <2>2, <2>3, <2>4, <2>5
  <1> QED  BY <1>1, <1>2 DEF Stats

-----------------------------------------------------------------------------
\* The invariant is kept by every step of the pool.
LEMMA NextIInv == IInv /\ [Next]_vars => IInv'
  <1> SUFFICES ASSUME IInv, [Next]_vars PROVE IInv'  OBVIOUS
  <1>1. ASSUME NEW p \in Requests, Request(p) PROVE IInv'
    BY <1>1, SelectKeeps, CountKeeps, ExchangeKeeps, ReleaseDecKeeps, ReleaseCheckKeeps
       DEF Request
  <1>2. CASE Mark  BY <1>2, MarkKeeps
  <1>3. CASE Stats  BY <1>3, StatsKeeps
  <1>4. CASE UNCHANGED vars
    <2> USE <1>4 DEF vars
    <2>1. ActiveCountsHolders'
      <3>1. \A c \in ClientIds : Holders(c)' = Holders(c)  BY DEF Holders
      <3> QED  BY <3>1, CountKept DEF IInv
    <2> QED  BY <2>1 DEF IInv, TypeOK, LockOK, BornOK, NeverAcquireDraining, NoOrphan,
                         DrainedIsClosed, StatsCoversMap, InMap
  <1> QED  BY <1>1, <1>2, <1>3, <1>4 DEF Next

\* The inductive invariant, type correctness included, always holds.
THEOREM PoolInvariant == Spec => []IInv
  <1>1. Spec => Init /\ [][Next]_vars  BY DEF Spec, Safety
  <1> QED  BY <1>1, InitIInv, NextIInv, PTL

\* The counter of each client is the number of requests using it.
THEOREM Accounting == Spec => []ActiveCountsHolders
  BY PoolInvariant, PTL DEF IInv

\* Acquire never returns a client that a reload has retired.
THEOREM NeverDraining == Spec => []NeverAcquireDraining
  BY PoolInvariant, PTL DEF IInv

\* Whatever the interleaving of release and MarkAllDraining, somebody closes
\* the idle connections of a retired client that is no longer used.
THEOREM Handshake == Spec => []DrainedIsClosed
  BY PoolInvariant, PTL DEF IInv

\* No client leaves the map unless a reload has retired it.
THEOREM NoClientLost == Spec => []NoOrphan
  BY PoolInvariant, PTL DEF IInv

\* What Stats has read of a client covers the requests now using it.
THEOREM StatsCover == Spec => []StatsCoversMap
  BY PoolInvariant, PTL DEF IInv

-----------------------------------------------------------------------------
(* Refinement *)

\* Every step of the pool is a step of DrainingPool or leaves it unchanged.
LEMMA StepSimulation ==
    ASSUME IInv, IInv', [Next]_vars
    PROVE  [Abstract!PNext]_(Abstract!pvars)
  <1> USE NilNotAClient DEF IInv, scan, transport, Abstract!pvars
  <1> DEFINE Still == UNCHANGED Abstract!pvars
  <1>1. ASSUME NEW p \in Requests, NEW k \in Keys, AcquireSelect(p, k)
        PROVE  Abstract!Reuse(p, k) \/ Abstract!Create(p, k)
    <2> USE <1>1 DEF AcquireSelect, Select
    <2>1. /\ Using[p] = Nil
          /\ Using' = [Using EXCEPT ![p] = held'[p]]
          /\ Retired = {c \in ClientIds : draining[c]} /\ Retired' = Retired
          /\ Warm' = Warm
      BY DEF TypeOK, Using, Retired, Warm
    <2>2. Reusable(clients[k]) <=> clients[k] \in ClientIds \ Retired
      BY <2>1 DEF TypeOK, Reusable
    <2>3. CASE Reusable(clients[k])
      BY <2>1, <2>2, <2>3 DEF Abstract!Reuse, TypeOK
    <2>4. CASE ~Reusable(clients[k])
      <3>1. PICK c \in ClientIds \ born :
                /\ clients' = [clients EXCEPT ![k] = c]
                /\ born' = born \cup {c}
                /\ held' = [held EXCEPT ![p] = c]
        BY <2>4
      <3>2. held'[p] = c  BY <3>1 DEF TypeOK
      <3> QED  BY <2>1, <2>2, <2>4, <3>1, <3>2 DEF Abstract!Create
    <2> QED  BY <2>3, <2>4
  <1>2. ASSUME NEW p \in Requests, AcquireCount(p) PROVE Still
    BY <1>2 DEF AcquireCount, TypeOK, LockOK, Using, Retired, Warm
  <1>3. ASSUME NEW p \in Requests, Send(p) \/ Receive(p) \/ Abandon(p)
        PROVE  Abstract!Exchange(p) \/ Still
    <2>1. /\ pc[p] \in {"holding", "inflight"} /\ pc' = [pc EXCEPT ![p] = pc'[p]]
          /\ pc'[p] \in {"inflight", "served"}
          /\ UNCHANGED <<mu, clients, born, draining, held, scan>>
      BY <1>3 DEF TypeOK, Send, Receive, Abandon
    <2>2. Using' = Using /\ Retired' = Retired  BY <2>1 DEF TypeOK, Using, Retired
    <2>3. Using[p] = held[p] /\ held[p] \in ClientIds /\ Using[p] # Nil
      BY <2>1 DEF TypeOK, BornOK, Using
    <2>4. Warm' \in {Warm, Warm \cup {held[p]}, Warm \ {held[p]}}
      <3>1. \/ UNCHANGED idle
            \/ idle' = [idle EXCEPT ![held[p]] = FALSE]
            \/ idle' = [idle EXCEPT ![held[p]] = TRUE]
        BY <1>3 DEF Send, Receive, Abandon
      <3> QED  BY <2>3, <3>1 DEF TypeOK, Warm
    <2> QED  BY <2>1, <2>2, <2>3, <2>4 DEF Abstract!Exchange
  <1>4. ASSUME NEW p \in Requests, ReleaseDec(p) PROVE Abstract!End(p)
    <2> USE <1>4 DEF ReleaseDec, Uncount
    <2>1. Using' = [Using EXCEPT ![p] = Nil]  BY DEF TypeOK, Using
    <2>2. Using[p] # Nil  BY DEF TypeOK, BornOK, Using
    <2> QED  BY <2>1, <2>2 DEF Abstract!End, Retired, Warm
  <1>5. ASSUME NEW p \in Requests, ReleaseCheck(p)
        PROVE  Abstract!Cool(held[p]) \/ Still
    <2> USE <1>5 DEF ReleaseCheck, CloseIdleConnections
    <2>1. held[p] \in ClientIds  BY DEF TypeOK, BornOK
    <2>2. Using' = Using /\ Retired' = Retired  BY DEF TypeOK, Using, Retired
    <2>3. CASE draining[held[p]]
      <3>1. Warm' = Warm \ {held[p]}  BY <2>1, <2>3 DEF TypeOK, Warm
      <3> QED  BY <2>1, <2>2, <2>3, <3>1 DEF Abstract!Cool, Retired
    <2>4. CASE ~draining[held[p]]  BY <2>2, <2>4 DEF Warm
    <2> QED  BY <2>3, <2>4
  <1>6. CASE MarkLock
    <2>1. Retired' = Retired \cup InMap
      BY <1>6 DEF MarkLock, TypeOK, Retired, InMap
    <2> QED  BY <1>6, <2>1 DEF MarkLock, Abstract!PNext, Abstract!RetireAll, Using, Warm, InMap
  <1>7. ASSUME NEW c \in ClientIds, MarkStore(c) PROVE Still
    BY <1>7 DEF MarkStore, TypeOK, Using, Retired, Warm
  <1>8. CASE MarkCheck
    <2> USE <1>8 DEF MarkCheck, CloseIdleConnections
    <2>1. cursor \in ClientIds /\ draining[cursor]  BY DEF TypeOK, LockOK
    <2>2. Using' = Using /\ Retired' = Retired  BY DEF TypeOK, Using, Retired
    <2>3. CASE active[cursor] = 0
      <3>1. Warm' = Warm \ {cursor}  BY <2>1, <2>3 DEF TypeOK, Warm
      <3> QED  BY <2>1, <2>2, <2>3, <3>1 DEF Abstract!PNext, Abstract!Cool, Retired
    <2>4. CASE active[cursor] # 0  BY <2>2, <2>4 DEF Warm
    <2> QED  BY <2>3, <2>4
  <1>9. CASE MarkUnlock  BY <1>9 DEF MarkUnlock, Using, Retired, Warm
  <1>10. CASE Stats
    BY <1>10 DEF Stats, StatsLock, StatsRead, StatsUnlock, Using, Retired, Warm
  <1>11. CASE UNCHANGED vars  BY <1>11 DEF vars, Using, Retired, Warm
  <1>12. ASSUME NEW p \in Requests, Request(p)
         PROVE  [Abstract!PNext]_(Abstract!pvars)
    <2>1. CASE ReleaseCheck(p)
      <3>1. held[p] \in ClientIds  BY <2>1 DEF ReleaseCheck, TypeOK, BornOK
      <3> QED  BY <1>5, <2>1, <3>1 DEF Abstract!PNext
    <2>2. ASSUME NEW k \in Keys, AcquireSelect(p, k)
          PROVE  Abstract!PNext
      BY <1>1, <2>2 DEF Abstract!PNext
    <2>3. CASE AcquireCount(p)  BY <1>2, <2>3
    <2>4. CASE Send(p) \/ Receive(p) \/ Abandon(p)
      <3>1. Abstract!Exchange(p) \/ Still  BY <1>3, <2>4
      <3> QED  BY <3>1 DEF Abstract!PNext
    <2>5. CASE ReleaseDec(p)  BY <1>4, <2>5 DEF Abstract!PNext
    <2> QED  BY <1>12, <2>1, <2>2, <2>3, <2>4, <2>5 DEF Request
  <1>13. CASE Mark
    BY <1>6, <1>7, <1>8, <1>9, <1>13 DEF Mark
  <1> QED  BY <1>10, <1>11, <1>12, <1>13 DEF Next

\* The concurrent pool implements the atomic one, whatever the number of keys,
\* clients and requests: every history of calls looks like one in which each
\* Acquire, release and MarkAllDraining happened at a single instant.
THEOREM PoolRefinement == Spec => ImplementsPool
  <1>1. Init => Abstract!PInit
    BY DEF Init, Abstract!PInit, Using, Retired, Warm
  <1>2. Spec => Init /\ [][Next]_vars  BY DEF Spec, Safety
  <1> QED  BY <1>1, <1>2, PoolInvariant, StepSimulation, PTL
              DEF ImplementsPool, Abstract!PSafety
=============================================================================
