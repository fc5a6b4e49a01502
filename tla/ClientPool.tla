----------------------------- MODULE ClientPool -----------------------------
(***************************************************************************)
(* internal/upstream/client_manager.go: the pool of reusable HTTP clients. *)
(*                                                                         *)
(* Acquire, MarkAllDraining and Stats run under Manager.mu; release does   *)
(* not: it decrements the atomic counter and then loads the atomic         *)
(* draining flag, while MarkAllDraining stores the flag and then loads the *)
(* counter.  That handshake decides who closes the idle connections of a   *)
(* retired client, so each atomic access is an action of its own.          *)
(*                                                                         *)
(* Calls of MarkAllDraining and Stats keep no state outside the lock, so   *)
(* any number of callers is represented by the lock holder.                *)
(***************************************************************************)
EXTENDS Naturals, FiniteSets

CONSTANTS
    Keys,        \* ClientKey values
    ClientIds,   \* *ManagedClient identities; bounds the clients ever created
    Requests,    \* request goroutines that call Acquire
    Nil          \* the nil pointer

ASSUME NilNotAClient == Nil \notin ClientIds
ASSUME RequestsFinite == IsFiniteSet(Requests)

VARIABLES
    mu,          \* Manager.mu: "free", or the operation that holds it
    clients,     \* Manager.clients: key -> client or Nil
    born,        \* clients ever allocated
    active,      \* ManagedClient.active
    draining,    \* ManagedClient.draining
    idle,        \* the client's transport keeps an idle connection open
    closeIdle,   \* net/http: Transport.closeIdle, close newly idle connections
    pc,          \* where each request is in its use of the pool
    held,        \* the client each request obtained
    todo,        \* clients the running MarkAllDraining or Stats has yet to visit
    cursor,      \* the client between MarkAllDraining's store and its load
    stats        \* active counters read by the running Stats, per client

vars == <<mu, clients, born, active, draining, idle, closeIdle, pc, held,
          todo, cursor, stats>>
transport == <<idle, closeIdle>>
scan == <<todo, cursor, stats>>

Phases == {"idle", "selected", "holding", "inflight", "served", "releasing"}

\* Type invariant: every client a request holds or the map names was allocated
\* by Acquire or is nil, and no counter falls below zero.
TypeOK ==
    /\ mu \in {"free", "acquire", "mark", "stats"}
    /\ clients \in [Keys -> ClientIds \cup {Nil}]
    /\ born \subseteq ClientIds
    /\ active \in [ClientIds -> Nat]
    /\ draining \in [ClientIds -> BOOLEAN]
    /\ idle \in [ClientIds -> BOOLEAN]
    /\ closeIdle \in [ClientIds -> BOOLEAN]
    /\ pc \in [Requests -> Phases]
    /\ held \in [Requests -> ClientIds \cup {Nil}]
    /\ todo \subseteq ClientIds
    /\ cursor \in ClientIds \cup {Nil}
    /\ stats \in [ClientIds -> Nat]

\* NewManager: no client exists and nobody has asked for one.
Init ==
    /\ mu = "free"
    /\ clients = [k \in Keys |-> Nil]
    /\ born = {}
    /\ active = [c \in ClientIds |-> 0]
    /\ draining = [c \in ClientIds |-> FALSE]
    /\ idle = [c \in ClientIds |-> FALSE]
    /\ closeIdle = [c \in ClientIds |-> FALSE]
    /\ pc = [p \in Requests |-> "idle"]
    /\ held = [p \in Requests |-> Nil]
    /\ todo = {}
    /\ cursor = Nil
    /\ stats = [c \in ClientIds |-> 0]

InMap == {clients[k] : k \in Keys} \ {Nil}

-----------------------------------------------------------------------------
(* Acquire *)

\* A client in the map is handed out again unless it is draining.
\* (Mutants: even if it is draining; never.)
ReusableAlways(c) == c # Nil
ReusableNever(c) == FALSE
Reusable(c) == c # Nil /\ ~draining[c]

\* Lock, look the key up and replace a missing or draining client.  Every
\* field read here changes only under the lock, so the steps are one action.
Select(p, k) ==
    /\ pc[p] = "idle"
    /\ \/ /\ Reusable(clients[k])
          /\ held' = [held EXCEPT ![p] = clients[k]]
          /\ UNCHANGED <<clients, born>>
       \/ /\ ~Reusable(clients[k])
          /\ \E c \in ClientIds \ born :
               /\ clients' = [clients EXCEPT ![k] = c]
               /\ born' = born \cup {c}
               /\ held' = [held EXCEPT ![p] = c]
    /\ pc' = [pc EXCEPT ![p] = "selected"]
    /\ UNCHANGED <<active, draining, transport, scan>>

AcquireSelect(p, k) == mu = "free" /\ Select(p, k) /\ mu' = "acquire"

\* (Mutant: Unlock, and active.Add(1) some time later.)
AcquireCountLate(p) ==
    /\ pc[p] = "selected"
    /\ \/ mu = "acquire" /\ mu' = "free" /\ UNCHANGED <<active, pc>>
       \/ /\ mu # "acquire" /\ UNCHANGED mu
          /\ active' = [active EXCEPT ![held[p]] = @ + 1]
          /\ pc' = [pc EXCEPT ![p] = "holding"]
    /\ UNCHANGED <<clients, born, draining, transport, held, scan>>

\* active.Add(1), Unlock.
AcquireCount(p) ==
    /\ pc[p] = "selected"
    /\ active' = [active EXCEPT ![held[p]] = @ + 1]
    /\ mu' = "free"
    /\ pc' = [pc EXCEPT ![p] = "holding"]
    /\ UNCHANGED <<clients, born, draining, transport, held, scan>>

-----------------------------------------------------------------------------
(* The HTTP exchange (net/http, external).  Asking the transport for a      *)
(* connection resets closeIdle; a connection whose response was read to the *)
(* end goes back to the idle pool unless closeIdle is set.                  *)

Send(p) ==
    /\ pc[p] = "holding"
    /\ closeIdle' = [closeIdle EXCEPT ![held[p]] = FALSE]
    /\ UNCHANGED idle \/ idle' = [idle EXCEPT ![held[p]] = FALSE]
    /\ pc' = [pc EXCEPT ![p] = "inflight"]
    /\ UNCHANGED <<mu, clients, born, active, draining, held, scan>>

Receive(p) ==
    /\ pc[p] = "inflight"
    /\ \/ UNCHANGED idle
       \/ ~closeIdle[held[p]] /\ idle' = [idle EXCEPT ![held[p]] = TRUE]
    /\ pc' = [pc EXCEPT ![p] = "served"]
    /\ UNCHANGED <<mu, clients, born, active, draining, closeIdle, held, scan>>

\* (Mutant: an early return forgets the release.)
AbandonLeaks(p) ==
    /\ pc[p] = "holding"
    /\ pc' = [pc EXCEPT ![p] = "idle"]
    /\ UNCHANGED <<mu, clients, born, active, draining, transport, held, scan>>

\* The request fails before it reaches the transport.
Abandon(p) ==
    /\ pc[p] = "holding"
    /\ pc' = [pc EXCEPT ![p] = "served"]
    /\ UNCHANGED <<mu, clients, born, active, draining, transport, held, scan>>

CloseIdleConnections(c) ==
    /\ idle' = [idle EXCEPT ![c] = FALSE]
    /\ closeIdle' = [closeIdle EXCEPT ![c] = TRUE]

-----------------------------------------------------------------------------
(* release *)

\* active.Add(-1); only the caller that brought it to zero goes on.
Uncount(p, next) ==
    /\ pc[p] = "served"
    /\ active' = [active EXCEPT ![held[p]] = @ - 1]
    /\ pc' = [pc EXCEPT ![p] = next]
    /\ UNCHANGED <<mu, clients, born, draining, transport, held, scan>>

\* (Mutant: the value before the decrement is compared.)
ReleaseDecOldValue(p) == Uncount(p, IF active[held[p]] = 0 THEN "releasing" ELSE "idle")
ReleaseDec(p) == Uncount(p, IF active[held[p]] = 1 THEN "releasing" ELSE "idle")

\* draining.Load(); the flag is never cleared, so a close that follows the
\* load at once stands for one that follows later.
ReleaseCheck(p) ==
    /\ pc[p] = "releasing"
    /\ IF draining[held[p]] THEN CloseIdleConnections(held[p]) ELSE UNCHANGED transport
    /\ pc' = [pc EXCEPT ![p] = "idle"]
    /\ UNCHANGED <<mu, clients, born, active, draining, held, scan>>

-----------------------------------------------------------------------------
(* MarkAllDraining *)

MarkLock ==
    /\ mu = "free"
    /\ mu' = "mark"
    /\ todo' = InMap
    /\ UNCHANGED <<clients, born, active, draining, transport, pc, held, cursor, stats>>

\* draining.Store(true)
MarkStore(c) ==
    /\ mu = "mark" /\ cursor = Nil /\ c \in todo
    /\ draining' = [draining EXCEPT ![c] = TRUE]
    /\ todo' = todo \ {c}
    /\ cursor' = c
    /\ UNCHANGED <<mu, clients, born, active, transport, pc, held, stats>>

\* (Mutant: only release closes idle connections.)
MarkCheckNever ==
    /\ mu = "mark" /\ cursor # Nil
    /\ cursor' = Nil
    /\ UNCHANGED <<mu, clients, born, active, draining, transport, pc, held, todo, stats>>

\* active.Load() == 0: nobody will release this client, close it here.
MarkCheck ==
    /\ mu = "mark" /\ cursor # Nil
    /\ IF active[cursor] = 0 THEN CloseIdleConnections(cursor) ELSE UNCHANGED transport
    /\ cursor' = Nil
    /\ UNCHANGED <<mu, clients, born, active, draining, pc, held, todo, stats>>

MarkUnlock ==
    /\ mu = "mark" /\ cursor = Nil /\ todo = {}
    /\ mu' = "free"
    /\ UNCHANGED <<clients, born, active, draining, transport, pc, held, scan>>

-----------------------------------------------------------------------------
(* Stats.  ActiveConnections is the sum of the counters read; the model    *)
(* keeps the summands.                                                     *)

StatsLock ==
    /\ mu = "free"
    /\ mu' = "stats"
    /\ todo' = InMap
    /\ stats' = [c \in ClientIds |-> 0]
    /\ UNCHANGED <<clients, born, active, draining, transport, pc, held, cursor>>

StatsRead(c) ==
    /\ mu = "stats" /\ c \in todo
    /\ stats' = [stats EXCEPT ![c] = active[c]]
    /\ todo' = todo \ {c}
    /\ UNCHANGED <<mu, clients, born, active, draining, transport, pc, held, cursor>>

StatsUnlock ==
    /\ mu = "stats" /\ todo = {}
    /\ mu' = "free"
    /\ UNCHANGED <<clients, born, active, draining, transport, pc, held, scan>>

-----------------------------------------------------------------------------
Request(p) ==
    \/ \E k \in Keys : AcquireSelect(p, k)
    \/ AcquireCount(p)
    \/ Send(p) \/ Receive(p) \/ Abandon(p)
    \/ ReleaseDec(p) \/ ReleaseCheck(p)

Mark == MarkLock \/ (\E c \in ClientIds : MarkStore(c)) \/ MarkCheck \/ MarkUnlock

Stats == StatsLock \/ (\E c \in ClientIds : StatsRead(c)) \/ StatsUnlock

Next == (\E p \in Requests : Request(p)) \/ Mark \/ Stats

\* Operations that began run to their end; an exchange ends because the
\* request context carries the plan's timeout.  Nothing obliges a new request,
\* reload or health call to arrive.
Fairness ==
    /\ \A p \in Requests : WF_vars(pc[p] # "idle" /\ Request(p))
    /\ WF_vars(mu = "mark" /\ Mark)
    /\ WF_vars(mu = "stats" /\ Stats)

Safety == Init /\ [][Next]_vars
Spec == Safety /\ Fairness

-----------------------------------------------------------------------------
(* Properties *)

Holders(c) == {p \in Requests : pc[p] \in {"holding", "inflight", "served"} /\ held[p] = c}

\* The active counter of a client is the number of requests between their
\* Acquire and their release of it, although releases run without the lock.
ActiveCountsHolders ==
    \A c \in ClientIds : active[c] = Cardinality(Holders(c))

\* Acquire never hands out a client that a reload has retired: at the moment
\* a request is counted on its client, the client is not draining.
NeverAcquireDraining ==
    \A p \in Requests : pc[p] = "selected" => ~draining[held[p]]

\* No client is dropped from the map while it could still be shared: one that
\* left the map is draining, so somebody will close its idle connections.
NoOrphan == \A c \in born \ InMap : draining[c]

\* The handshake of release and MarkAllDraining: a draining client with an
\* idle connection is still in use, or someone who will close it is on the way.
DrainedIsClosed ==
    \A c \in ClientIds : draining[c] /\ idle[c] =>
        \/ active[c] > 0
        \/ cursor = c
        \/ \E p \in Requests : pc[p] = "releasing" /\ held[p] = c

\* While Stats scans, a counter it has read covers the requests now on that
\* client: nobody can join while the lock is held.
StatsCoversMap ==
    mu = "stats" => \A c \in InMap \ todo : stats[c] >= active[c]

\* The pool implements DrainingPool: a reload retires its clients at the moment
\* MarkAllDraining takes the lock, a request leaves when it is uncounted.
Using == [p \in Requests |->
            IF pc[p] \in {"selected", "holding", "inflight", "served"}
            THEN held[p] ELSE Nil]
Retired == {c \in ClientIds : draining[c] \/ (mu = "mark" /\ c \in todo)}
Warm == {c \in ClientIds : idle[c]}

Abstract == INSTANCE DrainingPool WITH
    current <- clients, using <- Using, retired <- Retired, warm <- Warm

\* Acquire, release and MarkAllDraining, interleaved, look like atomic calls.
ImplementsPool == Abstract!PSafety

\* Every retired client ends up without idle connections, for good.
DrainingClosesEventually == Abstract!RetiredGoesCold
=============================================================================
