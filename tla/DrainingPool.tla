---------------------------- MODULE DrainingPool ----------------------------
(***************************************************************************)
(* What the upstream client pool (internal/upstream, Manager) promises to  *)
(* the rest of the gateway, with every operation a single step.            *)
(*                                                                         *)
(* A request borrows the current client of its key; a key without one, or  *)
(* whose client was retired, gets a new client.  A configuration reload    *)
(* retires every current client at once.  Nobody may start on a retired    *)
(* client, requests already running on it finish undisturbed, and once it  *)
(* is unused its idle connections are closed for good.                     *)
(***************************************************************************)
EXTENDS Naturals, FiniteSets

CONSTANTS
    Keys,        \* pool keys: one upstream target with its transport settings
    ClientIds,   \* identities of *ManagedClient objects
    Requests,    \* request goroutines
    Nil          \* the nil pointer

VARIABLES
    current,     \* current[k]: the client in the map under key k, or Nil
    using,       \* using[p]: the client request p holds, or Nil
    retired,     \* clients marked draining
    warm,        \* clients whose transport keeps idle connections open
    born         \* clients ever created

pvars == <<current, using, retired, warm, born>>

PInit ==
    /\ current = [k \in Keys |-> Nil]
    /\ using = [p \in Requests |-> Nil]
    /\ retired = {}
    /\ warm = {}
    /\ born = {}

\* Request p starts with the current client of key k, ...
Reuse(p, k) ==
    /\ using[p] = Nil
    /\ current[k] \in ClientIds \ retired
    /\ using' = [using EXCEPT ![p] = current[k]]
    /\ UNCHANGED <<current, retired, warm, born>>

\* ... or, when there is none to share, with a client created for it.
Create(p, k) ==
    /\ using[p] = Nil
    /\ current[k] \notin ClientIds \ retired
    /\ \E c \in ClientIds \ born :
         /\ using' = [using EXCEPT ![p] = c]
         /\ current' = [current EXCEPT ![k] = c]
         /\ born' = born \cup {c}
    /\ UNCHANGED <<retired, warm>>

\* Running a request may open, keep or consume connections of its client only.
Exchange(p) ==
    /\ using[p] # Nil
    /\ warm' \in {warm \cup {using[p]}, warm \ {using[p]}}
    /\ UNCHANGED <<current, using, retired, born>>

End(p) ==
    /\ using[p] # Nil
    /\ using' = [using EXCEPT ![p] = Nil]
    /\ UNCHANGED <<current, retired, warm, born>>

RetireAll ==
    /\ retired' = retired \cup ({current[k] : k \in Keys} \ {Nil})
    /\ UNCHANGED <<current, using, warm, born>>

\* Idle connections are closed only on a retired client.
Cool(c) ==
    /\ c \in retired
    /\ warm' = warm \ {c}
    /\ UNCHANGED <<current, using, retired, born>>

PNext ==
    \/ \E p \in Requests : \/ \E k \in Keys : Reuse(p, k) \/ Create(p, k)
                           \/ Exchange(p)
                           \/ End(p)
    \/ RetireAll
    \/ \E c \in ClientIds : Cool(c)

\* The safety part of the promise, which ClientPool is shown to implement.
PSafety == PInit /\ [][PNext]_pvars

\* The eventual part: a retired client ends up cold and stays cold.
RetiredGoesCold == \A c \in ClientIds : []((c \in retired) => <>[](c \notin warm))
=============================================================================
