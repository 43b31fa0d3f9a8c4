------------------------- MODULE SerializedRequests -------------------------
(***************************************************************************)
(* What the clients of the app server may rely on: the requests of one key *)
(* begin in the order in which they came, a request that writes runs with  *)
(* no other request of its key, requests that only read may run together,  *)
(* each request runs at most once, and what becomes of one key does not    *)
(* touch the requests of another.                                          *)
(*                                                                         *)
(* How it is kept, with a queue and a drain task per key, gates that close *)
(* and handlers that panic, is module RequestQueues.                       *)
(***************************************************************************)
EXTENDS Naturals

CONSTANTS
    Keys,      \* what requests are serialized by
    NoKey,     \* the "key" of a request that is not serialized
    Requests   \* the requests, numbered as they come

VARIABLES
    key,      \* [Requests -> key or NoKey]
    access,   \* [Requests -> Exclusive or SharedRead]
    phase     \* [Requests -> absent, waiting, running or over]

vars == <<key, access, phase>>

Init ==
    /\ key = [r \in Requests |-> NoKey]
    /\ access = [r \in Requests |-> "Exclusive"]
    /\ phase = [r \in Requests |-> "absent"]

\* The next request comes, to read or to write what the key stands for.
Come(r) ==
    /\ phase[r] = "absent"
    /\ \A q \in Requests : phase[q] = "absent" <=> r <= q
    /\ phase' = [phase EXCEPT ![r] = "waiting"]
    /\ \E k \in Keys \cup {NoKey} : key' = [key EXCEPT ![r] = k]
    /\ \E a \in {"Exclusive", "SharedRead"} : access' = [access EXCEPT ![r] = a]

Active(r) == phase[r] \in {"waiting", "running"}

Together(q, r) == access[q] = "SharedRead" /\ access[r] = "SharedRead"

\* Every earlier request of the key is over, or both only read.
ItsTurn(r) ==
    \A q \in Requests :
        q < r /\ key[q] = key[r] /\ key[r] # NoKey => phase[q] = "over" \/ Together(q, r)

Begin(r) ==
    /\ phase[r] = "waiting"
    /\ phase' = [phase EXCEPT ![r] = "running"]
    /\ ItsTurn(r)
    /\ UNCHANGED <<key, access>>

\* A request ends: it is answered, turned away, or lost together with
\* requests that read beside it.
End(r) ==
    /\ Active(r)
    /\ \E S \in SUBSET {q \in Requests : Active(q) /\ key[q] = key[r] /\ Together(q, r)} :
          /\ phase' = [q \in Requests |-> IF q \in S \cup {r} THEN "over" ELSE phase[q]]
          /\ S # {} => key[r] # NoKey
          /\ \A q \in S \cup {r} : ItsTurn(q)
    /\ UNCHANGED <<key, access>>

Next == \E r \in Requests : Come(r) \/ Begin(r) \/ End(r)

Spec == Init /\ [][Next]_vars
=============================================================================
