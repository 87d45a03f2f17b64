------------------------------ MODULE Requests ------------------------------
(***************************************************************************)
(* Requests to the server: each runs in a database session of its own      *)
(* (get_db), and several are in flight together.                           *)
(***************************************************************************)
EXTENDS Naturals

CONSTANTS
    Sessions,     \* requests that can be in flight together
    MaxRequests   \* bound: how many requests begin

ASSUME RequestsAssumption == MaxRequests \in Nat

VARIABLES
    req,        \* per session, the transaction it has open
    begun       \* how many requests have begun

Idle == [pc |-> "idle"]

NoRequests == req = [s \in Sessions |-> Idle] /\ begun = 0

(* A request comes in; requests are counted up to the bound. *)
Arrives(s) == req[s] = Idle /\ begun < MaxRequests /\ begun' = begun + 1

Becomes(s, request) == req' = [req EXCEPT ![s] = request]

Ends(s) == Becomes(s, Idle)
=============================================================================
