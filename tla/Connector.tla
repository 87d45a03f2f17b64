----------------------------- MODULE Connector -----------------------------
(***************************************************************************)
(* An HTTP client of a remote system, connectors/smartup.py or             *)
(* connectors/aslbelgisi.py, around the circuit breaker of its base URL:   *)
(* before_call, up to three attempts of one request with pauses between    *)
(* them, then on_success or on_failure.  Every public method of a client   *)
(* is one or several such requests and a reshaping of their answers.       *)
(*                                                                         *)
(* The variable up of CircuitBreaker is here what the code takes for the   *)
(* remote system being up.  Promise is the breaker with the idea that the  *)
(* comments on the clients give of it.                                     *)
(***************************************************************************)
EXTENDS CircuitBreaker

CONSTANT MaxTries   \* stop_after_attempt

ASSUME ConnectorAssumption == MaxTries \in Nat \ {0}

VARIABLES
    tries,      \* per coroutine, attempts of its request that failed
    remote,     \* what the remote system does with an attempt
    client      \* which of the two clients this is

connectorVars == <<vars, tries, remote, client>>

(* It answers, refuses the request (4xx), has too many (429), breaks (5xx) *)
(* or is silent until the timeout.                                         *)
Remote == {"ok", "refuses", "throttles", "breaks", "silent"}

(* Which outcomes the breaker counts, and which are retried.               *)
AnyError(cl, r) == r # "ok"
Transient(cl, r) ==
    IF cl = "smartup" THEN r \in {"breaks", "silent"}
    ELSE r \in {"throttles", "breaks", "silent"}

Retried(cl, r) == IF cl = "smartup" THEN r = "silent" ELSE Transient(cl, r)

ConnectorInit ==
    /\ Init
    /\ tries = [c \in Calls |-> 0]
    /\ remote = "ok"
    /\ client \in {"smartup", "aslbelgisi"}

-----------------------------------------------------------------------------
(* A method of the client is called: before_call lets it through. *)
BeginRequest(c) ==
    /\ Begin(c)
    /\ tries' = [tries EXCEPT ![c] = 0]
    /\ UNCHANGED <<remote, client>>

(* The attempt at hand is followed by another. *)
Again(c) == Retried(client, remote) /\ tries[c] + 1 < MaxTries

Retry(c) ==
    /\ call[c] # "none"
    /\ Again(c)
    /\ tries' = [tries EXCEPT ![c] = @ + 1]
    /\ UNCHANGED <<vars, remote, client>>

(* The request ends with an answer, a refusal, or an error that is not     *)
(* retried; the breaker is told.                                           *)
EndRequest(c) ==
    /\ ~Again(c)
    /\ OnSuccess(c) \/ OnFailure(c)
    /\ UNCHANGED <<tries, remote, client>>

CancelRequest(c) == Cancelled(c) /\ UNCHANGED <<tries, remote, client>>

ConnectorTick == Tick /\ UNCHANGED <<tries, remote, client>>

RemoteChanges ==
    /\ remote' \in Remote \ {remote}
    /\ up' = ~Transient(client, remote')
    /\ UNCHANGED <<breaker, call, streak, tries, client>>

ConnectorNext ==
    \/ \E c \in Calls :
         BeginRequest(c) \/ Retry(c) \/ EndRequest(c) \/ CancelRequest(c)
    \/ ConnectorTick
    \/ RemoteChanges

(* Attempts end (each has a timeout), the clock runs, somebody calls.      *)
ConnectorFairness ==
    /\ WF_connectorVars(ConnectorTick)
    /\ \E c \in Calls : SF_connectorVars(BeginRequest(c)) /\ SF_connectorVars(EndRequest(c))
    /\ \A c \in Calls : WF_connectorVars(Retry(c) \/ EndRequest(c) \/ CancelRequest(c))

ConnectorSpec == ConnectorInit /\ [][ConnectorNext]_connectorVars
FairConnectorSpec == ConnectorSpec /\ ConnectorFairness

-----------------------------------------------------------------------------
(* Properties *)

(* The remote system works, as far as its callers can tell: it answers, or *)
(* refuses what they ask; to Smartup's client a 429 is such a refusal.     *)
Works ==
    \/ remote \in {"ok", "refuses"}
    \/ client = "smartup" /\ remote = "throttles"

Promise == INSTANCE CircuitBreaker WITH up <- Works

(* Whole requests, with their retries inside and their HTTP statuses, make *)
(* the breaker behave as CircuitBreaker says, which knows only calls that  *)
(* succeed or fail (the try blocks of _post and _get).                     *)
BreakerKeepsPromise == Promise!Spec
=============================================================================
