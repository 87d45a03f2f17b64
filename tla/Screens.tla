------------------------------ MODULE Screens ------------------------------
(***************************************************************************)
(* The live screens of one tenant: core/events.py's bus, its publishers    *)
(* (_publish_stock of services/ledger.py, _publish_reservation of          *)
(* services/putaway.py), the stream of endpoints/realtime.py, and the      *)
(* browser's useRealtime, which fetches the data again on every event.     *)
(***************************************************************************)
EXTENDS Requests, Sequences, FiniteSets

CONSTANTS
    Viewers,    \* browsers
    Changes,    \* postings and reservations, each by a transaction of its own
    MaxQueue    \* max_queue of EventBus

ASSUME ScreensAssumption == MaxQueue \in Nat \ {0}

VARIABLES
    posted,      \* changes written, whether they are committed or not
    committed,   \* changes in the database
    subscribed,  \* viewers whose queue is on the bus
    stream,      \* per viewer: the event source is open, and the queue behind it
    screen,      \* per viewer: the changes it shows, whether it is fetching
    untold,      \* per viewer, changes whose event did not get through (history)
    early        \* per viewer, changes fetched for before their commit (history)

screensVars == <<posted, committed, subscribed, stream, screen, untold, early>>

Closed == [open |-> FALSE, queue |-> <<>>]

ScreensInit ==
    /\ posted = {} /\ committed = {}
    /\ subscribed = {}
    /\ stream = [v \in Viewers |-> Closed]
    /\ screen = [v \in Viewers |-> [shows |-> {}, fetching |-> FALSE, heard |-> {}]]
    /\ untold = [v \in Viewers |-> {}]
    /\ early = [v \in Viewers |-> {}]

-----------------------------------------------------------------------------
(* The transaction that makes a change, which is published before it is    *)
(* committed; a queue that is full misses it.                              *)

Full(v) == Len(stream[v].queue) >= MaxQueue

Post(s, c) ==
    /\ Arrives(s)
    /\ c \notin posted
    /\ posted' = posted \cup {c}
    /\ stream' = [v \in Viewers |->
                    IF v \in subscribed /\ ~Full(v)
                      THEN [stream[v] EXCEPT !.queue = Append(@, c)]
                    ELSE stream[v]]
    /\ untold' = [v \in Viewers |->
                    IF stream[v].open /\ ~Full(v) THEN untold[v] ELSE untold[v] \cup {c}]
    /\ Becomes(s, [pc |-> "posted", change |-> c])
    /\ UNCHANGED <<committed, subscribed, screen, early>>

PostCommit(s) ==
    /\ req[s].pc = "posted"
    /\ committed' = committed \cup {req[s].change}
    /\ Ends(s)
    /\ UNCHANGED <<posted, subscribed, stream, screen, untold, early, begun>>

PostRollback(s) ==
    /\ req[s].pc = "posted"
    /\ Ends(s)
    /\ UNCHANGED <<screensVars, begun>>

-----------------------------------------------------------------------------
(* The stream and the browser *)

(* Nothing is fetched on connecting. *)
Connect(v) ==
    /\ ~stream[v].open
    /\ stream' = [stream EXCEPT ![v].open = TRUE]
    /\ subscribed' = subscribed \cup {v}
    /\ UNCHANGED <<posted, committed, screen, untold, early, req, begun>>

(* unsubscribe: the queue is gone with what is in it.                      *)
NoneLeft(v) == {}
Without(v) == subscribed \ {v}

Disconnect(v) ==
    /\ stream[v].open
    /\ untold' = [untold EXCEPT ![v] = @ \cup {stream[v].queue[i] : i \in DOMAIN stream[v].queue}]
    /\ stream' = [stream EXCEPT ![v] = Closed]
    /\ subscribed' = Without(v)
    /\ UNCHANGED <<posted, committed, screen, early, req, begun>>

(* An event marks the queries stale: a fetch under way starts again.       *)
Hear(v) ==
    /\ stream[v].queue # <<>>
    /\ stream' = [stream EXCEPT ![v].queue = Tail(@)]
    /\ screen' = [screen EXCEPT ![v].fetching = TRUE, ![v].heard = @ \cup {Head(stream[v].queue)}]
    /\ UNCHANGED <<posted, committed, subscribed, untold, early, req, begun>>

Fetching(v) ==
    /\ screen[v].fetching
    /\ screen' = [screen EXCEPT ![v].shows = committed, ![v].fetching = FALSE]
    /\ early' = [early EXCEPT ![v] = @ \cup (screen[v].heard \ committed)]
    /\ UNCHANGED <<posted, committed, subscribed, stream, untold, req, begun>>

-----------------------------------------------------------------------------

Change(s) == (\E c \in Changes : Post(s, c)) \/ PostCommit(s) \/ PostRollback(s)

Watch(v) == Connect(v) \/ Disconnect(v) \/ Hear(v) \/ Fetching(v)
=============================================================================
