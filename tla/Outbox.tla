------------------------------- MODULE Outbox -------------------------------
(***************************************************************************)
(* The transactional outbox towards the ERP (Smartup) and the marking      *)
(* registry (Asl Belgisi): app/services/outbox.py, the delivery worker of  *)
(* app/worker/outbox_worker.py and the operator's approval gate in         *)
(* endpoints/connectors.py.                                                *)
(*                                                                         *)
(* A worker loads the due messages under FOR UPDATE SKIP LOCKED and then,  *)
(* one message after the other, calls the remote system and commits the    *)
(* result.  The first commit releases the locks of the whole batch.        *)
(***************************************************************************)
EXTENDS Integers, FiniteSets

CONSTANTS
    Messages,       \* outbox rows, numbered in the order of created_at
    Workers,        \* delivery workers, one per server process
    Clerks,         \* operators at the approval panel
    NeedApproval,   \* messages of an APPROVAL_REQUIRED_EVENTS type
    AsyncDocs,      \* messages answered with the id of a document to poll
    MaxAttempts,    \* MAX_ATTEMPTS
    Limit,          \* how many due messages a worker loads
    MaxTries,       \* attempts a connector makes within one call
    MaxReceived,    \* bound: received counts no further
    Faults          \* which of "crash" and "lost" (an answer) can happen

ASSUME OutboxAssumption ==
    /\ Messages \subseteq Nat
    /\ IsFiniteSet(Messages)
    /\ NeedApproval \subseteq Messages
    /\ AsyncDocs \subseteq Messages
    /\ MaxAttempts \in Nat \ {0}
    /\ Limit \in Nat \ {0}
    /\ MaxTries \in Nat \ {0}
    /\ MaxReceived \in Nat \ {0, 1}
    /\ Faults \subseteq {"crash", "lost"}

VARIABLES
    outbox,     \* the outbox_messages table
    worker,     \* per worker, the batch it is delivering
    clerk,      \* per operator, the request in flight
    received,   \* how often the remote system accepted a message (history)
    refused,    \* messages it refused in an answer of status 200 (history)
    approved,   \* messages an approval was committed for (history)
    exposed     \* messages whose call may be repeated (history): the answer was
                \* lost, the worker died before recording it, or two workers
                \* had the message in their batches at once

vars == <<outbox, worker, clerk, received, refused, approved, exposed>>

(* next_retry_at is APPROVAL_HOLD, in the future, or past. *)
Row == [status : {"none", "pending", "sent", "failed"},
        retry : {"hold", "later", "now"},
        attempts : 0..MaxAttempts,
        payload : {"plain", "awaiting", "approved", "rejected"},
        doc : BOOLEAN,
        result : {"none", "success", "error"}]

NoRow == [status |-> "none", retry |-> "now", attempts |-> 0, payload |-> "plain",
          doc |-> FALSE, result |-> "none"]

(* tries: attempts as loaded with the batch; answer: what the call returned. *)
Batch == [pc : {"sending", "answered"}, todo : SUBSET Messages,
          tries : [Messages -> 0..MaxAttempts], locking : BOOLEAN,
          answer : {"ok", "doc", "error"}]
Resting == [pc |-> "resting"]
Idle == [pc |-> "idle"]

TypeOK ==
    /\ outbox \in [Messages -> Row]
    /\ worker \in [Workers -> Batch \cup {Resting}]
    /\ clerk \in [Clerks -> [pc : {"approving", "rejecting"}, msg : Messages] \cup {Idle}]
    /\ received \in [Messages -> 0..MaxReceived]
    /\ refused \subseteq Messages
    /\ approved \subseteq Messages
    /\ exposed \subseteq Messages

Init ==
    /\ outbox = [m \in Messages |-> NoRow]
    /\ worker = [w \in Workers |-> Resting]
    /\ clerk = [c \in Clerks |-> Idle]
    /\ received = [m \in Messages |-> 0]
    /\ refused = {}
    /\ approved = {}
    /\ exposed = {}

Delivering(w) == worker[w].pc \in {"sending", "answered"}

(* Rows that a worker's transaction has locked; none after its first commit. *)
Locked(m) == \E w \in Workers : Delivering(w) /\ worker[w].locking /\ m \in worker[w].todo
LockedByOther(w, m) ==
    \E v \in Workers \ {w} : Delivering(v) /\ worker[v].locking /\ m \in worker[v].todo

-----------------------------------------------------------------------------
(* The handlers: enqueue, approve, reject *)

Enqueue(m) ==
    /\ outbox[m].status = "none"
    /\ outbox' = [outbox EXCEPT ![m].status = "pending",
                                ![m].retry = IF m \in NeedApproval THEN "hold" ELSE "now",
                                ![m].payload = IF m \in NeedApproval THEN "awaiting" ELSE "plain"]
    /\ UNCHANGED <<worker, clerk, received, refused, approved, exposed>>

Held(m) == outbox[m].status = "pending" /\ outbox[m].retry = "hold"

Decide(c, m, decision) ==
    /\ clerk[c] = Idle
    /\ Held(m)
    /\ clerk' = [clerk EXCEPT ![c] = [pc |-> decision, msg |-> m]]
    /\ UNCHANGED <<outbox, worker, received, refused, approved, exposed>>

ApproveCommit(c) ==
    LET m == clerk[c].msg IN
    /\ clerk[c].pc = "approving"
    /\ ~Locked(m)
    /\ outbox' = [outbox EXCEPT ![m].payload = "approved", ![m].retry = "now"]
    /\ approved' = approved \cup {m}
    /\ clerk' = [clerk EXCEPT ![c] = Idle]
    /\ UNCHANGED <<worker, received, refused, exposed>>

RejectCommit(c) ==
    LET m == clerk[c].msg IN
    /\ clerk[c].pc = "rejecting"
    /\ ~Locked(m)
    /\ outbox' = [outbox EXCEPT ![m].payload = "rejected", ![m].status = "failed"]
    /\ clerk' = [clerk EXCEPT ![c] = Idle]
    /\ UNCHANGED <<worker, received, refused, approved, exposed>>

-----------------------------------------------------------------------------
(* The worker *)

DueOrHeld == {m \in Messages : outbox[m].status = "pending" /\ outbox[m].retry # "later"}
Due == {m \in Messages : outbox[m].status = "pending" /\ outbox[m].retry = "now"}

(* The oldest due messages that no other worker has locked. *)
Oldest(batch) ==
    LET free == {m \in Due : ~Locked(m)} IN
    /\ batch \subseteq free
    /\ \A m \in batch, n \in free \ batch : m < n
    /\ Cardinality(batch) <= Limit
    /\ batch = free \/ Cardinality(batch) = Limit

GetDue(w) ==
    /\ worker[w] = Resting
    /\ \E batch \in SUBSET Messages :
         /\ batch # {}
         /\ Oldest(batch)
         /\ worker' = [worker EXCEPT ![w] =
                         [pc |-> "sending", todo |-> batch,
                          tries |-> [m \in Messages |-> IF m \in batch THEN outbox[m].attempts ELSE 0],
                          locking |-> TRUE, answer |-> "error"]]
         /\ exposed' = exposed \cup
                {m \in batch : \E v \in Workers : Delivering(v) /\ m \in worker[v].todo}
    /\ UNCHANGED <<outbox, clerk, received, refused, approved>>

(* The message a worker is at. *)
Current(w, m) == m \in worker[w].todo /\ \A n \in worker[w].todo : m <= n

(* Of the attempts a call makes, those the remote system took and whose    *)
(* answer did not arrive: all of them, or all but the last.                *)
AnswerLost(taken, answer) ==
    IF answer \in {"ok", "doc"} THEN taken > 1 ELSE taken > 0

Counted(n, taken) == IF n + taken < MaxReceived THEN n + taken ELSE MaxReceived

(* The boolean that a call of Smartup returns is dropped (_dispatch_smartup). *)
Returned(answer) == IF answer = "refused" THEN "ok" ELSE answer

(* The remote system takes the message, once per attempt, or not at all    *)
(* (nor does it when the circuit is open and no attempt is made).  Smartup *)
(* can refuse it with success: false in an answer of status 200.           *)
Send(w, m) ==
    /\ worker[w].pc = "sending"
    /\ Current(w, m)
    /\ \E taken \in 0..MaxTries, answer \in {"ok", "doc", "refused", "error"} :
         /\ answer \in {"ok", "doc"} => taken > 0
         /\ answer = "refused" => taken < MaxTries
         /\ AnswerLost(taken, answer) => "lost" \in Faults
         /\ answer = "doc" => m \in AsyncDocs
         /\ answer = "refused" => m \notin AsyncDocs
         /\ received' = [received EXCEPT ![m] = Counted(@, taken)]
         /\ refused' = IF answer = "refused" THEN refused \cup {m} ELSE refused
         /\ worker' = [worker EXCEPT ![w].pc = "answered", ![w].answer = Returned(answer)]
         /\ exposed' = IF AnswerLost(taken, answer) THEN exposed \cup {m} ELSE exposed
    /\ UNCHANGED <<outbox, clerk, approved>>

StillPending(row, tries, answer) == [row EXCEPT !.attempts = tries + 1]
MarkSent(row, tries, answer) ==
    [row EXCEPT !.attempts = tries + 1, !.status = "sent", !.doc = @ \/ answer = "doc"]

GiveUp(tries) == tries + 1 >= MaxAttempts

HeldAgain(row, tries) ==
    IF GiveUp(tries) THEN [row EXCEPT !.attempts = tries + 1, !.status = "failed"]
    ELSE [row EXCEPT !.attempts = tries + 1, !.retry = "hold"]
MarkFailed(row, tries) ==
    IF GiveUp(tries) THEN [row EXCEPT !.attempts = tries + 1, !.status = "failed"]
    ELSE [row EXCEPT !.attempts = tries + 1, !.retry = "later"]

NoError(answer) == TRUE
Delivered(answer) == answer # "error"

(* The batch was loaded as pending, so the status is written only when it  *)
(* changes; attempts are counted from the value loaded with the batch,     *)
(* which is of no more use then.                                           *)
Record(w, m) ==
    LET b == worker[w] IN
    /\ b.pc = "answered"
    /\ Current(w, m)
    /\ ~LockedByOther(w, m)
    /\ outbox' = [outbox EXCEPT ![m] =
                    IF Delivered(b.answer) THEN MarkSent(@, b.tries[m], b.answer)
                    ELSE MarkFailed(@, b.tries[m])]
    /\ worker' = [worker EXCEPT ![w] =
                    IF b.todo = {m} THEN Resting
                    ELSE [b EXCEPT !.pc = "sending", !.todo = @ \ {m}, !.locking = FALSE,
                                   !.tries[m] = 0, !.answer = "error"]]
    /\ UNCHANGED <<clerk, received, refused, approved, exposed>>

(* Documents whose processing the registry has not reported yet. *)
StillQueued(row) == row.status = "pending" /\ row.doc /\ row.result = "none"
InFlight(row) == row.status = "sent" /\ row.doc /\ row.result = "none"

(* Stage 2: poll a document; while it is in process nothing changes. *)
PollDoc(w, m) ==
    /\ worker[w] = Resting
    /\ InFlight(outbox[m])
    /\ \E result \in {"success", "error"} : outbox' = [outbox EXCEPT ![m].result = result]
    /\ UNCHANGED <<worker, clerk, received, refused, approved, exposed>>

Crash(w) ==
    /\ "crash" \in Faults
    /\ Delivering(w)
    /\ worker' = [worker EXCEPT ![w] = Resting]
    /\ exposed' = IF worker[w].pc = "answered"
                    THEN exposed \cup {m \in Messages : Current(w, m)} ELSE exposed
    /\ UNCHANGED <<outbox, clerk, received, refused, approved>>

(* The exponential backoff of a failed delivery is over. *)
BackoffElapses(m) ==
    /\ outbox[m].retry = "later"
    /\ outbox' = [outbox EXCEPT ![m].retry = "now"]
    /\ UNCHANGED <<worker, clerk, received, refused, approved, exposed>>

-----------------------------------------------------------------------------

Deliver(w) ==
    \/ GetDue(w)
    \/ \E m \in Messages : Send(w, m) \/ Record(w, m) \/ PollDoc(w, m)
    \/ Crash(w)

Approval(c) ==
    \/ \E m \in Messages, decision \in {"approving", "rejecting"} : Decide(c, m, decision)
    \/ ApproveCommit(c)
    \/ RejectCommit(c)

Next ==
    \/ \E m \in Messages : Enqueue(m) \/ BackoffElapses(m)
    \/ \E w \in Workers : Deliver(w)
    \/ \E c \in Clerks : Approval(c)

Spec == Init /\ [][Next]_vars

-----------------------------------------------------------------------------
(* Properties *)

(* A stock correction reaches the ERP only after an operator approved it,  *)
(* however approvals, rejections and workers overlap (the approval gate).  *)
ApprovedBeforeSent ==
    \A m \in NeedApproval : received[m] > 0 => m \in approved

(* A message marked sent was accepted by the remote system, or refused in  *)
(* an answer that the worker takes for a success, even if the worker       *)
(* crashed or another worker delivered it too; one for the registry was    *)
(* accepted (_deliver).                                                    *)
Answer(m) == received[m] > 0 \/ (m \in refused /\ m \notin AsyncDocs)

SentMeansAnswered ==
    \A m \in Messages : outbox[m].status = "sent" => Answer(m)

(* A message that two workers did not share is given up only after         *)
(* MAX_ATTEMPTS recorded calls, crashes notwithstanding, or because an     *)
(* operator rejected it (mark_failed, reject).                             *)
FailedMeansExhausted ==
    \A m \in Messages \ exposed :
      outbox[m].status = "failed" =>
        outbox[m].attempts = MaxAttempts \/ m \in NeedApproval

(* The remote system takes a message twice only for one of three reasons:  *)
(* a lost answer, a crash between the call and its commit, or two workers  *)
(* that had the message in their batches at the same time (_deliver).      *)
DuplicatesExplained == \A m \in Messages : received[m] > 1 => m \in exposed

(* Without a crash or a lost answer a message is delivered once            *)
(* (get_due: "so multiple worker instances don't double-send").            *)
ReceivedOnce == \A m \in Messages : received[m] <= 1

-----------------------------------------------------------------------------
(* Liveness *)

(* The worker loop is restarted for ever and the backoff ends; a crash     *)
(* does not hit every single iteration.                                    *)
Fairness ==
    /\ \A m \in Messages : WF_vars(BackoffElapses(m))
    /\ \A w \in Workers :
         /\ SF_vars(GetDue(w))
         /\ SF_vars(\E m \in Messages : Send(w, m))
         /\ SF_vars(\E m \in Messages : Record(w, m))
         /\ \A m \in AsyncDocs : SF_vars(PollDoc(w, m))

FairSpec == Spec /\ Fairness

(* A message that may be sent is at last sent, or given up.                *)
DueIsSettled ==
    \A m \in Messages :
      outbox[m].status = "pending" /\ outbox[m].retry # "hold"
        ~> outbox[m].status \in {"sent", "failed"}

(* A document the registry took is polled to its end (_poll_async_docs),   *)
(* unless two workers shared its message: the late one can mark it failed. *)
DocsAreFinalised ==
    \A m \in Messages :
      outbox[m].status = "sent" /\ outbox[m].doc
        ~> outbox[m].result # "none" \/ m \in exposed
=============================================================================
