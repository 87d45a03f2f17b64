---------------------------- MODULE OfflineQueue ----------------------------
(***************************************************************************)
(* The offline queue of the handheld terminal: OfflineQueue.kt, the        *)
(* replaying SyncManager.kt and WmsOps.submit, which posts an operation or *)
(* queues it.                                                              *)
(*                                                                         *)
(* An edit of the queue reads the whole file, writes the edited copy to    *)
(* one temporary file and renames that over the queue.  The lock around    *)
(* the three belongs to the OfflineQueue object, and every thread makes an *)
(* object of its own.  The content of a file is written in one step.       *)
(***************************************************************************)
EXTENDS Integers, Sequences, FiniteSets

CONSTANTS
    Threads,      \* threads of the app that submit or replay operations
    Ops,          \* operations an operator submits
    MaxAttempts,  \* OfflineQueue.MAX_ATTEMPTS
    Absent,       \* the operation is not in a file
    Gone,         \* the temporary file does not exist
    Faults        \* which of "crash" and "lost" (an answer) can happen

ASSUME OfflineQueueAssumption ==
    /\ MaxAttempts \in Nat \ {0}
    /\ Absent \notin Nat
    /\ Gone \notin [Ops -> Nat \cup {Absent}]
    /\ Faults \subseteq {"crash", "lost"}

VARIABLES
    file,      \* the queue file: the attempts of each operation in it
    tmp,       \* the temporary file
    thread,    \* per thread, what it is doing
    submitted, \* operations the operator has submitted
    promised,  \* operations reported as queued (history)
    settled,   \* operations answered for good or given up (history)
    calls,     \* replays of each operation, up to MaxAttempts (history)
    accepted,  \* how often the server took each operation, up to 2 (history)
    exposed,   \* operations whose answer was lost, or answered and not yet
               \* removed when the app died (history)
    raced      \* two threads have edited the file at once (history)

vars == <<file, tmp, thread, submitted, promised, settled, calls, accepted, exposed, raced>>

Idle == [pc |-> "idle"]

Empty == [o \in Ops |-> Absent]

Init ==
    /\ file = Empty
    /\ tmp = Gone
    /\ thread = [t \in Threads |-> Idle]
    /\ submitted = {}
    /\ promised = {}
    /\ settled = {}
    /\ calls = [o \in Ops |-> 0]
    /\ accepted = [o \in Ops |-> 0]
    /\ exposed = {}
    /\ raced = FALSE

InFile(o) == file[o] # Absent

(* An operation the server takes, once more. *)
Taken(o) == accepted' = [accepted EXCEPT ![o] = IF @ < 2 THEN @ + 1 ELSE @]

AnswerLost(o) == "lost" \in Faults /\ Taken(o) /\ exposed' = exposed \cup {o}

Edit(kind, o) == [kind |-> kind, op |-> o]

-----------------------------------------------------------------------------
(* WmsOps.submit *)

Begin(t, edits) ==
    thread' = [thread EXCEPT ![t] =
                 [pc |-> "read", edits |-> edits, todo |-> Empty, syncing |-> FALSE]]

(* A refused operation (4xx) is reported as failed and changes nothing. *)
SubmitDirect(t, o) ==
    /\ thread[t] = Idle
    /\ o \notin submitted
    /\ submitted' = submitted \cup {o}
    /\ Taken(o)
    /\ UNCHANGED <<file, tmp, thread, promised, settled, calls, exposed, raced>>

(* Offline, no answer, a 5xx, 401 or 429: the operation is queued. *)
SubmitQueued(t, o) ==
    /\ thread[t] = Idle
    /\ o \notin submitted
    /\ submitted' = submitted \cup {o}
    /\ \/ UNCHANGED <<accepted, exposed>>
       \/ AnswerLost(o)
    /\ Begin(t, <<Edit("add", o)>>)
    /\ UNCHANGED <<file, tmp, promised, settled, calls, raced>>

-----------------------------------------------------------------------------
(* SyncManager.flush *)

(* SyncManager.running *)
Running == \E t \in Threads : thread[t] # Idle /\ thread[t].syncing

SyncStart(t) ==
    /\ thread[t] = Idle
    /\ ~Running
    /\ file # Empty
    /\ thread' = [thread EXCEPT ![t] =
                    [pc |-> "next", edits |-> <<>>, todo |-> file, syncing |-> TRUE]]
    /\ UNCHANGED <<file, tmp, submitted, promised, settled, calls, accepted, exposed, raced>>

(* What flush does to the queue for an answer, n being the attempts listed. *)
KeepAnswered(o, n, answer) == IF answer = "error" THEN <<Edit("bump", o)>> ELSE <<>>
DropEarly(o, n, answer) == IF n + 2 >= MaxAttempts THEN <<Edit("remove", o)>> ELSE <<Edit("bump", o)>>
EditsFor(o, n, answer) ==
    IF answer # "error" THEN <<Edit("remove", o)>>
    ELSE IF n + 1 >= MaxAttempts THEN <<Edit("bump", o), Edit("remove", o)>>
    ELSE <<Edit("bump", o)>>

(* A listed operation is posted, and a 401 posts it again after a login.   *)
(* "refused" is a 4xx other than 401 and 429.                              *)
Replay(t, o, answer) ==
    LET q == thread[t]
        edits == EditsFor(o, q.todo[o], answer) IN
    /\ q # Idle
    /\ q.pc = "next"
    /\ q.todo[o] # Absent
    /\ \/ answer = "ok" /\ Taken(o) /\ UNCHANGED exposed
       \/ answer # "ok" /\ UNCHANGED <<accepted, exposed>>
       \/ answer = "error" /\ AnswerLost(o)
    /\ calls' = [calls EXCEPT ![o] = IF @ < MaxAttempts THEN @ + 1 ELSE @]
    /\ settled' = IF answer # "error" \/ calls'[o] = MaxAttempts
                    THEN settled \cup {o} ELSE settled
    /\ thread' = [thread EXCEPT ![t].pc = IF edits = <<>> THEN "next" ELSE "read",
                                ![t].edits = edits,
                                ![t].todo[o] = Absent]
    /\ UNCHANGED <<file, tmp, submitted, promised, raced>>

SyncEnd(t) ==
    /\ thread[t] # Idle
    /\ thread[t].pc = "next"
    /\ thread[t].todo = Empty
    /\ thread' = [thread EXCEPT ![t] = Idle]
    /\ UNCHANGED <<file, tmp, submitted, promised, settled, calls, accepted, exposed, raced>>

-----------------------------------------------------------------------------
(* OfflineQueue: read, write, rename *)

Editing(t) == thread[t] # Idle /\ thread[t].pc \in {"write", "rename"}

ReadArray(t) ==
    /\ thread[t] # Idle
    /\ thread[t].pc = "read"
    /\ thread' = [thread EXCEPT ![t] =
                    [pc |-> "write", edits |-> @.edits, todo |-> @.todo,
                     syncing |-> @.syncing, array |-> file]]
    /\ raced' = (raced \/ \E u \in Threads : Editing(u))
    /\ UNCHANGED <<file, tmp, submitted, promised, settled, calls, accepted, exposed>>

(* Attempts are counted no further than MaxAttempts: a crash between the   *)
(* last bump and the removal lets the code count on, to no effect.         *)
Apply(array, edit) ==
    LET n == array[edit.op] IN
    [array EXCEPT ![edit.op] =
       CASE edit.kind = "add" -> 0
         [] edit.kind = "remove" -> Absent
         [] edit.kind = "bump" -> IF n \in {Absent, MaxAttempts} THEN n ELSE n + 1]

WriteArray(t) ==
    /\ thread[t] # Idle
    /\ thread[t].pc = "write"
    /\ tmp' = Apply(thread[t].array, Head(thread[t].edits))
    /\ thread' = [thread EXCEPT ![t] =
                    [pc |-> "rename", edits |-> @.edits, todo |-> @.todo, syncing |-> @.syncing]]
    /\ UNCHANGED <<file, submitted, promised, settled, calls, accepted, exposed, raced>>

(* renameTo: when another thread has renamed the file already, it fails     *)
(* and nobody looks.  An added operation is now reported as queued.         *)
RenameTo == IF tmp = Gone THEN file ELSE tmp

Rename(t) ==
    LET q == thread[t]
        edit == Head(q.edits)
        rest == Tail(q.edits) IN
    /\ q # Idle
    /\ q.pc = "rename"
    /\ file' = RenameTo
    /\ tmp' = Gone
    /\ promised' = IF edit.kind = "add" THEN promised \cup {edit.op} ELSE promised
    /\ thread' = [thread EXCEPT ![t] =
                    IF rest # <<>> THEN [q EXCEPT !.pc = "read", !.edits = rest]
                    ELSE IF q.syncing THEN [q EXCEPT !.pc = "next", !.edits = <<>>]
                    ELSE Idle]
    /\ UNCHANGED <<submitted, settled, calls, accepted, exposed, raced>>

(* A replayed operation that is answered and still in the file. *)
Removing(t, o) ==
    /\ thread[t] # Idle
    /\ \E i \in DOMAIN thread[t].edits : thread[t].edits[i] = Edit("remove", o)

(* The process of the app dies; its files stay. *)
Crash ==
    /\ "crash" \in Faults
    /\ \E t \in Threads : thread[t] # Idle
    /\ thread' = [t \in Threads |-> Idle]
    /\ exposed' = exposed \cup {o \in Ops : \E t \in Threads : Removing(t, o)}
    /\ UNCHANGED <<file, tmp, submitted, promised, settled, calls, accepted, raced>>

-----------------------------------------------------------------------------

Submit(t) == \E o \in Ops : SubmitDirect(t, o) \/ SubmitQueued(t, o)

Sync(t) ==
    \/ SyncStart(t)
    \/ \E o \in Ops, answer \in {"ok", "refused", "error"} : Replay(t, o, answer)
    \/ SyncEnd(t)

Next ==
    \/ \E t \in Threads : Submit(t) \/ Sync(t) \/ ReadArray(t) \/ WriteArray(t) \/ Rename(t)
    \/ Crash

Spec == Init /\ [][Next]_vars

-----------------------------------------------------------------------------
(* Properties *)

(* An operation reported as queued stays in the queue until the server has *)
(* answered for good or MAX_ATTEMPTS replays have failed, crashes and lost *)
(* answers notwithstanding; only two threads editing the file at once can  *)
(* lose it (OfflineQueue's read, write and rename).                        *)
NothingForgotten == ~raced => \A o \in promised : InFile(o) \/ o \in settled

(* An operation is applied twice only for one of three reasons: its answer *)
(* was lost, the app died between the answer and the removal, or two       *)
(* threads edited the file at once (WmsOps.submit, SyncManager.flush).     *)
DuplicatesExplained ==
    \A o \in Ops : accepted[o] > 1 => raced \/ o \in exposed
=============================================================================
