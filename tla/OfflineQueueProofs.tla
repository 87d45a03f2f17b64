------------------------- MODULE OfflineQueueProofs -------------------------
(***************************************************************************)
(* Proofs about OfflineQueue, for any number of threads, operations and    *)
(* attempts.                                                               *)
(***************************************************************************)
EXTENDS OfflineQueue, TLAPS

-----------------------------------------------------------------------------
(* The inductive invariant.                                                *)

Listing == [Ops -> (0..MaxAttempts) \cup {Absent}]

Adding(o) == <<Edit("add", o)>>
Bumping(o) == <<Edit("bump", o)>>
Removal(o) == <<Edit("remove", o)>>
GivingUp(o) == <<Edit("bump", o), Edit("remove", o)>>

Adds(q, o) == q.edits = Adding(o)
Bumps(q, o) == q.edits \in {Bumping(o), GivingUp(o)}
Removes(q, o) == q.edits \in {Removal(o), GivingUp(o)}
Edits(q, o) == Adds(q, o) \/ Bumps(q, o) \/ Removes(q, o)

EditLists == {<<>>} \cup UNION {{Adding(o), Bumping(o), Removal(o), GivingUp(o)} : o \in Ops}

Work ==
    [pc : {"next", "read", "rename"}, edits : EditLists, todo : Listing, syncing : BOOLEAN]
    \cup [pc : {"write"}, edits : EditLists, todo : Listing, syncing : BOOLEAN, array : Listing]

(* Only a replay has a list to go through; every other thread adds.        *)
WorkOK(q) ==
    /\ q.pc = "next" <=> q.edits = <<>>
    /\ q.syncing => \A o \in Ops : ~Adds(q, o)
    /\ ~q.syncing => q.todo = Empty /\ \E o \in Ops : Adds(q, o)

Types ==
    /\ file \in Listing
    /\ tmp \in Listing \cup {Gone}
    /\ thread \in [Threads -> {Idle} \cup Work]
    /\ \A t \in Threads : thread[t] # Idle => WorkOK(thread[t])
    /\ submitted \subseteq Ops
    /\ promised \subseteq Ops
    /\ settled \subseteq Ops
    /\ exposed \subseteq Ops
    /\ calls \in [Ops -> 0..MaxAttempts]
    /\ accepted \in [Ops -> 0..2]
    /\ raced \in BOOLEAN

OneSync ==
    \A t, u \in Threads :
      thread[t] # Idle /\ thread[t].syncing /\ thread[u] # Idle /\ thread[u].syncing => t = u

(* One thread edits at a time, and works on what is in the file.           *)
OneEditor ==
    /\ \A t, u \in Threads : Editing(t) /\ Editing(u) => t = u
    /\ \A t \in Threads :
         /\ thread[t].pc = "write" => thread[t].array = file
         /\ thread[t].pc = "rename" => tmp = Apply(file, Head(thread[t].edits))

Touches(q, o) == q # Idle /\ (q.todo[o] # Absent \/ Edits(q, o))

(* An operation gets into the file once, by the thread it was submitted to.*)
Unknown(o) ==
    /\ accepted[o] = 0
    /\ file[o] = Absent
    /\ \A t \in Threads : ~Touches(thread[t], o)

Alone(t, o) ==
    /\ file[o] = Absent
    /\ \A u \in Threads \ {t} : ~Touches(thread[u], o)

AddedOnce ==
    /\ \A o \in Ops : o \notin submitted => Unknown(o)
    /\ \A t \in Threads, o \in Ops :
         thread[t] # Idle /\ Adds(thread[t], o) => Alone(t, o)

(* The attempts in the file, and in the list of a replay, were made; what  *)
(* is about to be removed is answered or given up.                         *)
AttemptsMade ==
    \A o \in Ops :
      /\ file[o] # Absent => file[o] <= calls[o]
      /\ \A t \in Threads : thread[t] # Idle =>
           /\ thread[t].todo[o] # Absent => thread[t].todo[o] <= calls[o]
           /\ Bumps(thread[t], o) /\ file[o] # Absent =>
                file[o] < calls[o] \/ calls[o] = MaxAttempts
           /\ Removes(thread[t], o) => o \in settled

(* What the server took, and nothing exposed, is never posted again: it is *)
(* not in the file, or the replay that posted it is about to remove it.    *)
Done(o) ==
    /\ accepted[o] = 1
    /\ \A t \in Threads : thread[t] # Idle =>
         thread[t].todo[o] = Absent /\ ~Adds(thread[t], o)
    /\ file[o] # Absent =>
         \E t \in Threads : thread[t] # Idle /\ thread[t].syncing /\ Removes(thread[t], o)

TakenOnce == \A o \in Ops : accepted[o] > 0 /\ o \notin exposed => Done(o)

Kept == \A o \in promised : InFile(o) \/ o \in settled

Orderly == OneEditor /\ AddedOnce /\ AttemptsMade /\ TakenOnce /\ Kept

QueueInv == Types /\ OneSync /\ (~raced => Orderly)

-----------------------------------------------------------------------------
(* The lists of edits.                                                     *)

LEMMA ListsDiffer ==
    ASSUME NEW o \in Ops, NEW p \in Ops
    PROVE  /\ Adding(o) # <<>> /\ Bumping(o) # <<>> /\ Removal(o) # <<>> /\ GivingUp(o) # <<>>
           /\ Adding(o) \notin {Bumping(p), Removal(p), GivingUp(p)}
           /\ Bumping(o) \notin {Removal(p), GivingUp(p)}
           /\ Removal(o) # GivingUp(p)
           /\ Adding(o) = Adding(p) \/ Bumping(o) = Bumping(p) \/ Removal(o) = Removal(p)
                \/ GivingUp(o) = GivingUp(p) => o = p
<1> USE DEF Adding, Bumping, Removal, GivingUp, Edit
<1>1. Adding(o) # <<>> /\ Bumping(o) # <<>> /\ Removal(o) # <<>> /\ GivingUp(o) # <<>>
  OBVIOUS
<1>2. Adding(o) \notin {Bumping(p), Removal(p), GivingUp(p)}
  OBVIOUS
<1>3. Bumping(o) \notin {Removal(p), GivingUp(p)} /\ Removal(o) # GivingUp(p)
  OBVIOUS
<1>4. Adding(o) = Adding(p) => o = p
  OBVIOUS
<1>5. Bumping(o) = Bumping(p) => o = p
  OBVIOUS
<1>6. Removal(o) = Removal(p) => o = p
  OBVIOUS
<1>7. GivingUp(o) = GivingUp(p) => o = p
  OBVIOUS
<1> QED BY <1>1, <1>2, <1>3, <1>4, <1>5, <1>6, <1>7

LEMMA FirstEdit ==
    ASSUME NEW o \in Ops
    PROVE  /\ Head(Adding(o)) = Edit("add", o) /\ Tail(Adding(o)) = <<>>
           /\ Head(Bumping(o)) = Edit("bump", o) /\ Tail(Bumping(o)) = <<>>
           /\ Head(Removal(o)) = Edit("remove", o) /\ Tail(Removal(o)) = <<>>
           /\ Head(GivingUp(o)) = Edit("bump", o) /\ Tail(GivingUp(o)) = Removal(o)
BY DEF Adding, Bumping, Removal, GivingUp

LEMMA EditsOf ==
    ASSUME NEW q \in Work, q.edits # <<>>
    PROVE  \E o \in Ops : Edits(q, o)
BY DEF Work, EditLists, Edits, Adds, Bumps, Removes

LEMMA OneEdited ==
    ASSUME NEW q, NEW o \in Ops, NEW p \in Ops, Edits(q, o), Edits(q, p)
    PROVE  o = p
BY ListsDiffer DEF Edits, Adds, Bumps, Removes

LEMMA AddsOnly ==
    ASSUME NEW q, NEW o \in Ops, NEW p \in Ops, Adds(q, o)
    PROVE  ~Bumps(q, p) /\ ~Removes(q, p)
BY ListsDiffer DEF Adds, Bumps, Removes

LEMMA ApplyEdit ==
    ASSUME NEW array \in Listing, NEW kind \in {"add", "remove", "bump"}, NEW o \in Ops
    PROVE  /\ Apply(array, Edit(kind, o)) \in Listing
           /\ \A p \in Ops \ {o} : Apply(array, Edit(kind, o))[p] = array[p]
           /\ Apply(array, Edit("add", o))[o] = 0
           /\ Apply(array, Edit("remove", o))[o] = Absent
           /\ Apply(array, Edit("bump", o))[o] =
                IF array[o] \in {Absent, MaxAttempts} THEN array[o] ELSE array[o] + 1
BY OfflineQueueAssumption DEF OfflineQueueAssumption, Apply, Edit, Listing

LEMMA GoneIsNoFile == Gone \notin Listing
BY OfflineQueueAssumption DEF OfflineQueueAssumption, Listing

LEMMA QueueStart == Init => QueueInv
<1> SUFFICES ASSUME Init PROVE QueueInv
  OBVIOUS
<1> USE OfflineQueueAssumption DEF OfflineQueueAssumption, Init
<1>1. Types
  <2>1. file \in Listing /\ calls \in [Ops -> 0..MaxAttempts] /\ accepted \in [Ops -> 0..2]
    BY DEF Listing, Empty
  <2>2. thread \in [Threads -> {Idle} \cup Work]
    OBVIOUS
  <2> QED BY <2>1, <2>2 DEF Types
<1>2. \A t \in Threads : thread[t] = Idle /\ ~Editing(t) /\ thread[t].pc = "idle"
  BY DEF Editing, Idle
<1>3. OneSync
  BY <1>2 DEF OneSync
<1>4. OneEditor
  BY <1>2 DEF OneEditor
<1>5. AddedOnce /\ AttemptsMade /\ TakenOnce /\ Kept
  BY <1>2 DEF AddedOnce, Unknown, AttemptsMade, TakenOnce, Kept, Touches, Empty
<1> QED BY <1>1, <1>3, <1>4, <1>5 DEF QueueInv, Orderly

-----------------------------------------------------------------------------
(* The steps preserve the invariant.                                       *)

LEMMA SubmitDirectKeeps ==
    ASSUME QueueInv, NEW t \in Threads, NEW o \in Ops, SubmitDirect(t, o)
    PROVE  QueueInv'
<1> USE DEF SubmitDirect, Taken
<1>1. Types'
  BY DEF QueueInv, Types
<1>2. OneSync'
  BY DEF QueueInv, OneSync
<1>3. ASSUME ~raced' PROVE Orderly'
  <2> USE DEF QueueInv, Orderly
  <2>1. ~raced /\ Orderly
    BY <1>3
  <2>2. OneEditor'
    BY <2>1 DEF OneEditor, Editing
  <2>3. AddedOnce'
    BY <2>1 DEF AddedOnce, Unknown, Alone, Touches, Types
  <2>4. AttemptsMade'
    BY <2>1 DEF AttemptsMade
  <2>5. TakenOnce'
    BY <2>1 DEF TakenOnce, Done, AddedOnce, Unknown, Touches, Types, Edits
  <2>6. Kept'
    BY <2>1 DEF Kept, InFile
  <2> QED BY <2>2, <2>3, <2>4, <2>5, <2>6
<1> QED BY <1>1, <1>2, <1>3 DEF QueueInv

LEMMA SubmitQueuedKeeps ==
    ASSUME QueueInv, NEW t \in Threads, NEW o \in Ops, SubmitQueued(t, o)
    PROVE  QueueInv'
<1> DEFINE q == [pc |-> "read", edits |-> Adding(o), todo |-> Empty, syncing |-> FALSE]
<1> USE DEF SubmitQueued, AnswerLost, Taken
<1>1. thread' = [thread EXCEPT ![t] = q]
  BY DEF Begin, Adding
<1>2. q \in Work /\ WorkOK(q) /\ Adds(q, o)
  BY ListsDiffer DEF Work, EditLists, WorkOK, Adds, Listing, Empty
<1>3. thread[t] = Idle /\ thread'[t] = q /\ \A u \in Threads \ {t} : thread'[u] = thread[u]
  BY <1>1 DEF QueueInv, Types
<1> HIDE DEF q
<1>4. Types'
  <2>1. thread' \in [Threads -> {Idle} \cup Work]
    BY <1>1, <1>2 DEF QueueInv, Types
  <2>2. accepted' \in [Ops -> 0..2] /\ exposed' \subseteq Ops
    BY DEF QueueInv, Types
  <2> QED BY <2>1, <2>2, <1>2, <1>3 DEF QueueInv, Types
<1>5. ~q.syncing /\ q.pc = "read" /\ q.todo = Empty
  BY DEF q
<1>6. OneSync'
  BY <1>3, <1>5 DEF QueueInv, OneSync
<1>7. ASSUME ~raced' PROVE Orderly'
  <2> USE DEF QueueInv, Orderly
  <2>1. ~raced /\ Orderly
    BY <1>7
  <2>2. \A p \in Ops : ~Bumps(q, p) /\ ~Removes(q, p)
    BY <1>2, AddsOnly
  <2>3. \A p \in Ops : q.todo[p] = Absent
    BY <1>5 DEF Empty
  <2>4. \A p \in Ops : Touches(q, p) => p = o
    BY <1>2, <2>3, OneEdited DEF Touches, Edits
  <2>5. \A p \in Ops : Adds(q, p) => p = o
    BY <1>2, OneEdited DEF Edits
  <2>6. OneEditor'
    <3>1. \A u \in Threads : Editing(u)' => u # t /\ Editing(u)
      BY <1>3, <1>5 DEF Editing
    <3> QED BY <3>1, <1>3, <1>5, <2>1 DEF OneEditor, Editing
  <2>7. AddedOnce'
    <3>1. Unknown(o)
      BY <2>1 DEF AddedOnce
    <3>2. ASSUME NEW p \in Ops, p \notin submitted' PROVE Unknown(p)'
      <4>1. Unknown(p) /\ p # o
        BY <2>1, <3>2 DEF AddedOnce
      <4> QED BY <4>1, <1>3, <2>4 DEF Unknown, Types
    <3>3. ASSUME NEW u \in Threads, NEW p \in Ops, thread'[u] # Idle, Adds(thread'[u], p)
          PROVE  Alone(u, p)'
      <4>1. CASE u = t
        <5>1. p = o
          BY <4>1, <1>3, <2>5, <3>3
        <5> QED BY <5>1, <4>1, <1>3, <3>1 DEF Unknown, Alone
      <4>2. CASE u # t
        <5>1. Alone(u, p) /\ thread[u] # Idle /\ Adds(thread[u], p)
          BY <4>2, <1>3, <2>1, <3>3 DEF AddedOnce
        <5>2. p # o
          BY <5>1, <3>1 DEF Unknown, Touches, Edits
        <5> QED BY <5>1, <5>2, <1>3, <2>4 DEF Alone
      <4> QED BY <4>1, <4>2
    <3> QED BY <3>2, <3>3 DEF AddedOnce
  <2>8. AttemptsMade'
    BY <1>3, <2>1, <2>2, <2>3 DEF AttemptsMade
  <2>9. TakenOnce'
    <3> SUFFICES ASSUME NEW p \in Ops, accepted'[p] > 0, p \notin exposed'
                 PROVE  Done(p)'
      BY DEF TakenOnce
    <3>1. p # o
      BY <2>1 DEF AddedOnce, Unknown, Types
    <3>2. Done(p) /\ accepted'[p] = accepted[p]
      BY <2>1, <3>1 DEF TakenOnce, Types
    <3> QED BY <3>1, <3>2, <1>3, <2>3, <2>5 DEF Done
  <2>10. Kept'
    BY <2>1 DEF Kept, InFile
  <2> QED BY <2>6, <2>7, <2>8, <2>9, <2>10
<1> QED BY <1>4, <1>6, <1>7 DEF QueueInv

LEMMA SyncStartKeeps ==
    ASSUME QueueInv, NEW t \in Threads, SyncStart(t)
    PROVE  QueueInv'
<1> DEFINE q == [pc |-> "next", edits |-> <<>>, todo |-> file, syncing |-> TRUE]
<1> USE DEF SyncStart
<1>1. thread' = [thread EXCEPT ![t] = q]
  OBVIOUS
<1>2. q \in Work /\ WorkOK(q) /\ \A p \in Ops : ~Edits(q, p)
  BY ListsDiffer DEF Work, EditLists, WorkOK, Edits, Adds, Bumps, Removes, QueueInv, Types
<1>3. thread[t] = Idle /\ thread'[t] = q /\ \A u \in Threads \ {t} : thread'[u] = thread[u]
  BY <1>1 DEF QueueInv, Types
<1>4. q.syncing /\ q.pc = "next" /\ q.todo = file
  OBVIOUS
<1> HIDE DEF q
<1>5. Types'
  <2>1. thread' \in [Threads -> {Idle} \cup Work]
    BY <1>1, <1>2 DEF QueueInv, Types
  <2> QED BY <2>1, <1>2, <1>3 DEF QueueInv, Types
<1>6. OneSync'
  BY <1>3 DEF OneSync, Running
<1>7. ASSUME ~raced' PROVE Orderly'
  <2> USE DEF QueueInv, Orderly
  <2>1. ~raced /\ Orderly
    BY <1>7
  <2>2. OneEditor'
    <3>1. \A u \in Threads : Editing(u)' => u # t /\ Editing(u)
      BY <1>3, <1>4 DEF Editing
    <3> QED BY <3>1, <1>3, <1>4, <2>1 DEF OneEditor, Editing
  <2>3. AddedOnce'
    <3>1. \A p \in Ops : file[p] = Absent => ~Touches(q, p)
      BY <1>2, <1>4 DEF Touches
    <3> QED BY <3>1, <1>2, <1>3, <2>1 DEF AddedOnce, Unknown, Alone, Edits
  <2>4. AttemptsMade'
    BY <1>2, <1>3, <1>4, <2>1, ZenonT(40) DEF AttemptsMade, Edits
  <2>5. TakenOnce'
    <3> SUFFICES ASSUME NEW p \in Ops, accepted'[p] > 0, p \notin exposed'
                 PROVE  Done(p)'
      BY DEF TakenOnce
    <3>1. Done(p)
      BY <2>1 DEF TakenOnce
    <3>2. file[p] = Absent
      BY <3>1 DEF Done, Running
    <3> QED BY <3>1, <3>2, <1>2, <1>3, <1>4 DEF Done, Edits
  <2>6. Kept'
    BY <2>1 DEF Kept, InFile
  <2> QED BY <2>2, <2>3, <2>4, <2>5, <2>6
<1> QED BY <1>5, <1>6, <1>7 DEF QueueInv

LEMMA SyncEndKeeps ==
    ASSUME QueueInv, NEW t \in Threads, SyncEnd(t)
    PROVE  QueueInv'
<1> USE DEF SyncEnd
<1>1. thread'[t] = Idle /\ \A u \in Threads \ {t} : thread'[u] = thread[u]
  BY DEF QueueInv, Types
<1>2. Types'
  <2>1. thread' \in [Threads -> {Idle} \cup Work]
    BY DEF QueueInv, Types
  <2> QED BY <2>1, <1>1 DEF QueueInv, Types
<1>3. OneSync'
  BY <1>1 DEF QueueInv, OneSync
<1>4. ASSUME ~raced' PROVE Orderly'
  <2> USE DEF QueueInv, Orderly
  <2>1. ~raced /\ Orderly
    BY <1>4
  <2>2. OneEditor'
    <3>1. \A u \in Threads : Editing(u)' => u # t /\ Editing(u)
      BY <1>1 DEF Editing
    <3>2. Idle.pc = "idle"
      BY DEF Idle
    <3> QED BY <3>1, <3>2, <1>1, <2>1 DEF OneEditor
  <2>3. AddedOnce'
    BY <1>1, <2>1 DEF AddedOnce, Unknown, Alone, Touches
  <2>4. AttemptsMade'
    BY <1>1, <2>1 DEF AttemptsMade
  <2>5. TakenOnce'
    <3> SUFFICES ASSUME NEW p \in Ops, accepted'[p] > 0, p \notin exposed'
                 PROVE  Done(p)'
      BY DEF TakenOnce
    <3>1. Done(p)
      BY <2>1 DEF TakenOnce
    <3>2. ~Removes(thread[t], p)
      BY ListsDiffer DEF Types, WorkOK, Removes
    <3> QED BY <3>1, <3>2, <1>1 DEF Done
  <2>6. Kept'
    BY <2>1 DEF Kept, InFile
  <2> QED BY <2>2, <2>3, <2>4, <2>5, <2>6
<1> QED BY <1>2, <1>3, <1>4 DEF QueueInv

LEMMA ReadArrayKeeps ==
    ASSUME QueueInv, NEW t \in Threads, ReadArray(t)
    PROVE  QueueInv'
<1> DEFINE r == thread[t]
           q == [pc |-> "write", edits |-> r.edits, todo |-> r.todo,
                 syncing |-> r.syncing, array |-> file]
<1> USE DEF ReadArray
<1>1. thread' = [thread EXCEPT ![t] = q]
  OBVIOUS
<1>2. thread'[t] = q /\ \A u \in Threads \ {t} : thread'[u] = thread[u]
  BY <1>1 DEF QueueInv, Types
<1>3. r # Idle /\ r.pc = "read" /\ r \in Work /\ WorkOK(r)
  BY DEF QueueInv, Types
<1>4. q.pc = "write" /\ q.edits = r.edits /\ q.todo = r.todo /\ q.syncing = r.syncing /\ q.array = file
  OBVIOUS
<1>5. q \in Work
  BY <1>3 DEF Work, QueueInv, Types
<1>6. WorkOK(q)
  BY <1>3 DEF WorkOK, Adds
<1>7. q # Idle
  BY DEF Idle
<1>8. \A p \in Ops : /\ Adds(q, p) = Adds(r, p) /\ Bumps(q, p) = Bumps(r, p)
                      /\ Removes(q, p) = Removes(r, p) /\ Touches(q, p) = Touches(r, p)
  BY <1>3, <1>4, <1>7 DEF Adds, Bumps, Removes, Edits, Touches
<1> HIDE DEF q
<1>9. Types'
  <2>1. thread' \in [Threads -> {Idle} \cup Work]
    BY <1>1, <1>5 DEF QueueInv, Types
  <2> QED BY <2>1, <1>2, <1>6 DEF QueueInv, Types
<1>10. OneSync'
  BY <1>2, <1>3, <1>4 DEF QueueInv, OneSync
<1>11. ASSUME ~raced' PROVE Orderly'
  <2> USE DEF QueueInv, Orderly
  <2>1. ~raced /\ Orderly /\ \A u \in Threads : ~Editing(u)
    BY <1>11 DEF Types
  <2>2. OneEditor'
    <3>1. \A u \in Threads : Editing(u)' => u = t
      BY <1>2, <2>1 DEF Editing
    <3>2. \A u \in Threads \ {t} : thread'[u].pc \notin {"write", "rename"}
      <4>1. \A u \in Threads \ {t} : thread[u] = Idle => thread[u].pc = "idle"
        BY DEF Idle
      <4> QED BY <4>1, <1>2, <2>1 DEF Editing
    <3> QED BY <3>1, <3>2, <1>2, <1>4 DEF OneEditor
  <2>3. AddedOnce'
    BY <1>2, <1>3, <1>8, <2>1 DEF AddedOnce, Unknown, Alone
  <2>4. AttemptsMade'
    BY <1>2, <1>3, <1>4, <1>8, <2>1 DEF AttemptsMade
  <2>5. TakenOnce'
    <3> SUFFICES ASSUME NEW p \in Ops, accepted'[p] > 0, p \notin exposed'
                 PROVE  Done(p)'
      BY DEF TakenOnce
    <3>1. Done(p)
      BY <2>1 DEF TakenOnce
    <3> QED BY <3>1, <1>2, <1>3, <1>4, <1>7, <1>8 DEF Done
  <2>6. Kept'
    BY <2>1 DEF Kept, InFile
  <2> QED BY <2>2, <2>3, <2>4, <2>5, <2>6
<1> QED BY <1>9, <1>10, <1>11 DEF QueueInv

LEMMA WriteArrayKeeps ==
    ASSUME QueueInv, NEW t \in Threads, WriteArray(t)
    PROVE  QueueInv'
<1> DEFINE r == thread[t]
           q == [pc |-> "rename", edits |-> r.edits, todo |-> r.todo, syncing |-> r.syncing]
<1> USE DEF WriteArray
<1>1. thread' = [thread EXCEPT ![t] = q]
  OBVIOUS
<1>2. thread'[t] = q /\ \A u \in Threads \ {t} : thread'[u] = thread[u]
  BY <1>1 DEF QueueInv, Types
<1>3. r # Idle /\ r.pc = "write" /\ r \in Work /\ WorkOK(r)
  BY DEF QueueInv, Types
<1>4. q.pc = "rename" /\ q.edits = r.edits /\ q.todo = r.todo /\ q.syncing = r.syncing
  OBVIOUS
<1>5. q \in Work
  BY <1>3 DEF Work
<1>6. WorkOK(q)
  BY <1>3 DEF WorkOK, Adds
<1>7. q # Idle
  BY DEF Idle
<1>8. \A p \in Ops : /\ Adds(q, p) = Adds(r, p) /\ Bumps(q, p) = Bumps(r, p)
                      /\ Removes(q, p) = Removes(r, p) /\ Touches(q, p) = Touches(r, p)
  BY <1>3, <1>4, <1>7 DEF Adds, Bumps, Removes, Edits, Touches
<1> HIDE DEF q
<1>9. tmp' \in Listing
  <2>1. r.array \in Listing
    BY <1>3 DEF Work
  <2>2. r.edits # <<>>
    BY <1>3 DEF WorkOK
  <2>3. PICK o \in Ops : Edits(r, o)
    BY <1>3, <2>2, EditsOf
  <2>4. \E kind \in {"add", "remove", "bump"} : Head(r.edits) = Edit(kind, o)
    BY <2>3, FirstEdit DEF Edits, Adds, Bumps, Removes
  <2> QED BY <2>1, <2>4, ApplyEdit
<1>10. Types'
  <2>1. thread' \in [Threads -> {Idle} \cup Work]
    BY <1>1, <1>5 DEF QueueInv, Types
  <2> QED BY <2>1, <1>2, <1>6, <1>9 DEF QueueInv, Types
<1>11. OneSync'
  BY <1>2, <1>3, <1>4 DEF QueueInv, OneSync
<1>12. ASSUME ~raced' PROVE Orderly'
  <2> USE DEF QueueInv, Orderly
  <2>1. ~raced /\ Orderly
    BY <1>12
  <2>2. OneEditor'
    <3>1. Editing(t)
      BY <1>3 DEF Editing
    <3>2. \A u \in Threads \ {t} : ~Editing(u)
      BY <3>1, <2>1 DEF OneEditor
    <3>3. \A u \in Threads \ {t} : thread'[u].pc \notin {"write", "rename"}
      <4>1. \A u \in Threads \ {t} : thread[u] = Idle => thread[u].pc = "idle"
        BY DEF Idle
      <4> QED BY <4>1, <3>2, <1>2 DEF Editing
    <3>4. r.array = file
      BY <1>3, <2>1 DEF OneEditor
    <3>5. \A u \in Threads : Editing(u)' => u = t
      BY <3>3 DEF Editing
    <3>6. \A u \in Threads : thread'[u].pc = "write" => thread'[u].array = file'
      BY <3>3, <1>2, <1>4
    <3>7. \A u \in Threads : thread'[u].pc = "rename" => tmp' = Apply(file', Head(thread'[u].edits))
      BY <3>3, <3>4, <1>2, <1>4
    <3> QED BY <3>5, <3>6, <3>7 DEF OneEditor
  <2>3. AddedOnce'
    BY <1>2, <1>3, <1>8, <2>1 DEF AddedOnce, Unknown, Alone
  <2>4. AttemptsMade'
    BY <1>2, <1>3, <1>4, <1>8, <2>1 DEF AttemptsMade
  <2>5. TakenOnce'
    <3> SUFFICES ASSUME NEW p \in Ops, accepted'[p] > 0, p \notin exposed'
                 PROVE  Done(p)'
      BY DEF TakenOnce
    <3>1. Done(p)
      BY <2>1 DEF TakenOnce
    <3> QED BY <3>1, <1>2, <1>3, <1>4, <1>7, <1>8 DEF Done
  <2>6. Kept'
    BY <2>1 DEF Kept, InFile
  <2> QED BY <2>2, <2>3, <2>4, <2>5, <2>6
<1> QED BY <1>10, <1>11, <1>12 DEF QueueInv

LEMMA CrashKeeps ==
    ASSUME QueueInv, Crash
    PROVE  QueueInv'
<1> USE DEF Crash
<1>1. \A u \in Threads : thread'[u] = Idle
  OBVIOUS
<1>2. Types'
  <2>1. thread' \in [Threads -> {Idle} \cup Work]
    OBVIOUS
  <2>2. exposed' \subseteq Ops
    BY DEF QueueInv, Types
  <2> QED BY <2>1, <2>2, <1>1 DEF QueueInv, Types
<1>3. OneSync'
  BY <1>1 DEF OneSync
<1>4. ASSUME ~raced' PROVE Orderly'
  <2> USE DEF QueueInv, Orderly
  <2>1. ~raced /\ Orderly
    BY <1>4
  <2>2. OneEditor'
    <3>1. Idle.pc = "idle"
      BY DEF Idle
    <3> QED BY <3>1, <1>1 DEF OneEditor, Editing
  <2>3. AddedOnce'
    BY <1>1, <2>1 DEF AddedOnce, Unknown, Alone, Touches
  <2>4. AttemptsMade'
    BY <1>1, <2>1 DEF AttemptsMade
  <2>5. TakenOnce'
    <3> SUFFICES ASSUME NEW p \in Ops, accepted'[p] > 0, p \notin exposed'
                 PROVE  Done(p)'
      BY DEF TakenOnce
    <3>1. Done(p)
      BY <2>1 DEF TakenOnce
    <3>2. ASSUME NEW u \in Threads, thread[u] # Idle, Removes(thread[u], p)
          PROVE  FALSE
      <4>1. \E i \in DOMAIN thread[u].edits : thread[u].edits[i] = Edit("remove", p)
        BY <3>2 DEF Removes, Removal, GivingUp
      <4> QED BY <4>1, <3>2 DEF Removing
    <3>3. file[p] = Absent
      BY <3>1, <3>2 DEF Done
    <3> QED BY <3>1, <3>3, <1>1 DEF Done
  <2>6. Kept'
    BY <2>1 DEF Kept, InFile
  <2> QED BY <2>2, <2>3, <2>4, <2>5, <2>6
<1> QED BY <1>2, <1>3, <1>4 DEF QueueInv

LEMMA EditsForAnswer ==
    ASSUME NEW o \in Ops, NEW n \in 0..MaxAttempts, NEW answer \in {"ok", "refused", "error"}
    PROVE  /\ EditsFor(o, n, answer) \in {Bumping(o), Removal(o), GivingUp(o)}
           /\ EditsFor(o, n, answer) = Bumping(o) => answer = "error"
           /\ EditsFor(o, n, answer) = GivingUp(o) => n + 1 >= MaxAttempts
           /\ answer = "ok" => EditsFor(o, n, answer) = Removal(o)
           /\ answer # "error" => EditsFor(o, n, answer) = Removal(o)
           /\ answer = "error" => EditsFor(o, n, answer) # Removal(o)
<1>1. CASE answer # "error"
  <2>1. EditsFor(o, n, answer) = Removal(o)
    BY <1>1 DEF EditsFor, Removal
  <2> QED BY <2>1, <1>1, ListsDiffer
<1>2. CASE answer = "error" /\ n + 1 >= MaxAttempts
  <2>1. EditsFor(o, n, answer) = GivingUp(o)
    BY <1>2 DEF EditsFor, GivingUp
  <2> QED BY <2>1, <1>2, ListsDiffer
<1>3. CASE answer = "error" /\ ~(n + 1 >= MaxAttempts)
  <2>1. EditsFor(o, n, answer) = Bumping(o)
    BY <1>3 DEF EditsFor, Bumping
  <2> QED BY <2>1, <1>3, ListsDiffer
<1> QED BY <1>1, <1>2, <1>3

LEMMA ReplayKeeps ==
    ASSUME QueueInv, NEW t \in Threads, NEW o \in Ops,
           NEW answer \in {"ok", "refused", "error"}, Replay(t, o, answer)
    PROVE  QueueInv'
<1> DEFINE r == thread[t]
           e == EditsFor(o, r.todo[o], answer)
           q == [r EXCEPT !.pc = "read", !.edits = e, !.todo[o] = Absent]
<1> USE OfflineQueueAssumption DEF OfflineQueueAssumption, Replay, AnswerLost, Taken
<1>1. r # Idle /\ r.pc = "next" /\ r \in Work /\ WorkOK(r) /\ r.todo[o] # Absent
  BY DEF QueueInv, Types
<1>2. r.edits = <<>> /\ r.syncing
  BY <1>1, ListsDiffer DEF WorkOK, Adds
<1>3. r.todo[o] \in 0..MaxAttempts /\ r.todo \in Listing
  BY <1>1 DEF Work, Listing
<1>4. /\ e \in {Bumping(o), Removal(o), GivingUp(o)}
      /\ e = GivingUp(o) => r.todo[o] + 1 >= MaxAttempts
      /\ answer = "ok" => e = Removal(o)
      /\ answer # "error" => e = Removal(o)
      /\ answer = "error" => e # Removal(o)
  BY <1>3, EditsForAnswer
<1>5. e # <<>>
  BY <1>4, ListsDiffer
<1>6. thread' = [thread EXCEPT ![t] = q]
  BY <1>1, <1>5 DEF QueueInv, Types, Work
<1>7. thread'[t] = q /\ \A u \in Threads \ {t} : thread'[u] = thread[u]
  BY <1>6 DEF QueueInv, Types
<1>8. /\ q.pc = "read" /\ q.edits = e /\ q.syncing /\ q # Idle
      /\ q.todo[o] = Absent
      /\ \A p \in Ops \ {o} : q.todo[p] = r.todo[p]
  BY <1>1, <1>2, <1>3 DEF Work, Listing, Idle
<1>9. q \in Work
  <2>1. e \in EditLists
    BY <1>4 DEF EditLists
  <2> QED BY <2>1, <1>1 DEF Work, Listing
<1>10. \A p \in Ops : ~Adds(q, p)
  BY <1>4, <1>8, ListsDiffer DEF Adds
<1>11. \A p \in Ops : Edits(q, p) => p = o
  BY <1>4, <1>8, OneEdited DEF Edits, Bumps, Removes
<1>12. WorkOK(q)
  BY <1>5, <1>8, <1>10 DEF WorkOK
<1>13. calls'[o] = (IF calls[o] < MaxAttempts THEN calls[o] + 1 ELSE calls[o])
       /\ \A p \in Ops \ {o} : calls'[p] = calls[p]
  BY DEF QueueInv, Types
<1>14. \A u \in Threads \ {t} : thread[u] # Idle =>
         ~thread[u].syncing /\ thread[u].todo = Empty /\ \E p \in Ops : Adds(thread[u], p)
  BY <1>1, <1>2 DEF QueueInv, OneSync, Types, WorkOK
<1>u. UNCHANGED <<file, tmp, submitted, promised, raced>>
  OBVIOUS
<1> HIDE DEF q, e
<1>15. Types'
  <2>1. thread' \in [Threads -> {Idle} \cup Work]
    BY <1>6, <1>9 DEF QueueInv, Types
  <2>2. accepted' \in [Ops -> 0..2] /\ exposed' \subseteq Ops /\ settled' \subseteq Ops
    BY DEF QueueInv, Types
  <2>3. calls' \in [Ops -> 0..MaxAttempts]
    BY DEF QueueInv, Types
  <2> QED BY <2>1, <2>2, <2>3, <1>7, <1>12 DEF QueueInv, Types
<1>16. OneSync'
  BY <1>7, <1>14 DEF OneSync
<1>17. ASSUME ~raced' PROVE Orderly'
  <2> USE DEF QueueInv, Orderly
  <2>1. ~raced /\ Orderly
    BY <1>17
  <2>2. OneEditor'
    <3> HIDE DEF Replay
    <3>1. \A u \in Threads : Editing(u)' => u # t /\ Editing(u)
      BY <1>7, <1>8 DEF Editing
    <3> QED BY <3>1, <1>7, <1>8, <1>u, <2>1 DEF OneEditor
  <2>3. o \in submitted
    BY <1>1, <2>1 DEF AddedOnce, Unknown, Touches
  <2>4. \A u \in Threads \ {t} : thread[u] # Idle => ~Adds(thread[u], o)
    BY <1>1, <2>1 DEF AddedOnce, Alone, Touches
  <2>5. \A p \in Ops \ {o} : accepted'[p] = accepted[p] /\ (p \in exposed' <=> p \in exposed)
    BY DEF Types
  <2>6. \A p \in Ops \ {o} : Touches(q, p) => Touches(r, p)
    BY <1>1, <1>8, <1>11 DEF Touches
  <2> HIDE DEF Replay
  <2>7. AddedOnce'
    <3>1. ASSUME NEW p \in Ops, p \notin submitted' PROVE Unknown(p)'
      BY <3>1, <2>1, <2>3, <2>5, <2>6, <1>7, <1>u DEF AddedOnce, Unknown
    <3>2. ASSUME NEW u \in Threads, NEW p \in Ops, thread'[u] # Idle, Adds(thread'[u], p)
          PROVE  Alone(u, p)'
      <4>1. u # t
        BY <3>2, <1>7, <1>10
      <4>2. thread[u] # Idle /\ Adds(thread[u], p) /\ Alone(u, p)
        BY <4>1, <3>2, <1>7, <2>1 DEF AddedOnce
      <4>3. p # o
        BY <4>1, <4>2, <2>4
      <4> QED BY <4>2, <4>3, <2>6, <1>7, <1>u DEF Alone
    <3> QED BY <3>1, <3>2 DEF AddedOnce
  <2>8. AttemptsMade'
    <3>1. \A p \in Ops : /\ calls[p] \in 0..MaxAttempts /\ calls'[p] \in 0..MaxAttempts
                          /\ calls'[p] >= calls[p]
                          /\ file[p] \in 0..MaxAttempts \cup {Absent}
      BY <1>13 DEF Types, Listing
    <3>2. ASSUME NEW p \in Ops
          PROVE  /\ file[p] # Absent => file[p] <= calls[p]
                 /\ r.todo[p] # Absent => r.todo[p] \in 0..MaxAttempts /\ r.todo[p] <= calls[p]
      BY <1>1, <1>3, <2>1 DEF AttemptsMade, Listing
    <3>3. \A p \in Ops : file'[p] # Absent => file'[p] <= calls'[p]
      BY <1>u, <3>1, <3>2
    <3>4. \A p \in Ops : q.todo[p] # Absent => q.todo[p] <= calls'[p]
      BY <3>1, <3>2, <1>8
    <3>5. \A p \in Ops : Bumps(q, p) /\ file[p] # Absent => file[p] < calls'[p] \/ calls'[p] = MaxAttempts
      <4>1. file[o] # Absent => file[o] < calls'[o] \/ calls'[o] = MaxAttempts
        BY <3>1, <3>2, <1>13
      <4> QED BY <4>1, <1>11 DEF Edits
    <3>6. \A p \in Ops : Removes(q, p) => p \in settled'
      <4>1. ASSUME Removes(q, o) PROVE o \in settled'
        <5>1. CASE answer # "error"
          BY <5>1 DEF Replay
        <5>2. CASE answer = "error"
          <6>1. e = GivingUp(o)
            BY <4>1, <5>2, <1>4, <1>8 DEF Removes
          <6>2. calls'[o] = MaxAttempts
            BY <6>1, <1>4, <1>13, <1>3, <1>1, <3>1, <3>2
          <6> QED BY <6>2 DEF Replay
        <5> QED BY <5>1, <5>2
      <4> QED BY <4>1, <1>11 DEF Edits
    <3>7. ASSUME NEW u \in Threads \ {t}, NEW p \in Ops, thread[u] # Idle
          PROVE  /\ thread[u].todo[p] = Absent
                 /\ ~Bumps(thread[u], p) /\ ~Removes(thread[u], p)
      BY <3>7, <1>14, AddsOnly DEF Empty
    <3> QED BY <3>3, <3>4, <3>5, <3>6, <3>7, <1>u, <1>7 DEF AttemptsMade
  <2>9. TakenOnce'
    <3> SUFFICES ASSUME NEW p \in Ops, accepted'[p] > 0, p \notin exposed'
                 PROVE  Done(p)'
      BY DEF TakenOnce
    <3>1. CASE p = o
      <4>1. accepted[o] = 0
        BY <3>1, <1>1, <2>1 DEF TakenOnce, Done, Types, Replay
      <4>2. answer = "ok" /\ accepted'[o] = 1
        BY <3>1, <4>1 DEF Types, Replay
      <4>3. Removes(q, o)
        BY <4>2, <1>4, <1>8 DEF Removes
      <4>4. \A u \in Threads \ {t} : thread[u] # Idle => thread[u].todo[o] = Absent
        BY <1>14 DEF Empty
      <4> QED BY <3>1, <4>2, <4>3, <4>4, <2>4, <1>7, <1>8, <1>10, <1>u DEF Done
    <3>2. CASE p # o
      <4>1. Done(p) /\ accepted'[p] = accepted[p]
        BY <3>2, <2>1, <2>5 DEF TakenOnce
      <4>2. ~Removes(r, p)
        BY <1>2, ListsDiffer DEF Removes
      <4>3. file[p] = Absent
        BY <4>1, <4>2, <1>14 DEF Done
      <4> QED BY <3>2, <4>1, <4>3, <1>1, <1>7, <1>8, <1>10, <1>u DEF Done
    <3> QED BY <3>1, <3>2
  <2>10. Kept'
    BY <2>1 DEF Kept, InFile, Replay
  <2> QED BY <2>2, <2>7, <2>8, <2>9, <2>10
<1> QED BY <1>15, <1>16, <1>17 DEF QueueInv

(* What the thread does after a rename: nothing more to be added or        *)
(* counted, at most a removal.                                             *)
AfterRename(r) ==
    IF Tail(r.edits) # <<>> THEN [r EXCEPT !.pc = "read", !.edits = Tail(r.edits)]
    ELSE IF r.syncing THEN [r EXCEPT !.pc = "next", !.edits = <<>>]
    ELSE Idle

LEMMA AfterRenameOK ==
    ASSUME NEW r \in Work, WorkOK(r), r.pc = "rename", NEW o \in Ops, Edits(r, o)
    PROVE  /\ AfterRename(r) \in {Idle} \cup Work
           /\ AfterRename(r) # Idle =>
                /\ WorkOK(AfterRename(r))
                /\ AfterRename(r).pc \in {"read", "next"}
                /\ AfterRename(r).todo = r.todo
                /\ AfterRename(r).syncing /\ r.syncing
                /\ \A p \in Ops : ~Adds(AfterRename(r), p) /\ ~Bumps(AfterRename(r), p)
                /\ \A p \in Ops : Removes(AfterRename(r), p) => p = o /\ Removes(r, o)
           /\ r.edits = GivingUp(o) => AfterRename(r) # Idle /\ Removes(AfterRename(r), o)
<1> DEFINE q == AfterRename(r)
<1> USE DEF AfterRename
<1>0. Idle.pc = "idle"
  BY DEF Idle
<1>1. CASE Adds(r, o)
  <2>1. Tail(r.edits) = <<>> /\ ~r.syncing
    BY <1>1, FirstEdit DEF Adds, WorkOK
  <2>2. q = Idle
    BY <2>1
  <2>3. r.edits # GivingUp(o)
    BY <1>1, ListsDiffer DEF Adds
  <2> QED BY <2>2, <2>3
<1>2. ASSUME ~Adds(r, o) PROVE r.syncing
  <2>1. \A p \in Ops : Adds(r, p) => p = o
    BY OneEdited DEF Edits
  <2> QED BY <2>1, <1>2 DEF WorkOK, Work
<1>3. CASE r.edits \in {Bumping(o), Removal(o)}
  <2>1. Tail(r.edits) = <<>>
    BY <1>3, FirstEdit
  <2>2. r.syncing
    BY <1>2, <1>3, ListsDiffer DEF Adds
  <2>3. q = [r EXCEPT !.pc = "next", !.edits = <<>>]
    BY <2>1, <2>2
  <2>4. q \in Work /\ q.pc = "next" /\ q.edits = <<>> /\ q.todo = r.todo /\ q.syncing
    BY <2>2, <2>3 DEF Work, EditLists
  <2> HIDE DEF q
  <2>5. \A p \in Ops : ~Adds(q, p) /\ ~Bumps(q, p) /\ ~Removes(q, p)
    BY <2>4, ListsDiffer DEF Adds, Bumps, Removes
  <2>6. WorkOK(q)
    BY <2>4, <2>5 DEF WorkOK
  <2>7. r.edits # GivingUp(o)
    BY <1>3, ListsDiffer
  <2> QED BY <2>2, <2>4, <2>5, <2>6, <2>7 DEF q
<1>4. CASE r.edits = GivingUp(o)
  <2>1. Tail(r.edits) = Removal(o) /\ Removal(o) # <<>>
    BY <1>4, FirstEdit, ListsDiffer
  <2>2. r.syncing
    BY <1>2, <1>4, ListsDiffer DEF Adds
  <2>3. q = [r EXCEPT !.pc = "read", !.edits = Removal(o)]
    BY <2>1
  <2>4. q \in Work /\ q.pc = "read" /\ q.edits = Removal(o) /\ q.todo = r.todo /\ q.syncing
    <3>1. Removal(o) \in EditLists
      BY DEF EditLists
    <3> QED BY <2>2, <2>3, <3>1 DEF Work
  <2> HIDE DEF q
  <2>5. \A p \in Ops : ~Adds(q, p) /\ ~Bumps(q, p) /\ (Removes(q, p) => p = o)
    BY <2>4, ListsDiffer DEF Adds, Bumps, Removes
  <2>6. WorkOK(q)
    BY <2>1, <2>4, <2>5 DEF WorkOK
  <2>7. Removes(r, o) /\ Removes(q, o) /\ q # Idle
    BY <1>0, <1>4, <2>4 DEF Removes
  <2> QED BY <2>2, <2>4, <2>5, <2>6, <2>7 DEF q
<1> QED BY <1>1, <1>3, <1>4 DEF Edits, Bumps, Removes

LEMMA RenameKeeps ==
    ASSUME QueueInv, NEW t \in Threads, Rename(t)
    PROVE  QueueInv'
<1> DEFINE r == thread[t]
           q == AfterRename(r)
<1> USE OfflineQueueAssumption DEF OfflineQueueAssumption
<1>1. r # Idle /\ r.pc = "rename" /\ r \in Work /\ WorkOK(r) /\ r.edits # <<>>
  BY DEF QueueInv, Types, Rename, WorkOK
<1>2. PICK o \in Ops : Edits(r, o)
  BY <1>1, EditsOf
<1>3. PICK kind \in {"add", "remove", "bump"} :
        /\ Head(r.edits) = Edit(kind, o)
        /\ kind = "add" => Adds(r, o)
        /\ kind = "remove" => r.edits = Removal(o)
        /\ kind = "bump" => Bumps(r, o)
  BY <1>2, FirstEdit DEF Edits, Adds, Bumps, Removes
<1>4. thread' = [thread EXCEPT ![t] = q]
  BY DEF Rename, AfterRename
<1>5. thread'[t] = q /\ \A u \in Threads \ {t} : thread'[u] = thread[u]
  BY <1>4 DEF QueueInv, Types
<1>6. UNCHANGED <<submitted, settled, calls, accepted, exposed, raced>> /\ file' = RenameTo /\ tmp' = Gone
  BY DEF Rename
<1>7. promised' = IF kind = "add" THEN promised \cup {o} ELSE promised
  <2>1. promised' = IF Head(r.edits).kind = "add" THEN promised \cup {Head(r.edits).op} ELSE promised
    BY DEF Rename
  <2>2. Edit(kind, o).kind = kind /\ Edit(kind, o).op = o
    BY DEF Edit
  <2> QED BY <1>3, <2>1, <2>2
<1>8. /\ q \in {Idle} \cup Work
      /\ q # Idle =>
           /\ WorkOK(q) /\ q.pc \in {"read", "next"} /\ q.todo = r.todo /\ q.syncing /\ r.syncing
           /\ \A p \in Ops : ~Adds(q, p) /\ ~Bumps(q, p)
           /\ \A p \in Ops : Removes(q, p) => p = o /\ Removes(r, o)
      /\ r.edits = GivingUp(o) => q # Idle /\ Removes(q, o)
  BY <1>1, <1>2, AfterRenameOK
<1>9. Idle.pc = "idle"
  BY DEF Idle
<1> HIDE DEF q
<1>10. Types'
  <2>1. thread' \in [Threads -> {Idle} \cup Work]
    BY <1>4, <1>8 DEF QueueInv, Types
  <2>2. file' \in Listing /\ promised' \subseteq Ops
    BY <1>6, <1>7 DEF QueueInv, Types, RenameTo
  <2>3. \A u \in Threads : thread'[u] # Idle => WorkOK(thread'[u])
    BY <1>5, <1>8 DEF QueueInv, Types
  <2> QED BY <2>1, <2>2, <2>3, <1>6 DEF QueueInv, Types
<1>11. OneSync'
  BY <1>1, <1>5, <1>8 DEF QueueInv, OneSync
<1>12. ASSUME ~raced' PROVE Orderly'
  <2> USE DEF QueueInv, Orderly
  <2>1. ~raced /\ Orderly
    BY <1>6, <1>12
  <2>2. file \in Listing /\ tmp = Apply(file, Edit(kind, o))
    BY <1>1, <1>3, <2>1 DEF OneEditor, Types
  <2>3. /\ file' \in Listing
        /\ \A p \in Ops \ {o} : file'[p] = file[p]
        /\ kind = "add" => file'[o] = 0
        /\ kind = "remove" => file'[o] = Absent
        /\ kind = "bump" =>
             file'[o] = IF file[o] \in {Absent, MaxAttempts} THEN file[o] ELSE file[o] + 1
    <3>1. tmp \in Listing /\ tmp # Gone
      BY <2>2, ApplyEdit, GoneIsNoFile
    <3>2. file' = Apply(file, Edit(kind, o))
      BY <1>6, <2>2, <3>1 DEF RenameTo
    <3>3. CASE kind = "add"
      <4>1. /\ Apply(file, Edit("add", o)) \in Listing
            /\ \A p \in Ops \ {o} : Apply(file, Edit("add", o))[p] = file[p]
            /\ Apply(file, Edit("add", o))[o] = 0
        BY <2>2, ApplyEdit
      <4> QED BY <3>2, <3>3, <4>1
    <3>4. CASE kind = "remove"
      <4>1. /\ Apply(file, Edit("remove", o)) \in Listing
            /\ \A p \in Ops \ {o} : Apply(file, Edit("remove", o))[p] = file[p]
            /\ Apply(file, Edit("remove", o))[o] = Absent
        BY <2>2, ApplyEdit
      <4> QED BY <3>2, <3>4, <4>1
    <3>5. CASE kind = "bump"
      <4>1. /\ Apply(file, Edit("bump", o)) \in Listing
            /\ \A p \in Ops \ {o} : Apply(file, Edit("bump", o))[p] = file[p]
            /\ Apply(file, Edit("bump", o))[o] =
                 IF file[o] \in {Absent, MaxAttempts} THEN file[o] ELSE file[o] + 1
        BY <2>2, ApplyEdit
      <4> QED BY <3>2, <3>5, <4>1
    <3> QED BY <3>3, <3>4, <3>5
  <2>4. \A u \in Threads \ {t} : ~Editing(u) /\ thread[u].pc \notin {"write", "rename"}
    <3>1. Editing(t)
      BY <1>1 DEF Editing
    <3> QED BY <3>1, <1>9, <2>1 DEF OneEditor, Editing
  <2>5. OneEditor'
    <3>1. \A u \in Threads : thread'[u].pc \notin {"write", "rename"}
      BY <1>5, <1>8, <1>9, <2>4
    <3> QED BY <3>1 DEF OneEditor, Editing
  <2>6. \A p \in Ops : Touches(q, p) => Touches(r, p)
    BY <1>1, <1>2, <1>8 DEF Touches, Edits
  <2>7. o \in submitted /\ \A u \in Threads \ {t} : thread[u] # Idle => ~Adds(thread[u], o)
    BY <1>1, <1>2, <2>1 DEF AddedOnce, Unknown, Alone, Touches
  <2>8. AddedOnce'
    <3>1. ASSUME NEW p \in Ops, p \notin submitted' PROVE Unknown(p)'
      BY <3>1, <1>5, <1>6, <2>1, <2>3, <2>6, <2>7 DEF AddedOnce, Unknown
    <3>2. ASSUME NEW u \in Threads, NEW p \in Ops, thread'[u] # Idle, Adds(thread'[u], p)
          PROVE  Alone(u, p)'
      <4>1. u # t
        BY <3>2, <1>5, <1>8
      <4>2. thread[u] # Idle /\ Adds(thread[u], p) /\ Alone(u, p)
        BY <4>1, <3>2, <1>5, <2>1 DEF AddedOnce
      <4>3. p # o
        BY <4>1, <4>2, <2>7
      <4> QED BY <4>2, <4>3, <1>5, <2>3, <2>6 DEF Alone
    <3> QED BY <3>1, <3>2 DEF AddedOnce
  <2>9. \A u \in Threads \ {t}, p \in Ops : thread[u] # Idle /\ Bumps(thread[u], p) => p # o
    <3> SUFFICES ASSUME NEW u \in Threads \ {t}, thread[u] # Idle, Bumps(thread[u], o)
                 PROVE  FALSE
      OBVIOUS
    <3>1. thread[u].syncing
      <4>1. \A p \in Ops : ~Adds(thread[u], p)
        BY AddsOnly
      <4> QED BY <4>1 DEF Types, WorkOK, Work
    <3>2. ~r.syncing
      BY <3>1, <1>1 DEF OneSync
    <3>3. \E p \in Ops : Adds(r, p)
      BY <3>2, <1>1 DEF WorkOK
    <3>4. Adds(r, o)
      BY <3>3, <1>2, OneEdited DEF Edits
    <3> QED BY <3>4, <1>1, <2>1 DEF AddedOnce, Alone, Touches, Edits
  <2>10. AttemptsMade'
    <3>1. \A p \in Ops : file'[p] # Absent => file'[p] <= calls'[p]
      <4>1. file'[o] # Absent => file'[o] <= calls[o]
        <5>1. calls[o] \in 0..MaxAttempts /\ file[o] \in 0..MaxAttempts \cup {Absent}
          BY DEF Types, Listing
        <5>2. CASE kind = "add"
          BY <5>1, <5>2, <2>3
        <5>3. CASE kind = "remove"
          BY <5>3, <2>3
        <5>4. CASE kind = "bump"
          <6>1. file[o] # Absent => file[o] < calls[o] \/ calls[o] = MaxAttempts
            BY <5>4, <1>1, <1>3, <2>1 DEF AttemptsMade
          <6>2. file[o] # Absent => file[o] <= calls[o]
            BY <2>1 DEF AttemptsMade
          <6> QED BY <5>1, <5>4, <6>1, <6>2, <2>3
        <5> QED BY <5>2, <5>3, <5>4
      <4> QED BY <4>1, <1>6, <2>1, <2>3 DEF AttemptsMade
    <3>2. \A p \in Ops : q # Idle /\ q.todo[p] # Absent => q.todo[p] <= calls[p]
      BY <1>1, <1>8, <2>1 DEF AttemptsMade
    <3>3. \A p \in Ops : q # Idle => ~Bumps(q, p) /\ (Removes(q, p) => p \in settled)
      BY <1>1, <1>8, <2>1 DEF AttemptsMade
    <3>4. ASSUME NEW u \in Threads \ {t}, NEW p \in Ops, thread[u] # Idle
          PROVE  /\ thread[u].todo[p] # Absent => thread[u].todo[p] <= calls[p]
                 /\ Bumps(thread[u], p) /\ file'[p] # Absent => file'[p] < calls[p] \/ calls[p] = MaxAttempts
                 /\ Removes(thread[u], p) => p \in settled
      BY <3>4, <2>1, <2>3, <2>9 DEF AttemptsMade
    <3> QED BY <3>1, <3>2, <3>3, <3>4, <1>5, <1>6 DEF AttemptsMade
  <2>11. TakenOnce'
    <3> SUFFICES ASSUME NEW p \in Ops, accepted'[p] > 0, p \notin exposed'
                 PROVE  Done(p)'
      BY DEF TakenOnce
    <3>1. Done(p)
      BY <1>6, <2>1 DEF TakenOnce
    <3>2. \A u \in Threads : thread'[u] # Idle => thread'[u].todo[p] = Absent /\ ~Adds(thread'[u], p)
      BY <3>1, <1>1, <1>5, <1>8 DEF Done
    <3>3. ASSUME file'[p] # Absent
          PROVE  \E u \in Threads : thread'[u] # Idle /\ thread'[u].syncing /\ Removes(thread'[u], p)
      <4>1. kind # "add" \/ p # o
        BY <3>1, <1>1, <1>3 DEF Done
      <4>2. file[p] # Absent
        BY <3>3, <4>1, <2>3
      <4>3. PICK u \in Threads : thread[u] # Idle /\ thread[u].syncing /\ Removes(thread[u], p)
        BY <3>1, <4>2 DEF Done
      <4>4. CASE u # t
        BY <4>3, <4>4, <1>5
      <4>5. CASE u = t
        <5>1. p = o
          BY <4>3, <4>5, <1>2, OneEdited DEF Edits
        <5>2. r.edits = GivingUp(o)
          BY <5>1, <4>3, <4>5, <3>3, <1>3, <2>3, AddsOnly, ListsDiffer DEF Removes, Bumps
        <5> QED BY <5>1, <5>2, <1>5, <1>8
      <4> QED BY <4>4, <4>5
    <3> QED BY <3>1, <3>2, <3>3, <1>6 DEF Done
  <2>12. Kept'
    <3> SUFFICES ASSUME NEW p \in promised' PROVE file'[p] # Absent \/ p \in settled'
      BY DEF Kept, InFile
    <3>1. CASE kind = "add" /\ p = o
      BY <3>1, <2>3
    <3>2. CASE ~(kind = "add" /\ p = o)
      <4>1. p \in Ops /\ (file[p] # Absent \/ p \in settled)
        BY <3>2, <1>7, <2>1 DEF Kept, InFile, Types
      <4>2. CASE p # o
        BY <4>1, <4>2, <1>6, <2>3
      <4>3. CASE p = o /\ kind = "remove"
        <5>1. Removes(r, o)
          BY <4>3, <1>3 DEF Removes
        <5> QED BY <5>1, <4>3, <1>1, <1>6, <2>1 DEF AttemptsMade
      <4>4. CASE p = o /\ kind = "bump"
        <5>1. file[o] # Absent => file'[o] # Absent
          <6>1. file[o] \in 0..MaxAttempts \cup {Absent}
            BY <2>2 DEF Listing
          <6> QED BY <6>1, <4>4, <2>3
        <5> QED BY <5>1, <4>1, <4>4, <1>6
      <4> QED BY <4>2, <4>3, <4>4, <3>2
    <3> QED BY <3>1, <3>2
  <2> QED BY <2>5, <2>8, <2>10, <2>11, <2>12
<1> QED BY <1>10, <1>11, <1>12 DEF QueueInv

LEMMA QueueStep == QueueInv /\ [Next]_vars => QueueInv'
<1> SUFFICES ASSUME QueueInv, [Next]_vars PROVE QueueInv'
  OBVIOUS
<1>1. CASE UNCHANGED vars
  BY <1>1 DEF vars, QueueInv, Types, OneSync, Orderly, OneEditor, Editing, AddedOnce, Unknown,
              Alone, Touches, AttemptsMade, TakenOnce, Done, Kept, InFile
<1>2. ASSUME NEW t \in Threads, Submit(t) PROVE QueueInv'
  BY <1>2, SubmitDirectKeeps, SubmitQueuedKeeps DEF Submit
<1>3. ASSUME NEW t \in Threads, Sync(t) PROVE QueueInv'
  BY <1>3, SyncStartKeeps, ReplayKeeps, SyncEndKeeps DEF Sync
<1>4. ASSUME NEW t \in Threads, ReadArray(t) \/ WriteArray(t) \/ Rename(t) PROVE QueueInv'
  BY <1>4, ReadArrayKeeps, WriteArrayKeeps, RenameKeeps
<1>5. CASE Crash
  BY <1>5, CrashKeeps
<1> QED BY <1>1, <1>2, <1>3, <1>4, <1>5 DEF Next

-----------------------------------------------------------------------------
(* The theorems.                                                           *)

(* Whatever the threads, the operations and the number of attempts, an     *)
(* operation reported as queued stays in the file until it is answered or  *)
(* given up, as long as no two threads edit the file at once               *)
(* (OfflineQueue's read, write and rename).                                *)
THEOREM QueueForgetsNothing == Spec => []NothingForgotten
<1>1. QueueInv => NothingForgotten
  BY DEF QueueInv, Orderly, Kept, NothingForgotten
<1> QED BY <1>1, QueueStart, QueueStep, PTL DEF Spec

(* The server takes an operation twice only if an answer was lost, the app *)
(* died before the removal or two threads edited the file at once          *)
(* (SyncManager.flush).                                                    *)
THEOREM QueueDuplicates == Spec => []DuplicatesExplained
<1>1. QueueInv => DuplicatesExplained
  <2> SUFFICES ASSUME QueueInv, NEW o \in Ops, accepted[o] > 1, ~raced, o \notin exposed
               PROVE  FALSE
    BY DEF DuplicatesExplained
  <2>1. accepted[o] \in 0..2
    BY DEF QueueInv, Types
  <2> QED BY <2>1 DEF QueueInv, Orderly, TakenOnce, Done
<1> QED BY <1>1, QueueStart, QueueStep, PTL DEF Spec
=============================================================================
