----------------------------- MODULE MarkingTree -----------------------------
(***************************************************************************)
(* The aggregation tree of marking codes: pallets, boxes and units, whose  *)
(* parent and location the table marking_codes keeps.  Receipts add codes  *)
(* (_upsert_marking_code), a confirmed putaway stamps the tree stored so   *)
(* far (confirm_putaway) and then asks the registry for the rest of it     *)
(* (build_code_tree), as an operator may at any time                       *)
(* (fetch_location_code_tree of endpoints/stock.py).                       *)
(***************************************************************************)
EXTENDS Requests, FiniteSets

CONSTANTS
    Marks,       \* marking codes
    NoMark,      \* parent_code NULL
    Above,       \* per code, the code it is packed in, as the registry knows
    Places,      \* locations
    NoPlace,     \* location_id NULL
    Answers,     \* sets of codes the registry answers for
    MaxUp,       \* max_up of _find_root
    MaxDepth     \* max_depth of build_code_tree

ASSUME MarkingAssumption ==
    /\ NoMark \notin Marks
    /\ IsFiniteSet(Marks)
    /\ NoPlace \notin Places
    /\ Above \in [Marks -> Marks \cup {NoMark}]
    /\ Answers \subseteq SUBSET Marks
    /\ {MaxUp, MaxDepth} \subseteq Nat \ {0}

(* Pallets, boxes, units: fewer levels than build_code_tree follows.       *)
ASSUME PackingAssumption ==
    /\ MaxDepth <= MaxUp
    /\ \E level \in [Marks -> 0..(MaxDepth - 1)] :
         \A c \in Marks : level[c] = IF Above[c] = NoMark THEN 0 ELSE level[Above[c]] + 1

VARIABLES
    mark,       \* the marking_codes table
    lies,       \* where a code really is (history)
    mixedUp     \* pallets whose codes may be stamped wrong (history)

markVars == <<mark, lies, mixedUp>>

Unstored == [known |-> FALSE, parent |-> NoMark, at |-> NoPlace]

MarkingInit ==
    /\ mark = [c \in Marks |-> Unstored]
    /\ lies = [c \in Marks |-> NoPlace]
    /\ mixedUp = {}

-----------------------------------------------------------------------------
(* Trees *)

Stored == {c \in Marks : mark[c].known}

(* Level by level from some codes down to those whose parents were found.  *)
Descend(start, codes, parent, levels) ==
    LET down[n \in 0..levels] ==
          IF n = 0 THEN start
          ELSE LET found == down[n - 1] IN
               found \cup {d \in codes : parent[d] \in found}
    IN down[levels]

(* A code and all that is stored below it. *)
OnlyItself(c) == {c} \cap Stored
StoredTree(c) ==
    Descend({c}, Stored, [d \in Stored |-> mark[d].parent], Cardinality(Marks)) \cap Stored

(* Going up as long as the registry answers. *)
Up(c, answered) == IF c \in answered /\ Above[c] # NoMark THEN Above[c] ELSE c
RootFrom(c, answered) ==
    LET up[n \in 0..MaxUp] == IF n = 0 THEN c ELSE Up(up[n - 1], answered)
    IN up[MaxUp]

(* Going down to all the children of the codes it answers for. *)
TreeFrom(root, answered) ==
    Descend({root}, {c \in Marks : Above[c] \in answered}, Above, MaxDepth - 1)

(* The pallet a code is part of, and all of its codes. *)
Pallet(c) == RootFrom(c, Marks)
Whole(p) == {c \in Marks : Pallet(c) = p}

-----------------------------------------------------------------------------
(* Requests that build the tree of a pallet, or are about to. *)
Growing(s, p) ==
    /\ req[s].pc \in {"climbing", "growing"}
    /\ \E c \in {req[s].mark} \cup req[s].more : Pallet(c) = p
Crowded(s, p) == \E r \in Sessions \ {s} : Growing(r, p)

(* The pallet's stored codes all hang together. *)
Linked(p) ==
    \A c \in (Stored \cap Whole(p)) \ {p} :
      mark[c].parent = Above[c] /\ Above[c] \in Stored \cup {p}

(* POST /receipt: its children are those the table has already. *)
Receive(s, c) ==
    /\ Arrives(s)
    /\ c \notin Stored
    /\ mark' = [mark EXCEPT ![c].known = TRUE]
    /\ mixedUp' = IF lies[c] = NoPlace /\ ~Crowded(s, Pallet(c)) THEN mixedUp
                  ELSE mixedUp \cup {Pallet(c)}
    /\ UNCHANGED <<lies, req>>

(* Goods carried to place l with code c: what is packed in it goes along.  *)
Inside(c) == TreeFrom(c, Marks)
Together(c) == {d \in Inside(c) : lies[d] = lies[c]}

(* POST /putaway/confirm commits the putaway. *)
Place(s, c, l) ==
    /\ Arrives(s)
    /\ mark' = [d \in Marks |-> IF d \in StoredTree(c) THEN [mark[d] EXCEPT !.at = l] ELSE mark[d]]
    /\ lies' = [d \in Marks |-> IF d \in Together(c) THEN l ELSE lies[d]]
    /\ mixedUp' = IF c = Pallet(c) /\ ~Crowded(s, c) THEN mixedUp
                  ELSE mixedUp \cup {Pallet(c)}
    /\ Becomes(s, [pc |-> "climbing", mark |-> c, place |-> l, more |-> {}])

(* POST /stock/location/{id}/fetch-code-tree: one tree after the other.    *)
StoredAt(l) == {c \in Stored : mark[c].at = l}
Tops(l) == {c \in StoredAt(l) : mark[c].parent \notin StoredAt(l)}

FetchTree(s, l) ==
    /\ Arrives(s)
    /\ \E c \in Tops(l) :
         Becomes(s, [pc |-> "climbing", mark |-> c, place |-> l, more |-> Tops(l) \ {c}])
    /\ mixedUp' = mixedUp \cup {p \in {Pallet(c) : c \in Tops(l)} : Crowded(s, p)}
    /\ UNCHANGED <<mark, lies>>

-----------------------------------------------------------------------------
(* build_code_tree *)

(* _find_root; then all stored codes are loaded, and the registry asked    *)
(* level by level.                                                         *)
Climb(s) ==
    LET q == req[s] IN
    /\ q.pc = "climbing"
    /\ \E answered \in Answers :
         LET root == RootFrom(q.mark, answered) IN
         Becomes(s, [pc |-> "growing", mark |-> q.mark, place |-> q.place, more |-> q.more,
                     root |-> root, tree |-> TreeFrom(root, answered), seen |-> mark])
    /\ UNCHANGED <<markVars, begun>>

(* A column is written only if it differs from the copy's. *)
Differing(stored, seen, new) == IF new = seen THEN stored ELSE new

(* Codes that were stored meanwhile fail the insertion.                    *)
Grow(s) ==
    LET q == req[s]
        parent == [c \in q.tree |-> IF c = q.root THEN NoMark ELSE Above[c]] IN
    /\ q.pc = "growing"
    /\ \A c \in q.tree : ~q.seen[c].known => c \notin Stored
    /\ mark' = [c \in Marks |->
                  IF c \notin q.tree THEN mark[c]
                  ELSE IF ~q.seen[c].known
                    THEN [known |-> TRUE, parent |-> parent[c], at |-> q.place]
                  ELSE [known |-> TRUE,
                        parent |-> Differing(mark[c].parent, q.seen[c].parent, parent[c]),
                        at |-> Differing(mark[c].at, q.seen[c].at, q.place)]]
    /\ mixedUp' = IF Stored \cap Whole(Pallet(q.mark)) \subseteq q.tree THEN mixedUp
                  ELSE mixedUp \cup {p \in {Pallet(q.mark)} : ~Linked(p)}
    /\ IF q.more = {} THEN Ends(s)
       ELSE \E c \in q.more :
              Becomes(s, [pc |-> "climbing", mark |-> c, place |-> q.place,
                          more |-> q.more \ {c}])
    /\ UNCHANGED <<lies, begun>>

(* The registry fails, or the insertion; the putaway stands all the same.  *)
GrowFails(s) ==
    LET q == req[s] IN
    /\ q.pc \in {"climbing", "growing"}
    /\ Ends(s)
    /\ mixedUp' = mixedUp \cup {p \in {Pallet(q.mark)} : ~Linked(p)}
    /\ UNCHANGED <<mark, lies, begun>>

-----------------------------------------------------------------------------

Label(s) ==
    \/ \E c \in Marks : Receive(s, c)
    \/ \E c \in Marks, l \in Places : Place(s, c, l)
    \/ \E l \in Places : FetchTree(s, l)
    \/ Climb(s)
    \/ Grow(s)
    \/ GrowFails(s)
=============================================================================
