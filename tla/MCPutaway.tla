----------------------------- MODULE MCPutaway -----------------------------
(***************************************************************************)
(* Small instances of Putaway for TLC.  Codes compete for two locations,   *)
(* of one pallet and of two; a pallet of the first product has two boxes,  *)
(* one of another product a single box.                                    *)
(***************************************************************************)
EXTENDS Slotting, TLC

CONSTANTS l1, l2, p1, p2, c1, c2, c3, c4, a1, a2

(* Pairs of codes whose confirmations adjust the same stock item: c1 and   *)
(* c2 of a batch, c3 and c4 of the same product without one.               *)
MCSameProduct == [c \in Codes |-> IF c \in {c3, c4} THEN p2 ELSE p1]
MCOneArticle == [p \in Products |-> a1]

(* Two products and a code the product registry does not know. *)
MCProductOf == [c \in Codes |-> IF c = c1 THEN p1 ELSE IF c = c2 THEN p2 ELSE NoProduct]

(* The second code is sent with quantity 0, which reserve_slot raises to 1. *)
MCQtyOf == [c \in Codes |-> IF c = c1 THEN 2 ELSE IF c = c2 THEN 0 ELSE 1]

MCTwoArticles == p1 :> a1 @@ p2 :> a2
MCBoxesPerPallet == [a \in {a1, a2} |-> IF a = a1 THEN 2 ELSE 1]
MCBoxesOfOne == [a \in {a1} |-> 2]
MCMaxPallets == l1 :> 1 @@ l2 :> 2

(* The first product is kept out of the second location, and the second    *)
(* code is too heavy for the first.                                        *)
MCRules == [l \in Locations |->
              [byHand |-> FALSE, only |-> {Products},
               never |-> IF l = l2 THEN {p1} ELSE {}]]
MCTooHeavy == {<<c2, l1>>}

MCSymmetry ==
    Permutations(Reservations) \cup Permutations(Sessions) \cup Permutations({c3, c4})

(* What no action reads, nor any property of the run whose view this is:   *)
(* the locations bypassed and whether a reservation under way will be one. *)
MCView ==
    LET Forgotten(q) == IF q.pc = "reserving" THEN [q EXCEPT !.override = FALSE] ELSE q IN
    <<resv, status, rows, stock, extra, ledger, placed, codeLoc,
      [p \in Procs |-> Forgotten(req[p])]>>
=============================================================================
