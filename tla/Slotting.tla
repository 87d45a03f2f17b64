------------------------------ MODULE Slotting ------------------------------
(***************************************************************************)
(* Where the terminal proposes to put a scanned code: suggest_locations of *)
(* services/slotting.py, search_locations and scan_and_suggest of          *)
(* services/putaway.py.  They only read, and compute what is free by       *)
(* queries of their own, not by those reserve_slot checks it with.         *)
(*                                                                         *)
(* Everything is a function of Putaway's state.  Of the score only that it *)
(* orders the candidates is kept: any TopN of them may be the best.        *)
(***************************************************************************)
EXTENDS Putaway

CONSTANTS
    Storage,    \* locations of zones that are none of _NON_STORAGE
    Rules,      \* per location, the putaway_rules of its zone
    TooHeavy,   \* (code, location): estimated load beyond max_weight_kg
    TopN,       \* top_n
    Limit       \* rows search_locations looks at

(* Rules: by hand only (blocked, manual_only); the product sets of filters *)
(* that admit (abc, categories, product_ids, volume, gtin_allowlist,       *)
(* expiry_max_days); the products of gtin_blocklist.                       *)
ASSUME SlottingAssumption ==
    /\ Storage \subseteq Locations
    /\ Rules \in [Locations -> [byHand : BOOLEAN, only : SUBSET SUBSET Products,
                                never : SUBSET Products]]
    /\ TooHeavy \subseteq Codes \X Locations
    /\ {TopN, Limit} \subseteq Nat \ {0}

-----------------------------------------------------------------------------
(* Hard constraints *)

ZoneAccepts(l, p) ==
    /\ ~Rules[l].byHand
    /\ \A admitted \in Rules[l].only : p \in admitted
    /\ p \notin Rules[l].never

(* Boxes on the location, and boxes held there: the sum over all pending   *)
(* reservations, those overdue included.                                   *)
NotHeld(l) == 0
SumHeld(l) == HeldAt(l, Pending)
Shown(c, l) == CapacityBoxes(l, ProductOf[c]) - StockAt(l) - SumHeld(l)

Mixes(c, l) == l \notin AllowMixed /\ ~SameOnly(l, ProductOf[c])

Candidates(c) ==
    {l \in Storage :
       /\ status[l] \in {"empty", "partial"}
       /\ ZoneAccepts(l, ProductOf[c])
       /\ Shown(c, l) > 0
       /\ ~Mixes(c, l)
       /\ <<c, l>> \notin TooHeavy}

-----------------------------------------------------------------------------
(* The manual search: after its own sweep, whatever the zone.              *)

Live == Pending \ Overdue

(* can_place; the room of an unknown product is not looked at.             *)
CanPlace(c, l) ==
    /\ status[l] # "blocked"
    /\ Known(c) => RemainingBoxes(l, ProductOf[c], Live) >= Boxes(c) /\ ~Mixes(c, l)

(* The sets of rows the search answers with: the limit comes before any    *)
(* check and in no order.                                                  *)
Largest(n, S) == {R \in SUBSET S : Cardinality(R) = Min({n, Cardinality(S)})}
Searched == Largest(Limit, Locations)

-----------------------------------------------------------------------------
(* The suggestions a scan may answer with; those of a known product are    *)
(* ranked by a score, any of them first as far as the model tells.         *)
Ranked(c) == Largest(TopN, Candidates(c))

Suggestions(c) ==
    IF Known(c) THEN Ranked(c)
    ELSE {{l \in R : CanPlace(c, l)} : R \in Largest(TopN, Locations)}

-----------------------------------------------------------------------------
(* Properties *)

(* Whether reserve_slot, sent now, takes the code at the location. *)
Reservable(c, l) ==
    /\ status[l] # "blocked"
    /\ Known(c) =>
         /\ RemainingBoxes(l, ProductOf[c], Live) >= Boxes(c)
         /\ l \in AllowMixed \/ SameOnly(l, ProductOf[c])

(* What the terminal proposes can be reserved: every location a scan       *)
(* suggests and shows enough room for, and every one the search says the   *)
(* code can be placed at.  The three count a location's room separately    *)
(* (suggest_locations, search_locations, _remaining_boxes), holds and      *)
(* overdue holds among it.                                                 *)
SuggestedIsReservable ==
    \A c \in Codes :
      /\ \A S \in Suggestions(c) : \A l \in S :
           (Known(c) => Shown(c, l) >= Boxes(c)) => Reservable(c, l)
      /\ \A S \in Searched : \A l \in S : CanPlace(c, l) => Reservable(c, l)
=============================================================================
