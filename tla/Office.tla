------------------------------- MODULE Office -------------------------------
(***************************************************************************)
(* Requests of one server that do not touch the stock: connector settings  *)
(* and synchronisation, accounts, the tree of marking codes, the scans of  *)
(* pick tasks and the live screens.                                        *)
(*                                                                         *)
(* The five share no table and no row, so their requests have nothing to   *)
(* say to each other: a behaviour has those of one desk.                   *)
(***************************************************************************)
EXTENDS Settings, Access, Resolution, PickScan, Screens

CONSTANT Desks   \* the desks whose requests come in

ASSUME DesksAssumption == Desks \subseteq 
    {"connectors", "accounts", "codes", "scans", "screens"}

VARIABLE desk    \* the one of this behaviour

vars == <<settingsVars, accessVars, markVars, scanVars, screensVars,
          req, begun, desk>>

Init ==
    /\ NoRequests
    /\ SettingsInit /\ AccessInit /\ MarkingInit /\ PickScanInit
    /\ ScreensInit
    /\ desk \in Desks

Connectors ==
    /\ desk = "connectors"
    /\ \/ \E s \in Sessions : Administer(s) \/ Synchronise(s) \/ SettingsRollback(s)
       \/ \E i \in Items : ItemChanges(i)
       \/ Midnight
    /\ UNCHANGED <<accessVars, markVars, scanVars, screensVars, desk>>

Logins ==
    /\ desk = "accounts"
    /\ Accounts \/ \E s \in Sessions : Authenticate(s)
    /\ UNCHANGED <<settingsVars, markVars, scanVars, screensVars, desk>>

Codes ==
    /\ desk = "codes"
    /\ \E s \in Sessions : Label(s)
    /\ UNCHANGED <<settingsVars, accessVars, scanVars, screensVars, desk>>

Scans ==
    /\ desk = "scans"
    /\ ManagePicks \/ \E s \in Sessions : Scan(s) \/ Release(s)
    /\ UNCHANGED <<settingsVars, accessVars, markVars, screensVars, desk>>

Displays ==
    /\ desk = "screens"
    /\ (\E s \in Sessions : Change(s)) \/ (\E v \in Viewers : Watch(v))
    /\ UNCHANGED <<settingsVars, accessVars, markVars, scanVars, desk>>

Next == Connectors \/ Logins \/ Codes \/ Scans \/ Displays

Spec == Init /\ [][Next]_vars

-----------------------------------------------------------------------------
(* Properties *)

(* The setting a request is there to change. *)
Own(pc) == CASE pc = "policy" -> {"policy"}
             [] pc = "test" -> {"cooldown"}
             [] pc \in {"pull", "fetched", "stored"} -> {"mark"}
             [] OTHER -> {}

(* A request that writes the settings back changes its own of them and     *)
(* loses none that others stored, unless its copy was out of date; so does *)
(* the key refresh with the credentials (set_erp_write_roles,              *)
(* test_connector, sync_smartup_products, pull_now, _refresh_one).         *)
SettingsSurvive ==
    [][\A s \in Sessions \ overtaken :
         OnRow(s) /\ req[s].pc # "upsert" /\ req'[s] # req[s] =>
           LET old == config[req[s].type]
               new == config'[req[s].type] IN
           /\ \A f \in DOMAIN NoSettings \ Own(req[s].pc) : new.settings[f] = old.settings[f]
           /\ new.credentials.host = old.credentials.host]_vars

(* Every change of Smartup's catalogue gets here: one that is not stored   *)
(* yet is on or after the watermark, so that the next fetch brings it,     *)
(* unless a fetch waited over midnight (now_iso is the day of the writing).*)
NoMissedChanges ==
    \A i \in Items \ (current \cup late) : changed[i] >= config[Smartup].settings.mark

(* The stored key is the one the registry accepts, but while the refresh   *)
(* worker is about to store a new one; a crash just then, or an older key  *)
(* entered meanwhile, loses it (_refresh_one).                             *)
KeyIsValid ==
    config[AslBelgisi].there /\ ~keyLost =>
      \/ config[AslBelgisi].credentials.key = registry
      \/ \E s \in Sessions : req[s].pc = "refreshed"

(* A login has one live refresh token at a time, and none once it was      *)
(* logged out of, unless two requests used a token at once (refresh).      *)
OneLiveToken ==
    \A l \in Tokens \ raced :
      Cardinality({t \in Tokens : Live(t) /\ token[t].login = l})
        <= (IF l \in ended THEN 0 ELSE 1)

(* A pallet's codes are stamped with the place the goods lie at, though    *)
(* the tree grows while it is put away and the registry's answers are      *)
(* partial, as long as whole pallets are put away, and their codes not     *)
(* received or their tree fetched meanwhile (confirm, build_code_tree).    *)
CodesAreWhereTheyLie ==
    \A c \in Stored :
      Pallet(c) \notin mixedUp /\ (\A s \in Sessions : ~Growing(s, Pallet(c)))
        => mark[c].at = lies[c]

(* A scanned pallet counts as many boxes as are packed in it and is taken  *)
(* for their goods once its tree is stored, and never for more boxes or    *)
(* other goods before (resolve_scanned_code, on what build_code_tree and   *)
(* receipts left in the table).                                            *)
CountedAsPacked ==
    \A c \in {d \in Marks : GoodsRead[d] = NoGoods} :
      LET packed == {d \in Marks : Above[d] = c}
          whole == packed \subseteq Stored /\ Linked(Pallet(c)) IN
      /\ BoxCount(c) <= Counted(packed)
      /\ ResolvedGoods(c) \subseteq GoodsOf(Inside(c)) \cup {NoGoods}
      /\ whole => BoxCount(c) = Counted(packed)
      /\ whole /\ GoodsOf(packed) # {} => ResolvedGoods(c) = GoodsOf(packed)

(* No scan is counted twice or forgotten: the codes left are those of the  *)
(* plan that were not accepted, unless scans overlapped; the task is never *)
(* complete before all were accepted, whatever overlapped, and stays       *)
(* complete afterwards unless someone set its status, scans overlapped or  *)
(* a release had read the task before the last scan and cancels it after   *)
(* all (scan_validate, release_bookings).                                  *)
DoneMeansScanned ==
    \A p \in Picks :
      LET all == PlannedCodes[p] \subseteq accepted[p]
          done == pick[p].task = "completed" IN
      /\ pick[p] # NoPick /\ p \notin overlapped
           => pick[p].left = PlannedCodes[p] \ accepted[p]
      /\ p \notin byHand => (done => all)
      /\ p \notin byHand \cup overlapped \cup reread /\ PlannedCodes[p] # {}
           => (all => done)

(* A connected screen that has nothing left to hear or to fetch shows all  *)
(* that is committed, but for changes whose event did not reach it (it was *)
(* not connected, or its queue full), and changes it fetched for too soon: *)
(* they are published before the commit (publish, stream, useRealtime).    *)
ScreensFollow ==
    \A v \in Viewers :
      stream[v].open /\ stream[v].queue = <<>> /\ ~screen[v].fetching
        => committed \ screen[v].shows \subseteq untold[v] \cup early[v]
=============================================================================
