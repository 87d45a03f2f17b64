------------------------------ MODULE Settings ------------------------------
(***************************************************************************)
(* The connector_configs rows of a tenant and the requests that rewrite    *)
(* them: endpoints/connectors.py, services/erp_policy.py, services/sync.py *)
(* worker/sync_worker.py (pull_now) and worker/key_refresh.py.             *)
(*                                                                         *)
(* Every request reads the row, possibly calls the remote system, and      *)
(* writes back whole JSON columns made from the copy it read: the session  *)
(* keeps that copy even over its own commits (expire_on_commit=False).  An *)
(* UPDATE names the columns whose value differs from the copy's.           *)
(***************************************************************************)
EXTENDS Requests, FiniteSets, Sequences

CONSTANTS
    Smartup, AslBelgisi,
    Hosts,       \* values of the credentials beside the key
    NoHost,
    Policies,    \* values of erp_write_roles
    NoPolicy,    \* erp_write_roles not set
    Flows,       \* sequences of flows an operator asks for
    DueFlows,    \* sets of flows that the worker may find due at once
    Items,       \* products of Smartup's catalogue
    MaxDay,      \* bound: days that are modelled
    MaxKey       \* bound: keys the registry gives out

Types == {Smartup, AslBelgisi}
Days == 1..MaxDay
Never == 0

ASSUME SettingsAssumption ==
    /\ Smartup # AslBelgisi
    /\ NoPolicy \notin Policies
    /\ {MaxDay, MaxKey} \subseteq Nat \ {0}

VARIABLES
    config,     \* per type, its row
    day,        \* today, the resolution of a watermark
    registry,   \* the key the registry accepts
    changed,    \* per item, the day Smartup changed it last
    current,    \* items whose product row is what Smartup has
    overtaken,  \* sessions whose copy of their row is out of date (history)
    late,       \* items changed while a fetch of them waited over midnight (history)
    keyLost     \* a new key was not stored, or an older one was entered (history)

tables == <<config, day, registry, changed, current, late, keyLost>>
settingsVars == <<tables, overtaken>>

NoSettings == [policy |-> NoPolicy, cooldown |-> Never, mark |-> Never]
NoConfig == [there |-> FALSE, active |-> FALSE, settings |-> NoSettings,
             credentials |-> [key |-> Never, host |-> NoHost]]

SettingsInit ==
    /\ config = [t \in Types |-> NoConfig]
    /\ day = 1
    /\ registry = 1
    /\ changed = [i \in Items |-> 1]
    /\ current = {}
    /\ overtaken = {}
    /\ late = {}
    /\ keyLost = FALSE

-----------------------------------------------------------------------------
(* Reading and writing a row *)

OnRow(s) == "copy" \in DOMAIN req[s]

(* The columns of the copy that were assigned something else; dated: the   *)
(* settings also hold the time of this run, and so always differ.          *)
Assigned(stored, copy, new, dated) ==
    [there |-> TRUE,
     active |-> IF new.active = copy.active THEN stored.active ELSE new.active,
     credentials |-> IF new.credentials = copy.credentials THEN stored.credentials
                     ELSE new.credentials,
     settings |-> IF new.settings = copy.settings /\ ~dated THEN stored.settings
                  ELSE new.settings]

(* Of two requests that insert the row the unique constraint fails one.    *)
SaveRun(s, new, dated) ==
    LET q == req[s]
        row == IF q.copy.there THEN Assigned(config[q.type], q.copy, new, dated)
               ELSE [new EXCEPT !.there = TRUE] IN
    /\ q.copy.there = config[q.type].there
    /\ config' = [config EXCEPT ![q.type] = row]
    /\ overtaken' = IF row = config[q.type] /\ ~dated THEN overtaken
                    ELSE overtaken \cup {r \in Sessions \ {s} : OnRow(r) /\ req[r].type = q.type}

Save(s, new) == SaveRun(s, new, FALSE)

Load(s, pc, t, more) ==
    /\ Arrives(s)
    /\ Becomes(s, [pc |-> pc, type |-> t, copy |-> config[t], more |-> more])
    /\ overtaken' = overtaken \ {s}
    /\ UNCHANGED tables

LoadActive(s, pc, t, more) == config[t].active /\ Load(s, pc, t, more)

UnchangedRemote == UNCHANGED <<day, registry, changed>>

-----------------------------------------------------------------------------
(* What an administrator saves *)

(* POST /connectors replaces credentials and settings; the form sends {}.  *)
UpsertRead(s, t, host) == Load(s, "upsert", t, [key |-> registry, host |-> host])

UpsertSave(s) ==
    LET body == req[s].more IN
    /\ req[s].pc = "upsert"
    /\ Save(s, [there |-> TRUE, active |-> TRUE, credentials |-> body, settings |-> NoSettings])
    /\ keyLost' = IF req[s].type # AslBelgisi THEN keyLost
                  ELSE config'[AslBelgisi].credentials.key # registry
    /\ Ends(s)
    /\ UnchangedRemote /\ UNCHANGED <<current, late, begun>>

(* DELETE /connectors/{type} *)
DisableRead(s, t) == config[t].there /\ Load(s, "disable", t, <<>>)

DisableSave(s) ==
    /\ req[s].pc = "disable"
    /\ Save(s, [req[s].copy EXCEPT !.active = FALSE])
    /\ Ends(s)
    /\ UnchangedRemote /\ UNCHANGED <<current, late, keyLost, begun>>

(* PUT /connectors/erp-policy, of a connector that may be disabled *)
PolicyRead(s, policy) == config[Smartup].there /\ Load(s, "policy", Smartup, policy)

PolicySave(s) ==
    /\ req[s].pc = "policy"
    /\ Save(s, [req[s].copy EXCEPT !.settings.policy = req[s].more])
    /\ Ends(s)
    /\ UnchangedRemote /\ UNCHANGED <<current, late, keyLost, begun>>

-----------------------------------------------------------------------------
(* POST /connectors/{type}/test *)

Cooling(settings) == day < settings.cooldown

(* During the cooldown nothing is called and nothing changes. *)
TestRead(s, t) == ~Cooling(config[t].settings) /\ LoadActive(s, "test", t, <<>>)

OnlyCooldown(row, until) == [row EXCEPT !.settings = [NoSettings EXCEPT !.cooldown = until]]
WithCooldown(row, until) == [row EXCEPT !.settings.cooldown = until]

(* The answer is 429 with a Retry-After, of which at most a day is kept.   *)
TestLimited(s) ==
    /\ req[s].pc = "test"
    /\ Save(s, WithCooldown(req[s].copy, day + 1))
    /\ Ends(s)
    /\ UnchangedRemote /\ UNCHANGED <<current, late, keyLost, begun>>

(* The probe succeeds; an error and a 429 without a Retry-After are        *)
(* Rollback's, for they change nothing.                                    *)
TestPasses(s) ==
    /\ req[s].pc = "test"
    /\ Save(s, WithCooldown(req[s].copy, Never))
    /\ Ends(s)
    /\ UnchangedRemote /\ UNCHANGED <<current, late, keyLost, begun>>

-----------------------------------------------------------------------------
(* Pulling from Smartup: POST /smartup/sync/products runs one flow, POST   *)
(* /smartup/pull and the worker several, each committed by itself.         *)

PULL_FLOWS == <<"orders", "inputs", "products", "reconciliation">>

(* sync_orders, sync_inputs and the reconciliation store no rows: they     *)
(* answer with a snapshot, which is kept in the settings.                  *)
SnapshotOnly(flow) == flow # "products"

(* full: the whole catalogue, whatever the watermark; dated: pulls store   *)
(* the time of each flow's run too (last_<flow>_run_at).                   *)
SyncRead(s, full) ==
    LoadActive(s, "pull", Smartup, [flows |-> <<"products">>, full |-> full, dated |-> FALSE, open |-> TRUE])

PullRead(s, flows) ==
    LoadActive(s, "pull", Smartup,
               [flows |-> flows, full |-> FALSE, dated |-> TRUE, open |-> TRUE])

(* One tick of run_sync_worker, for the flows whose interval is over; the  *)
(* row is loaded once, and what is due is read off that copy.              *)
TickRead(s, due) ==
    LoadActive(s, "pull", Smartup,
               [flows |-> SelectSeq(PULL_FLOWS, LAMBDA flow : flow \in due),
                full |-> FALSE, dated |-> TRUE, open |-> TRUE])

Goes(s, pc, more) == Becomes(s, [req[s] EXCEPT !.pc = pc, !.more = more])

(* get_product_references(begin_modified_on=last_product_sync): what was   *)
(* changed on that day or later.                                           *)
Fetched(q) ==
    IF SnapshotOnly(Head(q.more.flows)) THEN {}
    ELSE {i \in Items : q.more.full \/ changed[i] >= q.copy.settings.mark}

Fetch(s) ==
    LET q == req[s] IN
    /\ q.pc = "pull"
    /\ Becomes(s, [pc |-> "fetched", type |-> q.type, copy |-> q.copy, more |-> q.more,
                   items |-> Fetched(q), stale |-> {}, on |-> day])
    /\ UNCHANGED <<settingsVars, begun>>

(* sync_products upserts the rows and commits. *)
StoreProducts(s) ==
    LET q == req[s] IN
    /\ q.pc = "fetched"
    /\ ~SnapshotOnly(Head(q.more.flows))
    /\ current' = (current \cup q.items) \ q.stale
    /\ late' = IF q.on < day THEN (late \ q.items) \cup q.stale ELSE late \ q.items
    /\ Becomes(s, [q EXCEPT !.pc = "stored", !.more.open = FALSE])
    /\ UnchangedRemote /\ UNCHANGED <<config, overtaken, keyLost, begun>>

(* The watermark is today, at the time of writing; a snapshot and its own  *)
(* watermark, that nothing here reads, are in the settings too.  Then the  *)
(* next flow begins, without a transaction.                                *)
Stamped(row, flow) ==
    IF SnapshotOnly(flow) THEN row ELSE [row EXCEPT !.settings.mark = day]

NextFlow(s, row) ==
    LET more == req[s].more IN
    IF Len(more.flows) = 1 THEN Ends(s)
    ELSE Becomes(s, [pc |-> "pull", type |-> Smartup, copy |-> row,
                     more |-> [more EXCEPT !.flows = Tail(@), !.open = FALSE]])

Stamp(s) ==
    LET q == req[s]
        flow == Head(q.more.flows)
        row == Stamped(q.copy, flow) IN
    /\ \/ q.pc = "stored"
       \/ q.pc = "fetched" /\ SnapshotOnly(flow)
    /\ SaveRun(s, row, q.more.dated)
    /\ late' = IF ~SnapshotOnly(flow) /\ q.on < day
                 THEN late \cup {i \in Items \ current : changed[i] < day} ELSE late
    /\ NextFlow(s, row)
    /\ UnchangedRemote /\ UNCHANGED <<current, keyLost, begun>>

(* A flow fails.  The next one goes on, unless the rollback ended an open  *)
(* transaction: that expires the row, which cannot be loaded again here,   *)
(* so that all the others fail too.  That is Rollback's.                   *)
StampedAnyway(s) ==
    /\ SaveRun(s, Stamped(req[s].copy, Head(req[s].more.flows)), req[s].more.dated)
    /\ UNCHANGED late
KeptAsItWas(s) == UNCHANGED <<config, overtaken, late>>

FlowFails(s) ==
    LET q == req[s] IN
    /\ q.pc = "pull"
    /\ ~q.more.open
    /\ KeptAsItWas(s)
    /\ NextFlow(s, q.copy)
    /\ UnchangedRemote /\ UNCHANGED <<current, keyLost, begun>>

-----------------------------------------------------------------------------
(* The key refresh worker, one iteration *)

RefreshRead(s) ==
    /\ \A r \in Sessions : req[r].pc \notin {"refresh", "refreshed"}
    /\ LoadActive(s, "refresh", AslBelgisi, <<>>)

(* The registry knows the key and it expires soon: a new one is given out, *)
(* and the old one is of no use any more.                                  *)
RefreshCall(s) ==
    LET q == req[s] IN
    /\ q.pc = "refresh"
    /\ q.copy.credentials.key = registry
    /\ registry < MaxKey
    /\ registry' = registry + 1
    /\ Goes(s, "refreshed", registry + 1)
    /\ UNCHANGED <<config, day, changed, current, overtaken, late, keyLost, begun>>

ChangedInPlace(row, key) == row
Renewed(row, key) == [row EXCEPT !.credentials.key = key]

RefreshSave(s) ==
    LET q == req[s] IN
    /\ q.pc = "refreshed"
    /\ Save(s, Renewed(q.copy, q.more))
    /\ keyLost' = FALSE
    /\ Ends(s)
    /\ UnchangedRemote /\ UNCHANGED <<current, late, begun>>

-----------------------------------------------------------------------------
(* The request raises, or the process dies. *)
SettingsRollback(s) ==
    /\ OnRow(s)
    /\ keyLost' = (keyLost \/ req[s].pc = "refreshed")
    /\ Ends(s)
    /\ UnchangedRemote /\ UNCHANGED <<config, current, late, overtaken, begun>>

(* Smartup changes an item: what was fetched of it is out of date. *)
ItemChanges(i) ==
    /\ changed' = [changed EXCEPT ![i] = day]
    /\ current' = current \ {i}
    /\ req' = [s \in Sessions |->
                 IF "items" \in DOMAIN req[s] /\ i \in req[s].items
                   THEN [req[s] EXCEPT !.stale = @ \cup {i}] ELSE req[s]]
    /\ UNCHANGED <<config, day, registry, overtaken, late, keyLost, begun>>

Midnight ==
    /\ day < MaxDay
    /\ day' = day + 1
    /\ UNCHANGED <<config, registry, changed, current, overtaken, late, keyLost, req, begun>>

Administer(s) ==
    \/ \E t \in Types, host \in Hosts : UpsertRead(s, t, host)
    \/ UpsertSave(s)
    \/ \E t \in Types : DisableRead(s, t)
    \/ DisableSave(s)
    \/ \E policy \in Policies : PolicyRead(s, policy)
    \/ PolicySave(s)
    \/ \E t \in Types : TestRead(s, t)
    \/ TestLimited(s)
    \/ TestPasses(s)

Synchronise(s) ==
    \/ \E full \in BOOLEAN : SyncRead(s, full)
    \/ \E flows \in Flows : PullRead(s, flows)
    \/ \E due \in DueFlows : TickRead(s, due)
    \/ Fetch(s)
    \/ StoreProducts(s)
    \/ Stamp(s)
    \/ FlowFails(s)
    \/ RefreshRead(s)
    \/ RefreshCall(s)
    \/ RefreshSave(s)
=============================================================================
