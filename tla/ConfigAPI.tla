------------------------------- MODULE ConfigAPI -------------------------------
(***************************************************************************)
(* The requests that configure an instance: the settings and webhook       *)
(* handlers (internal/api) with their statements on the store, and the     *)
(* copy of the settings that the running instance holds.                   *)
(*                                                                         *)
(* All of it is about one name, whose instance can be deleted and created  *)
(* again: a row is told from the next by its id.  Every store call and     *)
(* critical section is a step.  Values are told apart by the request that  *)
(* wrote them (0: the default).                                            *)
(***************************************************************************)
EXTENDS Integers, FiniteSets

CONSTANTS
  Workers,     \* requests that can be under way (bound)
  Fields,      \* of the settings
  MaxRows,     \* creations of the instance (bound)
  MaxWrites,   \* requests that change something (bound)
  MaxFaults,   \* store calls that fail (bound)
  None

ASSUME ConfigAssumption ==
  /\ IsFiniteSet(Workers) /\ Fields # {}
  /\ MaxRows \in Nat \ {0} /\ MaxWrites \in Nat /\ MaxFaults \in Nat
  /\ None \notin Int

RowIds == 1..MaxRows
Ids == 0..MaxWrites
Settings == [Fields -> Ids]
Default == [f \in Fields |-> 0]

Writes == {"create", "connect", "restart", "stop", "delete", "put", "setHook", "deleteHook"}

VARIABLES
  row,       \* the instances table: the id of the name's row, or None
  made,      \* rows created so far
  stored,    \* the settings table
  hook,      \* the webhooks table: what each row's webhook holds, or None
  running,   \* Manager.instances: None or [row, settings]
  req,       \* requests under way
  writes, faults,
  askedSettings, askedHook,    \* history: what the requests have asked for
  excusedSettings, excusedRun, excusedHook      \* history: see Overlaps

tableVars == <<row, made, stored, hook>>
boundVars == <<writes, faults>>
historyVars == <<askedSettings, askedHook, excusedSettings, excusedRun, excusedHook>>
vars == <<tableVars, running, req, boundVars, historyVars>>

-----------------------------------------------------------------------------
(* Requests *)

\* inst: the row in the request's context; settings: what it has read or is to write.
Idle == [pc |-> "idle", inst |-> None, id |-> 0, fields |-> {}, settings |-> Default]

At(w, pc) == req[w].pc = pc
Goto(w, pc) == req' = [req EXCEPT ![w].pc = pc]
Answer(w) == req' = [req EXCEPT ![w] = Idle]
OtherAt(w, pcs, r) == \E v \in Workers \ {w} : req[v].pc \in pcs /\ req[v].inst = r

Stays == UNCHANGED <<tableVars, running>>
NoHistory == UNCHANGED historyVars

(* Overlaps.  excusedSettings: rows whose settings one request wrote while       *)
(* another had read them and was still to write; excusedRun: the settings        *)
(* changed, or could not be read, while a connect was between reading and        *)
(* registering, or two requests were to notify the instance in any order;        *)
(* excusedHook: rows whose webhook came or went between the check of a           *)
(* HandleSetWebhook and its write.                                               *)

-----------------------------------------------------------------------------
(* A request has passed RequireInstance with the row of the name, which may be  *)
(* gone before it goes on, or with a row that is gone already but whose token   *)
(* is still in the cache (TokenCache).                                          *)

\* These go on with the name only, whatever row it had.
ByName == {"connect", "restart", "stop", "delete"}

Arrive(w, op, r, fields) ==
  /\ At(w, "idle")
  /\ writes < MaxWrites /\ writes' = writes + 1
  /\ req' = [req EXCEPT ![w] = [Idle EXCEPT !.pc = op, !.inst = r, !.fields = fields,
                                            !.id = IF op \in ByName THEN 0 ELSE writes + 1]]
  /\ Stays /\ NoHistory /\ UNCHANGED faults

Request(w) ==
  \/ \E op \in Writes \ {"create", "put"}, r \in 1..made :
       (op \in ByName => r = made) /\ Arrive(w, op, r, {})
  \/ \E r \in 1..made, fields \in SUBSET Fields \ {{}} : Arrive(w, "put", r, fields)
  \/ Arrive(w, "create", None, {})

-----------------------------------------------------------------------------
(* HandleUpdateSettings *)

Merged(w, settings) == [f \in Fields |-> IF f \in req[w].fields THEN req[w].id ELSE settings[f]]

\* Mutant: the settings start from their defaults, not from the stored ones.
PutReadDefaults(w) ==
  /\ At(w, "put")
  /\ req' = [req EXCEPT ![w].settings = Merged(w, Default), ![w].pc = "putUpsert"]
  /\ Stays /\ NoHistory /\ UNCHANGED boundVars

\* GetInstanceSettings, which answers the defaults for a row that is gone.
PutRead(w) ==
  /\ At(w, "put")
  /\ req' = [req EXCEPT ![w].settings = Merged(w, stored[req[w].inst]), ![w].pc = "putUpsert"]
  /\ Stays /\ NoHistory /\ UNCHANGED boundVars

\* UpsertInstanceSettings: the foreign key refuses a row that is gone.
PutUpsert(w) ==
  LET r == req[w].inst IN
  /\ At(w, "putUpsert")
  /\ IF row # r
     THEN Answer(w) /\ Stays /\ NoHistory
     ELSE /\ stored' = [stored EXCEPT ![r] = req[w].settings]
          /\ Goto(w, "putNotify")
          /\ askedSettings' = [askedSettings EXCEPT ![r] = Merged(w, @)]
          /\ excusedSettings' = IF OtherAt(w, {"putUpsert", "defaults"}, r)
                                THEN excusedSettings \cup {r} ELSE excusedSettings
          /\ excusedRun' = (excusedRun \/ OtherAt(w, {"putNotify"}, r))
          /\ UNCHANGED <<row, made, hook, running, askedHook, excusedHook>>
  /\ UNCHANGED boundVars

\* Mutant: only the store is written.
PutNotifyNobody(w) ==
  /\ At(w, "putNotify")
  /\ Answer(w)
  /\ Stays /\ NoHistory /\ UNCHANGED boundVars

\* Mutant: nothing asks whether the instance is running.
PutNotifyUnchecked(w) ==
  /\ At(w, "putNotify")
  /\ running' = [row |-> IF running = None THEN None ELSE running.row, settings |-> req[w].settings]
  /\ Answer(w)
  /\ NoHistory /\ UNCHANGED <<tableVars, boundVars>>

\* Manager.Get by name, and UpdateSettings of what is running by that name now.
PutNotify(w) ==
  LET r == req[w].inst IN
  /\ At(w, "putNotify")
  /\ running' = IF running = None THEN None ELSE [running EXCEPT !.settings = req[w].settings]
  /\ Answer(w)
  /\ excusedRun' = (excusedRun \/ (running # None /\ running.row # r)
                     \/ \E v \in Workers : At(v, "connectPut") /\ req[v].settings # req[w].settings)
  /\ UNCHANGED <<tableVars, boundVars, askedSettings, askedHook, excusedSettings, excusedHook>>

-----------------------------------------------------------------------------
(* HandleSetWebhook and HandleDeleteWebhook *)

\* Mutant: no check, always CreateWebhook.
SetHookCheckNothing(w) ==
  /\ At(w, "setHook")
  /\ Goto(w, "hookInsert")
  /\ Stays /\ NoHistory /\ UNCHANGED boundVars

SetHookCheck(w) ==
  /\ At(w, "setHook")
  /\ Goto(w, IF hook[req[w].inst] = None THEN "hookInsert" ELSE "hookUpdate")
  /\ Stays /\ NoHistory /\ UNCHANGED boundVars

\* What the webhook of r should be once w has answered.
Asked(w, r, value, broken) ==
  /\ askedHook' = [askedHook EXCEPT ![r] = value]
  /\ excusedHook' = IF OtherAt(w, broken, r) THEN excusedHook \cup {r} ELSE excusedHook
  /\ UNCHANGED <<askedSettings, excusedSettings, excusedRun>>

\* UpdateWebhook: of no row, if the webhook is gone; the answer is the same.
HookUpdate(w) ==
  LET r == req[w].inst IN
  /\ At(w, "hookUpdate")
  /\ hook' = IF hook[r] = None THEN hook ELSE [hook EXCEPT ![r] = req[w].id]
  /\ Answer(w)
  /\ Asked(w, r, req[w].id, {})
  /\ UNCHANGED <<row, made, stored, running, boundVars>>

\* CreateWebhook fails when there is one by now (UNIQUE) or the row is gone.
HookInsert(w) ==
  LET r == req[w].inst IN
  /\ At(w, "hookInsert")
  /\ hook' = IF row = r /\ hook[r] = None THEN [hook EXCEPT ![r] = req[w].id] ELSE hook
  /\ Answer(w)
  /\ Asked(w, r, req[w].id, {"hookInsert"})
  /\ UNCHANGED <<row, made, stored, running, boundVars>>

HookDelete(w) ==
  LET r == req[w].inst IN
  /\ At(w, "deleteHook")
  /\ hook' = [hook EXCEPT ![r] = None]
  /\ Answer(w)
  /\ Asked(w, r, None, {"hookUpdate"})
  /\ UNCHANGED <<row, made, stored, running, boundVars>>

-----------------------------------------------------------------------------
(* The instance's own requests, as far as the settings and rows are concerned: *)
(* InstanceManager has all of their steps.                                     *)

\* CreateInstance; UNIQUE (name) decides what the check before it has missed.
Create(w) ==
  /\ At(w, "create")
  /\ IF row # None
     THEN Answer(w) /\ UNCHANGED tableVars
     ELSE /\ made < MaxRows
          /\ made' = made + 1 /\ row' = made + 1
          /\ req' = [req EXCEPT ![w].inst = made + 1, ![w].pc = "defaults"]
          /\ UNCHANGED <<stored, hook>>
  /\ NoHistory /\ UNCHANGED <<running, boundVars>>

\* The settings row is written after the instance is there for others to use.
CreateDefaults(w) ==
  LET r == req[w].inst IN
  /\ At(w, "defaults")
  /\ stored' = IF row = r THEN [stored EXCEPT ![r] = Default] ELSE stored
  /\ Answer(w)
  /\ excusedRun' = (excusedRun \/ stored[r] # Default)
  /\ UNCHANGED <<row, made, hook, running, boundVars>>
  /\ UNCHANGED <<askedSettings, askedHook, excusedSettings, excusedHook>>

\* GetInstanceByName, and the end of what is running, under m.mu.
Lookup(w, at, next) ==
  /\ At(w, at)
  /\ IF row = None THEN Answer(w)
                   ELSE req' = [req EXCEPT ![w].inst = row, ![w].pc = next]
  /\ Stays /\ NoHistory /\ UNCHANGED boundVars

Evict(w, at, next) ==
  /\ At(w, at)
  /\ running' = None
  /\ Goto(w, next)
  /\ NoHistory /\ UNCHANGED <<tableVars, boundVars>>

\* Connect looks the row up first, Restart drops what is running first.
Connect(w) == Lookup(w, "connect", "connectEvict")
ConnectEvict(w) == Evict(w, "connectEvict", "connectRead")
Restart(w) == Evict(w, "restart", "restartLookup")
RestartLookup(w) == Lookup(w, "restartLookup", "connectRead")

\* createAndConnect reads the settings before it dials and registers.
ConnectRead(w) ==
  /\ At(w, "connectRead")
  /\ req' = [req EXCEPT ![w].settings = stored[req[w].inst], ![w].pc = "connectPut"]
  /\ Stays /\ NoHistory /\ UNCHANGED boundVars

\* When the read fails it goes on with the defaults.
ConnectReadFails(w) ==
  /\ At(w, "connectRead")
  /\ faults < MaxFaults /\ faults' = faults + 1
  /\ req' = [req EXCEPT ![w].settings = Default, ![w].pc = "connectPut"]
  /\ excusedRun' = TRUE
  /\ Stays /\ UNCHANGED <<writes, askedSettings, askedHook, excusedSettings, excusedHook>>

ConnectPut(w) ==
  /\ At(w, "connectPut")
  /\ running' = [row |-> req[w].inst, settings |-> req[w].settings]
  /\ Answer(w)
  /\ NoHistory /\ UNCHANGED <<tableVars, boundVars>>

\* Logout: the instance leaves the map, the row stays.
Stop(w) ==
  /\ At(w, "stop")
  /\ running' = None
  /\ Answer(w)
  /\ NoHistory /\ UNCHANGED <<tableVars, boundVars>>

Delete(w) == Evict(w, "delete", "deleteRow")

\* Manager.Delete looks the row up by name; settings and webhook go with it.
DeleteRow(w) ==
  /\ At(w, "deleteRow")
  /\ IF row = None
     THEN UNCHANGED tableVars
     ELSE /\ row' = None
          /\ stored' = [stored EXCEPT ![row] = Default]
          /\ hook' = [hook EXCEPT ![row] = None]
          /\ UNCHANGED made
  /\ Answer(w)
  /\ NoHistory /\ UNCHANGED <<running, boundVars>>

\* A store call, or dialling, fails and the handler answers an error.
Fail(w) ==
  /\ req[w].pc \in {"put", "putUpsert", "setHook", "hookUpdate", "hookInsert",
                    "deleteHook", "create", "defaults", "connect", "restartLookup",
                    "connectPut", "deleteRow"}
  /\ faults < MaxFaults /\ faults' = faults + 1
  /\ Answer(w)
  /\ Stays /\ NoHistory /\ UNCHANGED writes

-----------------------------------------------------------------------------
\* The server has started: an instance exists, with or without a webhook, and a
\* goroutine of LoadAll may be on its way to connect it.
Init ==
  /\ row = 1 /\ made = 1
  /\ stored = [r \in RowIds |-> Default]
  /\ \E h \in {None, 0} : hook = [r \in RowIds |-> IF r = 1 THEN h ELSE None]
  /\ running = None
  /\ \E loading \in SUBSET Workers :
       /\ \A v, w \in loading : v = w
       /\ req = [w \in Workers |-> IF w \in loading
                                  THEN [Idle EXCEPT !.pc = "connectRead", !.inst = row]
                                  ELSE Idle]
  /\ writes = 0 /\ faults = 0
  /\ askedSettings = stored /\ askedHook = hook
  /\ excusedSettings = {} /\ excusedRun = FALSE /\ excusedHook = {}

Step(w) ==
  \/ PutRead(w) \/ PutUpsert(w) \/ PutNotify(w)
  \/ SetHookCheck(w) \/ HookUpdate(w) \/ HookInsert(w) \/ HookDelete(w)
  \/ Create(w) \/ CreateDefaults(w)
  \/ Connect(w) \/ ConnectEvict(w) \/ Restart(w) \/ RestartLookup(w)
  \/ ConnectRead(w) \/ ConnectReadFails(w) \/ ConnectPut(w)
  \/ Stop(w) \/ Delete(w) \/ DeleteRow(w)

Next == \E w \in Workers : Request(w) \/ Step(w) \/ Fail(w)

Spec == Init /\ [][Next]_vars

-----------------------------------------------------------------------------
(* Properties *)

Pcs == {"idle", "putUpsert", "putNotify", "hookUpdate", "hookInsert",
        "defaults", "connectEvict", "restartLookup", "connectRead", "connectPut",
        "deleteRow"} \cup Writes

\* Every variable has its type.
TypeOK ==
  /\ row \in RowIds \cup {None} /\ made \in 0..MaxRows
  /\ stored \in [RowIds -> Settings] /\ hook \in [RowIds -> Ids \cup {None}]
  /\ running \in {None} \cup [row : RowIds, settings : Settings]
  /\ req \in [Workers -> [pc : Pcs, inst : RowIds \cup {None}, id : Ids, fields : SUBSET Fields,
                          settings : Settings]]
  /\ writes \in 0..MaxWrites /\ faults \in 0..MaxFaults
  /\ askedSettings \in [RowIds -> Settings] /\ askedHook \in [RowIds -> Ids \cup {None}]
  /\ excusedSettings \subseteq RowIds /\ excusedRun \in BOOLEAN /\ excusedHook \subseteq RowIds

\* Each request changes the settings it names and no others: all that was ever
\* asked for is stored, whatever else happens to the instance meanwhile, except
\* when two requests changed the settings at once (settings.go:28-60).
NoLostChange == row # None /\ row \notin excusedSettings => stored[row] = askedSettings[row]

\* "Notify the running instance about settings change": the copy an instance runs
\* with is what is stored, except between the two steps of a change and after
\* the overlaps of excusedRun (settings.go:58-67, manager.go:137-154).
RuntimeFresh ==
  /\ running # None /\ running.row = row /\ ~excusedRun
  /\ \A w \in Workers : ~At(w, "putNotify")
  => running.settings = stored[row]

\* The webhook is what the last request that came to its write asked for, unless
\* it came or went between the check and the write of another
\* (webhook.go:14-56, 74-84).
HookIsLast == row # None /\ row \notin excusedHook => hook[row] = askedHook[row]

=============================================================================
