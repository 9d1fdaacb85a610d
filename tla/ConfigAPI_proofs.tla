---------------------------- MODULE ConfigAPI_proofs ----------------------------
(***************************************************************************)
(* Theorems about ConfigAPI, for any number of requests, settings and rows *)
(* and with every fault.                                                   *)
(***************************************************************************)
EXTENDS ConfigAPI, TLAPS

\* A request that has begun works on a row that has been made, and the name's
\* row is one of them.
RowsMade ==
  /\ row # None => row \in 1..made
  /\ \A w \in Workers : req[w].pc \notin {"idle", "create"} => req[w].inst \in 1..made

-----------------------------------------------------------------------------
(* Types *)

LEMMA NoneIsNoNumber == None \notin RowIds /\ None \notin Ids
BY ConfigAssumption DEF RowIds, Ids

LEMMA DefaultIsSettings == Default \in Settings
BY ConfigAssumption DEF Default, Settings, Ids

LEMMA MergedIsSettings ==
  ASSUME NEW w \in Workers, TypeOK, NEW s \in Settings
  PROVE  Merged(w, s) \in Settings
BY DEF Merged, Settings, TypeOK

\* 1..made is a set of rows.
LEMMA MadeAreRows == ASSUME TypeOK PROVE 1..made \subseteq RowIds
BY ConfigAssumption DEF TypeOK, RowIds

LEMMA IdleIsRequest ==
  Idle \in [pc : Pcs, inst : RowIds \cup {None}, id : Ids, fields : SUBSET Fields,
            settings : Settings]
BY DefaultIsSettings, ConfigAssumption DEF Idle, Pcs, Ids

\* The two ways a step ends: the request goes on, or it is answered.
LEMMA AnswerKeeps ==
  ASSUME TypeOK, RowsMade, NEW w \in Workers, Answer(w), made' \in made..MaxRows
  PROVE  /\ req' \in [Workers -> [pc : Pcs, inst : RowIds \cup {None}, id : Ids,
                                  fields : SUBSET Fields, settings : Settings]]
         /\ \A v \in Workers : req'[v].pc \notin {"idle", "create"} => req'[v].inst \in 1..made'
<1>1. req' \in [Workers -> [pc : Pcs, inst : RowIds \cup {None}, id : Ids,
                            fields : SUBSET Fields, settings : Settings]]
  BY IdleIsRequest DEF TypeOK, Answer
<1>2. ASSUME NEW v \in Workers, req'[v].pc \notin {"idle", "create"}
      PROVE  req'[v].inst \in 1..made'
  <2>1. v # w
    BY <1>2 DEF Answer, Idle, TypeOK
  <2>2. req'[v] = req[v] /\ made \in Nat
    BY <2>1 DEF Answer, TypeOK
  <2> QED BY <1>2, <2>2 DEF RowsMade
<1> QED BY <1>1, <1>2

RequestType ==
  [pc : Pcs, inst : RowIds \cup {None}, id : Ids, fields : SUBSET Fields, settings : Settings]

LEMMA FieldsSet ==
  ASSUME NEW e \in RequestType, NEW p \in Pcs
  PROVE  /\ [e EXCEPT !.pc = p] \in RequestType
         /\ \A s \in Settings : [e EXCEPT !.settings = s] \in RequestType
         /\ \A r \in RowIds \cup {None} : [e EXCEPT !.inst = r] \in RequestType
<1>1. [e EXCEPT !.pc = p] \in RequestType
  BY DEF RequestType
<1>2. ASSUME NEW s \in Settings
      PROVE  [e EXCEPT !.settings = s] \in RequestType
  BY DEF RequestType
<1>3. ASSUME NEW r \in RowIds \cup {None}
      PROVE  [e EXCEPT !.inst = r] \in RequestType
  BY DEF RequestType
<1> QED BY <1>1, <1>2, <1>3

LEMMA GotoKeeps ==
  ASSUME TypeOK, RowsMade, NEW w \in Workers, NEW p \in Pcs, NEW s \in Settings,
         req[w].pc \notin {"idle", "create"}, made' = made,
         \/ req' = [req EXCEPT ![w].pc = p]
         \/ req' = [req EXCEPT ![w].settings = s, ![w].pc = p]
  PROVE  /\ req' \in [Workers -> [pc : Pcs, inst : RowIds \cup {None}, id : Ids,
                                  fields : SUBSET Fields, settings : Settings]]
         /\ \A v \in Workers : req'[v].pc \notin {"idle", "create"} => req'[v].inst \in 1..made'
<1>1. CASE req' = [req EXCEPT ![w].pc = p]
  BY <1>1 DEF TypeOK, RowsMade
<1>2. CASE req' = [req EXCEPT ![w].settings = s, ![w].pc = p]
  <2> DEFINE d == [req[w] EXCEPT !.settings = s]
             e == [d EXCEPT !.pc = p]
  <2>1. /\ req' = [v \in Workers |-> IF v = w THEN e ELSE req[v]]
        /\ e.inst = req[w].inst
    BY <1>2 DEF TypeOK
  <2>2. e \in RequestType
    <3>1. d \in RequestType  BY FieldsSet DEF TypeOK, RequestType
    <3> QED BY <3>1, FieldsSet
  <2>3. req' \in [Workers -> [pc : Pcs, inst : RowIds \cup {None}, id : Ids,
                              fields : SUBSET Fields, settings : Settings]]
    BY <2>1, <2>2 DEF TypeOK, RequestType
  <2> HIDE DEF e
  <2>4. \A v \in Workers : req'[v].pc \notin {"idle", "create"} => req'[v].inst \in 1..made
    BY <2>1 DEF RowsMade
  <2> QED BY <2>3, <2>4
<1> QED BY <1>1, <1>2

LEMMA ArriveKeeps ==
  ASSUME TypeOK, RowsMade, NEW w \in Workers, NEW op \in Writes, NEW r \in 1..made \cup {None},
         NEW fields \in SUBSET Fields, Arrive(w, op, r, fields), r = None => op = "create"
  PROVE  TypeOK' /\ RowsMade'
<1>1. req' \in [Workers -> [pc : Pcs, inst : RowIds \cup {None}, id : Ids,
                            fields : SUBSET Fields, settings : Settings]]
  <2> DEFINE i == IF op \in ByName THEN 0 ELSE writes + 1
  <2>1. i \in Ids
    BY ConfigAssumption DEF Arrive, TypeOK, Ids
  <2> HIDE DEF i
  <2>2. op \in Pcs /\ r \in RowIds \cup {None}
    BY MadeAreRows DEF Pcs
  <2>3. [Idle EXCEPT !.pc = op, !.inst = r, !.fields = fields, !.id = i]
          \in [pc : Pcs, inst : RowIds \cup {None}, id : Ids, fields : SUBSET Fields,
               settings : Settings]
    BY <2>1, <2>2, IdleIsRequest
  <2> QED BY <2>3 DEF Arrive, TypeOK, i
<1>2. \A v \in Workers : req'[v].pc \notin {"idle", "create"} => req'[v].inst \in 1..made
  BY DEF Arrive, TypeOK, RowsMade, Idle
<1>3. writes' \in 0..MaxWrites
  BY ConfigAssumption DEF Arrive, TypeOK
<1> QED
  BY <1>1, <1>2, <1>3
  DEF Arrive, TypeOK, RowsMade, Stays, NoHistory, tableVars, historyVars

LEMMA RequestKeeps ==
  ASSUME TypeOK, RowsMade, NEW w \in Workers, Request(w)
  PROVE  TypeOK' /\ RowsMade'
<1>1. ASSUME NEW op \in Writes \ {"create", "put"}, NEW r \in 1..made, Arrive(w, op, r, {})
      PROVE  TypeOK' /\ RowsMade'
  BY <1>1, ArriveKeeps, NoneIsNoNumber, MadeAreRows
<1>2. ASSUME NEW r \in 1..made, NEW fields \in SUBSET Fields \ {{}}, Arrive(w, "put", r, fields)
      PROVE  TypeOK' /\ RowsMade'
  <2>1. "put" \in Writes  BY DEF Writes
  <2> QED BY <1>2, <2>1, ArriveKeeps, NoneIsNoNumber, MadeAreRows
<1>3. ASSUME Arrive(w, "create", None, {}) PROVE TypeOK' /\ RowsMade'
  <2>1. "create" \in Writes  BY DEF Writes
  <2>2. None \in 1..made \cup {None} /\ {} \in SUBSET Fields  OBVIOUS
  <2> QED BY <1>3, <2>1, <2>2, ArriveKeeps, Zenon
<1> QED BY <1>1, <1>2, <1>3 DEF Request

LEMMA PutKeeps ==
  ASSUME TypeOK, RowsMade, NEW w \in Workers, PutRead(w) \/ PutUpsert(w) \/ PutNotify(w)
  PROVE  TypeOK' /\ RowsMade'
<1> DEFINE r == req[w].inst
<1>0. made \in made..MaxRows /\ r \in RowIds
  <2>1. req[w].pc \notin {"idle", "create"}  BY DEF PutRead, PutUpsert, PutNotify, At
  <2> QED BY <2>1, MadeAreRows, ConfigAssumption DEF TypeOK, RowsMade
<1>1. CASE PutRead(w)
  <2>1. Merged(w, stored[r]) \in Settings
    BY <1>0, MergedIsSettings DEF TypeOK
  <2>2. "putUpsert" \in Pcs /\ req[w].pc \notin {"idle", "create"} /\ made' = made
    BY <1>1 DEF Pcs, PutRead, At, Stays, tableVars
  <2>3. req' = [req EXCEPT ![w].settings = Merged(w, stored[r]), ![w].pc = "putUpsert"]
    BY <1>1 DEF PutRead
  <2> HIDE DEF r
  <2> QED
    BY <1>1, <2>1, <2>2, <2>3, GotoKeeps
    DEF PutRead, TypeOK, RowsMade, Stays, NoHistory, tableVars, historyVars, boundVars
<1>2. CASE PutUpsert(w) /\ row # r
  BY <1>0, <1>2, AnswerKeeps
  DEF PutUpsert, TypeOK, RowsMade, Stays, NoHistory, tableVars, historyVars, boundVars
<1>3. CASE PutUpsert(w) /\ row = r
  <2>1. "putNotify" \in Pcs /\ req[w].pc \notin {"idle", "create"} /\ made' = made
    BY <1>3 DEF Pcs, PutUpsert, At
  <2>2. req' = [req EXCEPT ![w].pc = "putNotify"] /\ req[w].settings \in Settings
    BY <1>3 DEF PutUpsert, Goto, TypeOK
  <2>3. stored' \in [RowIds -> Settings]
    BY <1>3, <2>2 DEF PutUpsert, TypeOK
  <2>4. askedSettings' \in [RowIds -> Settings]
    <3>1. Merged(w, askedSettings[r]) \in Settings  BY <1>0, MergedIsSettings DEF TypeOK
    <3>2. askedSettings' = [askedSettings EXCEPT ![r] = Merged(w, askedSettings[r])]
      BY <1>3 DEF PutUpsert
    <3> QED BY <3>1, <3>2 DEF TypeOK
  <2>5. excusedSettings' \subseteq RowIds
    BY <1>0, <1>3 DEF PutUpsert, TypeOK
  <2>6. excusedRun' \in BOOLEAN
    BY <1>3 DEF PutUpsert
  <2>7. UNCHANGED <<row, made, hook, running, askedHook, excusedHook, writes, faults>>
    BY <1>3 DEF PutUpsert, boundVars
  <2> QED
    BY <2>1, <2>2, <2>3, <2>4, <2>5, <2>6, <2>7, GotoKeeps DEF TypeOK, RowsMade
<1>4. CASE PutNotify(w)
  <2>1. running' \in {None} \cup [row : RowIds, settings : Settings]
    BY <1>4 DEF PutNotify, TypeOK
  <2>2. excusedRun' \in BOOLEAN
    BY <1>4 DEF PutNotify
  <2>3. Answer(w) /\ UNCHANGED <<row, made, stored, hook, writes, faults, askedSettings, askedHook,
                                 excusedSettings, excusedHook>>
    BY <1>4 DEF PutNotify, tableVars, boundVars
  <2> QED BY <1>0, <2>1, <2>2, <2>3, AnswerKeeps DEF TypeOK, RowsMade
<1> QED BY <1>1, <1>2, <1>3, <1>4

LEMMA HookKeeps ==
  ASSUME TypeOK, RowsMade, NEW w \in Workers,
         SetHookCheck(w) \/ HookUpdate(w) \/ HookInsert(w) \/ HookDelete(w)
  PROVE  TypeOK' /\ RowsMade'
<1> DEFINE r == req[w].inst
<1>0. made \in made..MaxRows /\ r \in RowIds
  <2>1. req[w].pc \notin {"idle", "create"}
    BY DEF SetHookCheck, HookUpdate, HookInsert, HookDelete, At
  <2> QED BY <2>1, MadeAreRows, ConfigAssumption DEF TypeOK, RowsMade
<1>1. CASE SetHookCheck(w)
  <2> DEFINE p == IF hook[r] = None THEN "hookInsert" ELSE "hookUpdate"
  <2>1. p \in Pcs /\ req[w].pc \notin {"idle", "create"} /\ made' = made
    BY <1>1 DEF Pcs, SetHookCheck, At, Stays, tableVars
  <2>2. req' = [req EXCEPT ![w].pc = p] /\ Default \in Settings
    BY <1>1, DefaultIsSettings DEF SetHookCheck, Goto
  <2> HIDE DEF p
  <2> QED
    BY <1>1, <2>1, <2>2, GotoKeeps
    DEF SetHookCheck, TypeOK, RowsMade, Stays, NoHistory, tableVars, historyVars, boundVars
<1>2. CASE HookUpdate(w) \/ HookInsert(w) \/ HookDelete(w)
  <2>1. PICK value \in Ids \cup {None}, broken \in SUBSET Pcs : Asked(w, r, value, broken)
    <3>1. req[w].id \in Ids  BY DEF TypeOK
    <3>2. "hookInsert" \in Pcs /\ "hookUpdate" \in Pcs  BY DEF Pcs
    <3>3. CASE HookUpdate(w)  BY <3>1, <3>3, Zenon DEF HookUpdate
    <3>4. CASE HookInsert(w)
      <4>1. Asked(w, r, req[w].id, {"hookInsert"})  BY <3>4 DEF HookInsert
      <4> QED BY <3>1, <3>2, <4>1
    <3>5. CASE HookDelete(w)
      <4>1. Asked(w, r, None, {"hookUpdate"})  BY <3>5 DEF HookDelete
      <4> QED BY <3>2, <4>1
    <3> QED BY <1>2, <3>3, <3>4, <3>5
  <2>2. askedHook' \in [RowIds -> Ids \cup {None}] /\ excusedHook' \subseteq RowIds
    BY <1>0, <2>1 DEF Asked, TypeOK
  <2>3. UNCHANGED <<askedSettings, excusedSettings, excusedRun>>
    BY <2>1 DEF Asked
  <2>4. hook' \in [RowIds -> Ids \cup {None}]
    BY <1>2 DEF HookUpdate, HookInsert, HookDelete, TypeOK
  <2>5. Answer(w) /\ UNCHANGED <<row, made, stored, running, writes, faults>>
    BY <1>2 DEF HookUpdate, HookInsert, HookDelete, boundVars
  <2> QED BY <1>0, <2>2, <2>3, <2>4, <2>5, AnswerKeeps DEF TypeOK, RowsMade
<1> QED BY <1>1, <1>2

LEMMA CreateKeeps ==
  ASSUME TypeOK, RowsMade, NEW w \in Workers, Create(w) \/ CreateDefaults(w)
  PROVE  TypeOK' /\ RowsMade'
<1>0. made \in made..MaxRows
  BY ConfigAssumption DEF TypeOK
<1>1. CASE Create(w) /\ row # None
  BY <1>0, <1>1, AnswerKeeps
  DEF Create, TypeOK, RowsMade, NoHistory, tableVars, historyVars, boundVars
<1>2. CASE Create(w) /\ row = None
  <2>1. made' = made + 1 /\ row' = made + 1 /\ made + 1 \in RowIds /\ made' \in 0..MaxRows
    BY <1>2, ConfigAssumption DEF Create, TypeOK, RowIds
  <2>2. req' = [req EXCEPT ![w].inst = made + 1, ![w].pc = "defaults"]
    BY <1>2 DEF Create
  <2>3. req' \in [Workers -> [pc : Pcs, inst : RowIds \cup {None}, id : Ids,
                              fields : SUBSET Fields, settings : Settings]]
    <3>1. "defaults" \in Pcs  BY DEF Pcs
    <3> DEFINE d == [req[w] EXCEPT !.inst = made + 1]
               e == [d EXCEPT !.pc = "defaults"]
    <3>2. d \in RequestType  BY <2>1, <3>1, FieldsSet DEF TypeOK, RequestType
    <3>3. e \in RequestType  BY <3>1, <3>2, FieldsSet
    <3>4. req' = [v \in Workers |-> IF v = w THEN e ELSE req[v]]
      BY <2>2 DEF TypeOK
    <3> HIDE DEF e
    <3> QED BY <3>3, <3>4 DEF TypeOK, RequestType
  <2>4. \A v \in Workers : req'[v].pc \notin {"idle", "create"} => req'[v].inst \in 1..made'
    BY <2>1, <2>2 DEF TypeOK, RowsMade
  <2>5. row' \in 1..made'
    BY <2>1 DEF TypeOK
  <2>6. UNCHANGED <<stored, hook, running, writes, faults, historyVars>>
    BY <1>2 DEF Create, NoHistory, boundVars
  <2> QED BY <2>1, <2>3, <2>4, <2>5, <2>6 DEF TypeOK, RowsMade, historyVars
<1>3. CASE CreateDefaults(w)
  <2>1. stored' \in [RowIds -> Settings]
    BY <1>3, DefaultIsSettings DEF CreateDefaults, TypeOK
  <2>2. excusedRun' \in BOOLEAN
    BY <1>3 DEF CreateDefaults
  <2>3. Answer(w) /\ UNCHANGED <<row, made, hook, running, writes, faults, askedSettings,
                                 askedHook, excusedSettings, excusedHook>>
    BY <1>3 DEF CreateDefaults, boundVars
  <2> QED BY <1>0, <2>1, <2>2, <2>3, AnswerKeeps DEF TypeOK, RowsMade
<1> QED BY <1>1, <1>2, <1>3

LEMMA EvictKeeps ==
  ASSUME TypeOK, RowsMade, NEW w \in Workers,
         NEW at \in {"connectEvict", "restart", "delete"},
         NEW next \in {"connectRead", "restartLookup", "deleteRow"}, Evict(w, at, next)
  PROVE  TypeOK' /\ RowsMade'
<1>1. next \in Pcs /\ req[w].pc \notin {"idle", "create"} /\ made' = made
  BY DEF Pcs, Evict, At, tableVars
<1>2. req' = [req EXCEPT ![w].pc = next] /\ Default \in Settings
  BY DefaultIsSettings DEF Evict, Goto
<1>3. /\ req' \in [Workers -> [pc : Pcs, inst : RowIds \cup {None}, id : Ids,
                                fields : SUBSET Fields, settings : Settings]]
      /\ \A v \in Workers : req'[v].pc \notin {"idle", "create"} => req'[v].inst \in 1..made'
  BY <1>1, <1>2, GotoKeeps
<1> QED
  BY <1>3 DEF Evict, TypeOK, RowsMade, NoHistory, tableVars, historyVars, boundVars

LEMMA ConnectKeeps ==
  ASSUME TypeOK, RowsMade, NEW w \in Workers,
         \/ Connect(w) \/ ConnectEvict(w) \/ Restart(w) \/ RestartLookup(w)
         \/ ConnectRead(w) \/ ConnectReadFails(w) \/ ConnectPut(w)
  PROVE  TypeOK' /\ RowsMade'
<1>0. made \in made..MaxRows /\ req[w].pc \notin {"idle", "create"} /\ req[w].inst \in RowIds
  <2>1. req[w].pc \notin {"idle", "create"}
    BY DEF Connect, ConnectEvict, Restart, RestartLookup, Lookup, Evict, ConnectRead,
           ConnectReadFails, ConnectPut, At
  <2> QED BY <2>1, MadeAreRows, ConfigAssumption DEF TypeOK, RowsMade
<1>1. CASE Connect(w) \/ RestartLookup(w)
  <2>1. PICK at \in {"connect", "restartLookup"}, next \in {"connectEvict", "connectRead"} :
               Lookup(w, at, next)
    BY <1>1 DEF Connect, RestartLookup
  <2>2. UNCHANGED <<tableVars, running, historyVars, writes, faults>> /\ next \in Pcs
    BY <2>1 DEF Lookup, Stays, NoHistory, boundVars, Pcs
  <2>3. CASE row = None
    BY <1>0, <2>1, <2>2, <2>3, AnswerKeeps DEF Lookup, TypeOK, RowsMade, tableVars, historyVars
  <2>4. CASE row # None
    <3>1. /\ req' = [req EXCEPT ![w].inst = row, ![w].pc = next]
          /\ row \in 1..made /\ row \in RowIds
      BY <2>1, <2>4 DEF Lookup, RowsMade, TypeOK
    <3>2. req' \in [Workers -> [pc : Pcs, inst : RowIds \cup {None}, id : Ids,
                                fields : SUBSET Fields, settings : Settings]]
      <4> DEFINE d == [req[w] EXCEPT !.inst = row]
                 e == [d EXCEPT !.pc = next]
      <4>1. d \in RequestType  BY <2>2, <3>1, FieldsSet DEF TypeOK, RequestType
      <4>2. e \in RequestType  BY <2>2, <4>1, FieldsSet
      <4>3. req' = [v \in Workers |-> IF v = w THEN e ELSE req[v]]
        BY <3>1 DEF TypeOK
      <4> HIDE DEF e
      <4> QED BY <4>2, <4>3 DEF TypeOK, RequestType
    <3>3. \A v \in Workers : req'[v].pc \notin {"idle", "create"} => req'[v].inst \in 1..made
      BY <3>1 DEF TypeOK, RowsMade
    <3> QED BY <2>2, <3>2, <3>3 DEF TypeOK, RowsMade, tableVars, historyVars
  <2> QED BY <2>3, <2>4
<1>2. CASE ConnectEvict(w) \/ Restart(w)
  BY <1>2, EvictKeeps DEF ConnectEvict, Restart
<1>3. CASE ConnectRead(w) \/ ConnectReadFails(w)
  <2>1. PICK s \in Settings : req' = [req EXCEPT ![w].settings = s, ![w].pc = "connectPut"]
    BY <1>0, <1>3, DefaultIsSettings DEF ConnectRead, ConnectReadFails, TypeOK
  <2>2. "connectPut" \in Pcs /\ made' = made /\ UNCHANGED <<tableVars, running, writes>>
    BY <1>3 DEF Pcs, ConnectRead, ConnectReadFails, Stays, tableVars, boundVars
  <2>3. faults' \in 0..MaxFaults /\ excusedRun' \in BOOLEAN
    <3>1. CASE ConnectRead(w)
      BY <3>1 DEF ConnectRead, boundVars, NoHistory, historyVars, TypeOK
    <3>2. CASE ConnectReadFails(w)
      <4>1. faults' \in 0..MaxFaults  BY <3>2, ConfigAssumption DEF ConnectReadFails, TypeOK
      <4>2. excusedRun' \in BOOLEAN  BY <3>2 DEF ConnectReadFails
      <4> QED BY <4>1, <4>2
    <3> QED BY <1>3, <3>1, <3>2
  <2>4. UNCHANGED <<askedSettings, askedHook, excusedSettings, excusedHook>>
    BY <1>3 DEF ConnectRead, ConnectReadFails, NoHistory, historyVars
  <2> QED BY <1>0, <2>1, <2>2, <2>3, <2>4, GotoKeeps DEF TypeOK, RowsMade, tableVars
<1>4. CASE ConnectPut(w)
  BY <1>0, <1>4, AnswerKeeps
  DEF ConnectPut, TypeOK, RowsMade, NoHistory, tableVars, historyVars, boundVars
<1> QED BY <1>1, <1>2, <1>3, <1>4

LEMMA LeaveKeeps ==
  ASSUME TypeOK, RowsMade, NEW w \in Workers,
         Stop(w) \/ Delete(w) \/ DeleteRow(w) \/ Fail(w)
  PROVE  TypeOK' /\ RowsMade'
<1>0. made \in made..MaxRows /\ made \in Nat
  BY ConfigAssumption DEF TypeOK
<1>1. CASE Stop(w)
  BY <1>0, <1>1, AnswerKeeps
  DEF Stop, TypeOK, RowsMade, NoHistory, tableVars, historyVars, boundVars
<1>2. CASE Delete(w)
  BY <1>2, EvictKeeps DEF Delete
<1>3. CASE DeleteRow(w)
  <2>1. stored' \in [RowIds -> Settings] /\ hook' \in [RowIds -> Ids \cup {None}]
    BY <1>3, DefaultIsSettings DEF DeleteRow, TypeOK, tableVars
  <2>2. made' = made /\ row' \in {row, None}
    BY <1>3 DEF DeleteRow, tableVars
  <2>3. Answer(w) /\ UNCHANGED <<running, writes, faults, historyVars>>
    BY <1>3 DEF DeleteRow, NoHistory, boundVars
  <2> QED BY <1>0, <2>1, <2>2, <2>3, AnswerKeeps DEF TypeOK, RowsMade, historyVars
<1>4. CASE Fail(w)
  <2>1. faults' \in 0..MaxFaults
    BY <1>4, ConfigAssumption DEF Fail, TypeOK
  <2>2. Answer(w) /\ UNCHANGED <<tableVars, running, writes, historyVars>>
    BY <1>4 DEF Fail, Stays, NoHistory
  <2> QED BY <1>0, <2>1, <2>2, AnswerKeeps DEF TypeOK, RowsMade, tableVars, historyVars
<1> QED BY <1>1, <1>2, <1>3, <1>4

LEMMA NextKeepsTypes ==
  ASSUME TypeOK, RowsMade, [Next]_vars
  PROVE  TypeOK' /\ RowsMade'
<1>1. ASSUME NEW w \in Workers, Request(w) \/ Step(w) \/ Fail(w)
      PROVE  TypeOK' /\ RowsMade'
  BY <1>1, RequestKeeps, PutKeeps, HookKeeps, CreateKeeps, ConnectKeeps, LeaveKeeps DEF Step
<1>2. CASE UNCHANGED vars
  BY <1>2 DEF TypeOK, RowsMade, vars, tableVars, boundVars, historyVars
<1> QED BY <1>1, <1>2 DEF Next

LEMMA InitTypes == Init => TypeOK /\ RowsMade
<1> SUFFICES ASSUME Init PROVE TypeOK /\ RowsMade
  OBVIOUS
<1>1. 1 \in RowIds /\ 1 \in 0..MaxRows /\ 0 \in Ids /\ 0 \in 0..MaxWrites /\ 0 \in 0..MaxFaults
  BY ConfigAssumption DEF RowIds, Ids
<1>2. stored \in [RowIds -> Settings] /\ hook \in [RowIds -> Ids \cup {None}]
  BY <1>1, DefaultIsSettings DEF Init
<1>3. row = 1 /\ made = 1 /\ row \in 1..made
  BY DEF Init
<1> DEFINE loader == [Idle EXCEPT !.pc = "connectRead", !.inst = row]
<1>4. loader \in [pc : Pcs, inst : RowIds \cup {None}, id : Ids, fields : SUBSET Fields,
                  settings : Settings] /\ loader.inst = row
  BY <1>1, <1>3, IdleIsRequest DEF Idle, Pcs
<1>5. \A w \in Workers : req[w] \in {Idle, loader}
  BY DEF Init
<1>6. req \in [Workers -> [pc : Pcs, inst : RowIds \cup {None}, id : Ids,
                           fields : SUBSET Fields, settings : Settings]]
  <2>1. req = [w \in Workers |-> req[w]]
    BY DEF Init
  <2> QED BY <1>4, <1>5, <2>1, IdleIsRequest
<1>7. \A w \in Workers : req[w].pc = "idle" \/ req[w].inst \in 1..made
  <2>1. Idle.pc = "idle"  BY DEF Idle
  <2> HIDE DEF loader
  <2> QED BY <1>3, <1>4, <1>5, <2>1
<1> QED BY <1>1, <1>2, <1>3, <1>6, <1>7 DEF Init, TypeOK, RowsMade

\* Every variable keeps its type, and every request works on a row that exists
\* or has existed.
THEOREM TypeCorrect == Spec => [](TypeOK /\ RowsMade)
BY InitTypes, NextKeepsTypes, PTL DEF Spec

-----------------------------------------------------------------------------
(* What is stored is what was asked for.                                       *)
(*                                                                             *)
(* NoLostChange and HookIsLast are not inductive: a request may be about to    *)
(* write what it read earlier.  The strengthening says that what it has read   *)
(* still holds when nobody has overlapped with it.                             *)

Unmade(r) ==
  /\ stored[r] = Default /\ askedSettings[r] = Default
  /\ hook[r] = None /\ askedHook[r] = None

Holds(w, pc, excused) == At(w, pc) /\ row # None /\ req[w].inst = row /\ row \notin excused

ReadsHold ==
  \A w \in Workers :
    /\ Holds(w, "putUpsert", excusedSettings) => req[w].settings = Merged(w, stored[row])
    /\ Holds(w, "defaults", excusedSettings) => stored[row] = Default
    /\ Holds(w, "hookInsert", excusedHook) => hook[row] = None
    /\ Holds(w, "hookUpdate", excusedHook) => hook[row] # None

StoredInv ==
  /\ \A r \in RowIds : r > made => Unmade(r)
  /\ NoLostChange
  /\ HookIsLast
  /\ ReadsHold

\* The places from which a request writes what it has read.
Pending == {"putUpsert", "defaults", "hookInsert", "hookUpdate"}

\* A step that writes none of it, and lets no request come to such a place.
LEMMA QuietKeeps ==
  ASSUME StoredInv,
         UNCHANGED <<row, made, stored, hook, askedSettings, askedHook,
                     excusedSettings, excusedHook>>,
         \A v \in Workers : req'[v].pc \in Pending => req'[v] = req[v]
  PROVE  StoredInv'
<1>1. (\A r \in RowIds : r > made => Unmade(r))' /\ NoLostChange' /\ HookIsLast'
  BY DEF StoredInv, Unmade, NoLostChange, HookIsLast
<1>2. ASSUME NEW v \in Workers
      PROVE  /\ Holds(v, "putUpsert", excusedSettings)' => Holds(v, "putUpsert", excusedSettings)
             /\ Holds(v, "defaults", excusedSettings)' => Holds(v, "defaults", excusedSettings)
             /\ Holds(v, "hookInsert", excusedHook)' => Holds(v, "hookInsert", excusedHook)
             /\ Holds(v, "hookUpdate", excusedHook)' => Holds(v, "hookUpdate", excusedHook)
  BY DEF Holds, At, Pending
<1>3. ASSUME NEW v \in Workers, Holds(v, "putUpsert", excusedSettings)'
      PROVE  req'[v].settings = Merged(v, stored[row])'
  <2>1. req'[v] = req[v]  BY <1>3 DEF Holds, At, Pending
  <2>2. req[v].settings = Merged(v, stored[row])  BY <1>2, <1>3 DEF StoredInv, ReadsHold
  <2> QED BY <2>1, <2>2 DEF Merged
<1>4. ReadsHold'
  BY <1>2, <1>3 DEF StoredInv, ReadsHold
<1> QED BY <1>1, <1>4 DEF StoredInv

LEMMA OthersQuiet ==
  ASSUME TypeOK, StoredInv, NEW w \in Workers,
         \/ Request(w) \/ PutNotify(w)
         \/ (Create(w) /\ row # None)
         \/ (PutUpsert(w) /\ row # req[w].inst)
         \/ Connect(w) \/ ConnectEvict(w) \/ Restart(w) \/ RestartLookup(w)
         \/ ConnectRead(w) \/ ConnectReadFails(w) \/ ConnectPut(w)
         \/ Stop(w) \/ Delete(w) \/ Fail(w)
  PROVE  StoredInv'
<1>1. UNCHANGED <<row, made, stored, hook, askedSettings, askedHook, excusedSettings, excusedHook>>
  BY DEF Request, Arrive, PutNotify, Create, PutUpsert, Connect, ConnectEvict, Restart, RestartLookup, Lookup, Evict, ConnectRead, ConnectReadFails,
         ConnectPut, Stop, Delete, Fail, Stays, NoHistory, tableVars, historyVars
<1>2. ASSUME NEW v \in Workers, req'[v].pc \in Pending PROVE req'[v] = req[v]
  <2>1. CASE v = w
    <3>1. req'[w].pc \in Writes \cup {"idle", "connectEvict", "restartLookup", "connectRead", "connectPut", "deleteRow"}
      <4>1. CASE Request(w)
        <5>1. PICK op \in Writes, r \in 1..made \cup {None}, fields \in SUBSET Fields :
                     Arrive(w, op, r, fields)
          BY <4>1, Zenon DEF Request, Writes
        <5> QED BY <5>1 DEF Arrive, TypeOK, Idle
      <4>2. CASE ~Request(w)
        BY <4>2 DEF PutNotify, Create, PutUpsert, Connect, ConnectEvict, Restart, RestartLookup, Lookup, Evict, ConnectRead, ConnectReadFails,
                    ConnectPut, Stop, Delete, Fail, Answer, Goto, Idle, TypeOK
      <4> QED BY <4>1, <4>2
    <3> QED BY <1>2, <2>1, <3>1 DEF Pending, Writes
  <2>2. CASE v # w
    BY <2>2 DEF Request, Arrive, PutNotify, Create, PutUpsert, Connect, ConnectEvict, Restart, RestartLookup, Lookup, Evict, ConnectRead,
                ConnectReadFails, ConnectPut, Stop, Delete, Fail, Answer, Goto, TypeOK
  <2> QED BY <2>1, <2>2
<1> QED BY <1>1, <1>2, QuietKeeps

LEMMA PutReadKeepsStored ==
  ASSUME TypeOK, StoredInv, NEW w \in Workers, PutRead(w)
  PROVE  StoredInv'
<1>1. UNCHANGED <<row, made, stored, hook, askedSettings, askedHook, excusedSettings, excusedHook>>
  BY DEF PutRead, Stays, NoHistory, tableVars, historyVars
<1>2. \A v \in Workers \ {w} : req'[v] = req[v]
  BY DEF PutRead, TypeOK
<1>3. /\ req'[w].pc = "putUpsert" /\ req'[w].inst = req[w].inst
      /\ req'[w].settings = Merged(w, stored[req[w].inst])
      /\ req'[w].fields = req[w].fields /\ req'[w].id = req[w].id
  BY DEF PutRead, TypeOK
<1>4. \A v \in Workers : At(v, "putUpsert")' /\ row # None /\ req'[v].inst = row
                         /\ row \notin excusedSettings
        => req'[v].settings = Merged(v, stored[row])'
  BY <1>1, <1>2, <1>3 DEF StoredInv, ReadsHold, Holds, At, Merged
<1> QED
  BY <1>1, <1>2, <1>3, <1>4
  DEF StoredInv, Unmade, NoLostChange, HookIsLast, ReadsHold, Holds, At

LEMMA PutUpsertKeepsStored ==
  ASSUME TypeOK, RowsMade, StoredInv, NEW w \in Workers, PutUpsert(w), row = req[w].inst
  PROVE  StoredInv'
<1>0. row \in 1..made /\ row \in RowIds /\ row # None
  <2>1. req[w].inst \in 1..made  BY DEF PutUpsert, At, RowsMade
  <2> QED BY <2>1, MadeAreRows, NoneIsNoNumber
<1>1. UNCHANGED <<row, made, hook, askedHook, excusedHook>>
  BY DEF PutUpsert
<1>2. /\ stored' = [stored EXCEPT ![row] = req[w].settings]
      /\ askedSettings' = [askedSettings EXCEPT ![row] = Merged(w, askedSettings[row])]
      /\ excusedSettings' = IF OtherAt(w, {"putUpsert", "defaults"}, row)
                            THEN excusedSettings \cup {row} ELSE excusedSettings
  BY DEF PutUpsert
<1>3. /\ req'[w].pc = "putNotify"
      /\ \A v \in Workers \ {w} : req'[v] = req[v]
  BY DEF PutUpsert, Goto, TypeOK
<1>4. (\A r \in RowIds : r > made => Unmade(r))'
  BY <1>0, <1>1, <1>2, ConfigAssumption DEF StoredInv, Unmade, TypeOK, RowIds
<1>5. ASSUME row \notin excusedSettings'
      PROVE  /\ stored'[row] = askedSettings'[row]
             /\ \A v \in Workers : ~(req'[v].pc \in {"putUpsert", "defaults"} /\ req'[v].inst = row)
  <2>1. row \notin excusedSettings /\ ~OtherAt(w, {"putUpsert", "defaults"}, row)
    BY <1>2, <1>5
  <2>2. req[w].settings = Merged(w, stored[row]) /\ stored[row] = askedSettings[row]
    BY <1>0, <2>1 DEF StoredInv, ReadsHold, NoLostChange, Holds, PutUpsert
  <2>3. stored'[row] = req[w].settings /\ askedSettings'[row] = Merged(w, askedSettings[row])
    BY <1>0, <1>2 DEF TypeOK
  <2> QED BY <2>1, <2>2, <2>3, <1>3 DEF OtherAt
<1>6. ASSUME row \notin excusedHook
      PROVE  /\ hook[row] = askedHook[row]
             /\ \A v \in Workers :
                  /\ At(v, "hookInsert")' /\ req'[v].inst = row => hook[row] = None
                  /\ At(v, "hookUpdate")' /\ req'[v].inst = row => hook[row] # None
  BY <1>0, <1>3, <1>6 DEF StoredInv, HookIsLast, ReadsHold, Holds, At
<1>7. ReadsHold'
  BY <1>1, <1>5, <1>6 DEF ReadsHold, Holds, At
<1> QED BY <1>1, <1>4, <1>5, <1>6, <1>7 DEF StoredInv, NoLostChange, HookIsLast

\* SetHookCheck and the three writes touch nothing of the settings.
LEMMA HookKeepsStored ==
  ASSUME TypeOK, RowsMade, StoredInv, NEW w \in Workers,
         SetHookCheck(w) \/ HookUpdate(w) \/ HookInsert(w) \/ HookDelete(w)
  PROVE  StoredInv'
<1> DEFINE r == req[w].inst
<1>0. r \in 1..made /\ r \in RowIds /\ r # None
  <2>1. r \in 1..made
    BY DEF SetHookCheck, HookUpdate, HookInsert, HookDelete, At, RowsMade
  <2> QED BY <2>1, MadeAreRows, NoneIsNoNumber
<1>1. UNCHANGED <<row, made, stored, askedSettings, excusedSettings>>
  BY DEF SetHookCheck, HookUpdate, HookInsert, HookDelete, Asked, Stays, NoHistory, tableVars,
         historyVars
<1>2. \A v \in Workers \ {w} : req'[v] = req[v]
  BY DEF SetHookCheck, HookUpdate, HookInsert, HookDelete, Goto, Answer, TypeOK
<1>3. /\ SetHookCheck(w) => /\ req'[w].pc = IF hook[r] = None THEN "hookInsert" ELSE "hookUpdate"
                            /\ req'[w].inst = r
      /\ ~SetHookCheck(w) => req'[w].pc = "idle"
  BY DEF SetHookCheck, HookUpdate, HookInsert, HookDelete, Goto, Answer, TypeOK, Idle
<1>4. (\A q \in RowIds : q > made => Unmade(q))'
  <2>1. ASSUME NEW q \in RowIds, q > made
        PROVE  hook'[q] = hook[q] /\ askedHook'[q] = askedHook[q]
    <3>1. q # r  BY <1>0, <2>1 DEF TypeOK, RowIds
    <3> QED
      BY <3>1 DEF SetHookCheck, HookUpdate, HookInsert, HookDelete, Asked, Stays, NoHistory,
                  tableVars, historyVars, TypeOK
  <2> QED BY <1>1, <2>1 DEF StoredInv, Unmade
<1>5. NoLostChange'
  BY <1>1 DEF StoredInv, NoLostChange
<1>6. \A v \in Workers :
        /\ Holds(v, "putUpsert", excusedSettings)' => req'[v].settings = Merged(v, stored[row])'
        /\ Holds(v, "defaults", excusedSettings)' => stored'[row] = Default
  <2> TAKE v \in Workers
  <2>1. CASE v = w
    BY <1>3, <2>1 DEF Holds, At
  <2>2. CASE v # w
    BY <1>1, <1>2, <2>2 DEF StoredInv, ReadsHold, Holds, At, Merged
  <2> QED BY <2>1, <2>2
<1>7. ASSUME row # None, row \notin excusedHook'
      PROVE  /\ hook'[row] = askedHook'[row]
             /\ \A v \in Workers :
                  /\ At(v, "hookInsert")' /\ req'[v].inst = row => hook'[row] = None
                  /\ At(v, "hookUpdate")' /\ req'[v].inst = row => hook'[row] # None
  <2>0. row \notin excusedHook
    BY <1>7 DEF SetHookCheck, HookUpdate, HookInsert, HookDelete, Asked, NoHistory, historyVars
  <2>1. /\ hook[row] = askedHook[row]
        /\ \A v \in Workers :
             /\ At(v, "hookInsert") /\ req[v].inst = row => hook[row] = None
             /\ At(v, "hookUpdate") /\ req[v].inst = row => hook[row] # None
    BY <1>7, <2>0 DEF StoredInv, HookIsLast, ReadsHold, Holds
  <2>2. row \in RowIds
    BY <1>7 DEF TypeOK
  <2>3. CASE SetHookCheck(w)
    <3>1. hook' = hook /\ askedHook' = askedHook
      BY <2>3 DEF SetHookCheck, Stays, NoHistory, tableVars, historyVars
    <3> QED BY <1>2, <1>3, <2>1, <2>3, <3>1 DEF At
  <2>4. CASE row # r /\ ~SetHookCheck(w)
    <3>1. hook'[row] = hook[row] /\ askedHook'[row] = askedHook[row]
      BY <2>2, <2>4 DEF HookUpdate, HookInsert, HookDelete, Asked, TypeOK
    <3> QED BY <1>2, <1>3, <2>1, <2>4, <3>1 DEF At
  <2>5. CASE row = r /\ HookUpdate(w)
    <3>1. hook[row] # None
      BY <2>1, <2>5 DEF HookUpdate
    <3>2. hook'[row] = req[w].id /\ askedHook'[row] = req[w].id /\ req[w].id # None
      BY <2>2, <2>5, <3>1, NoneIsNoNumber DEF HookUpdate, Asked, TypeOK
    <3>3. req'[w].pc = "idle"  BY <2>5 DEF HookUpdate, Answer, TypeOK, Idle
    <3> QED BY <1>2, <2>1, <3>1, <3>2, <3>3 DEF At
  <2>6. CASE row = r /\ HookInsert(w)
    <3>1. hook[row] = None
      BY <2>1, <2>6 DEF HookInsert
    <3>2. hook'[row] = req[w].id /\ askedHook'[row] = req[w].id /\ req[w].id # None
      BY <2>2, <2>6, <3>1, NoneIsNoNumber DEF HookInsert, Asked, TypeOK
    <3>3. req'[w].pc = "idle"  BY <2>6 DEF HookInsert, Answer, TypeOK, Idle
    <3>4. ~OtherAt(w, {"hookInsert"}, row)
      BY <1>7, <2>6 DEF HookInsert, Asked
    <3> QED BY <1>2, <2>1, <3>2, <3>3, <3>4 DEF At, OtherAt
  <2>7. CASE row = r /\ HookDelete(w)
    <3>1. hook'[row] = None /\ askedHook'[row] = None
      BY <2>2, <2>7 DEF HookDelete, Asked, TypeOK
    <3>2. req'[w].pc = "idle"  BY <2>7 DEF HookDelete, Answer, TypeOK, Idle
    <3>3. ~OtherAt(w, {"hookUpdate"}, row)
      BY <1>7, <2>7 DEF HookDelete, Asked
    <3> QED BY <1>2, <3>1, <3>2, <3>3 DEF At, OtherAt
  <2> QED BY <2>3, <2>4, <2>5, <2>6, <2>7
<1> QED
  BY <1>1, <1>4, <1>5, <1>6, <1>7 DEF StoredInv, HookIsLast, ReadsHold, Holds

LEMMA CreateKeepsStored ==
  ASSUME TypeOK, RowsMade, StoredInv, NEW w \in Workers, Create(w), row = None
  PROVE  StoredInv'
<1>1. /\ made' = made + 1 /\ row' = made + 1 /\ made + 1 \in RowIds /\ made \in Nat
      /\ UNCHANGED <<stored, hook, historyVars>>
  BY ConfigAssumption DEF Create, TypeOK, RowIds, NoHistory
<1>2. /\ req'[w].pc = "defaults"
      /\ \A v \in Workers \ {w} : req'[v] = req[v]
  BY DEF Create, TypeOK
<1>3. \A v \in Workers \ {w} : req'[v].pc \in Pending => req'[v].inst # row'
  BY <1>1, <1>2 DEF RowsMade, Pending
<1>4. Unmade(made + 1)
  BY <1>1 DEF StoredInv
<1>5. (\A r \in RowIds : r > made => Unmade(r))'
  BY <1>1, ConfigAssumption DEF StoredInv, Unmade, historyVars, RowIds
<1>6. NoLostChange' /\ HookIsLast'
  BY <1>1, <1>4 DEF NoLostChange, HookIsLast, Unmade, historyVars
<1>7. ReadsHold'
  BY <1>1, <1>2, <1>3, <1>4 DEF ReadsHold, Holds, At, Unmade, Pending
<1> QED BY <1>5, <1>6, <1>7 DEF StoredInv

LEMMA CreateDefaultsKeepsStored ==
  ASSUME TypeOK, RowsMade, StoredInv, NEW w \in Workers, CreateDefaults(w)
  PROVE  StoredInv'
<1>1. UNCHANGED <<row, made, hook, askedSettings, askedHook, excusedSettings, excusedHook>>
  BY DEF CreateDefaults
<1>2. req'[w].pc = "idle" /\ \A v \in Workers \ {w} : req'[v] = req[v]
  BY DEF CreateDefaults, Answer, TypeOK, Idle
<1>3. (\A r \in RowIds : r > made => Unmade(r))'
  <2>1. \A r \in RowIds : r > made => stored'[r] = stored[r]
    BY DEF CreateDefaults, StoredInv, Unmade, TypeOK
  <2> QED BY <1>1, <2>1 DEF StoredInv, Unmade
<1>4. ASSUME row # None, row \notin excusedSettings
      PROVE  stored'[row] = stored[row]
  BY <1>4 DEF CreateDefaults, StoredInv, ReadsHold, Holds, TypeOK
<1>5. NoLostChange' /\ HookIsLast'
  BY <1>1, <1>4 DEF StoredInv, NoLostChange, HookIsLast
<1>6. \A v \in Workers :
        /\ Holds(v, "putUpsert", excusedSettings)' => req'[v].settings = Merged(v, stored[row])'
        /\ Holds(v, "defaults", excusedSettings)' => stored'[row] = Default
        /\ Holds(v, "hookInsert", excusedHook)' => hook'[row] = None
        /\ Holds(v, "hookUpdate", excusedHook)' => hook'[row] # None
  <2> TAKE v \in Workers
  <2>1. CASE v = w
    BY <1>2, <2>1 DEF Holds, At
  <2>2. CASE v # w
    BY <1>1, <1>2, <1>4, <2>2 DEF StoredInv, ReadsHold, Holds, At, Merged
  <2> QED BY <2>1, <2>2
<1>7. ReadsHold'
  BY <1>1, <1>6 DEF ReadsHold
<1> QED BY <1>3, <1>5, <1>7 DEF StoredInv

LEMMA DeleteRowKeepsStored ==
  ASSUME TypeOK, RowsMade, StoredInv, NEW w \in Workers, DeleteRow(w)
  PROVE  StoredInv'
<1>1. row' = None /\ made' = made /\ UNCHANGED historyVars
  BY DEF DeleteRow, NoHistory, tableVars
<1>2. \A r \in RowIds : r > made => stored'[r] = stored[r] /\ hook'[r] = hook[r]
  <2>1. CASE row = None
    BY <2>1 DEF DeleteRow, tableVars
  <2>2. CASE row # None
    <3>1. \A r \in RowIds : r > made => r # row
      BY <2>2, ConfigAssumption DEF RowsMade, RowIds, TypeOK
    <3>2. /\ stored' = [stored EXCEPT ![row] = Default]
          /\ hook' = [hook EXCEPT ![row] = None]
      BY <2>2 DEF DeleteRow
    <3> QED BY <3>1, <3>2 DEF TypeOK
  <2> QED BY <2>1, <2>2
<1>3. (\A r \in RowIds : r > made => Unmade(r))'
  BY <1>1, <1>2 DEF StoredInv, Unmade, historyVars
<1> QED BY <1>1, <1>3 DEF StoredInv, NoLostChange, HookIsLast, ReadsHold, Holds

LEMMA NextKeepsStored ==
  ASSUME TypeOK, RowsMade, StoredInv, [Next]_vars
  PROVE  StoredInv'
<1>1. ASSUME NEW w \in Workers, Request(w) \/ Step(w) \/ Fail(w)
      PROVE  StoredInv'
  <2>1. CASE PutRead(w)  BY <2>1, PutReadKeepsStored
  <2>2. CASE PutUpsert(w)  BY <2>2, OthersQuiet, PutUpsertKeepsStored
  <2>3. CASE SetHookCheck(w) \/ HookUpdate(w) \/ HookInsert(w) \/ HookDelete(w)
    BY <2>3, HookKeepsStored
  <2>4. CASE Create(w)  BY <2>4, OthersQuiet, CreateKeepsStored
  <2>5. CASE CreateDefaults(w)  BY <2>5, CreateDefaultsKeepsStored
  <2>6. CASE DeleteRow(w)  BY <2>6, DeleteRowKeepsStored
  <2>7. CASE \/ Request(w) \/ PutNotify(w) \/ Connect(w) \/ ConnectEvict(w)
             \/ Restart(w) \/ RestartLookup(w) \/ ConnectRead(w)
             \/ ConnectReadFails(w) \/ ConnectPut(w) \/ Stop(w) \/ Delete(w) \/ Fail(w)
    BY <2>7, OthersQuiet
  <2> QED BY <1>1, <2>1, <2>2, <2>3, <2>4, <2>5, <2>6, <2>7 DEF Step
<1>2. CASE UNCHANGED vars
  <2>1. UNCHANGED <<row, made, stored, hook, askedSettings, askedHook, excusedSettings,
                    excusedHook, req>>
    BY <1>2 DEF vars, tableVars, historyVars
  <2> QED BY <2>1, QuietKeeps
<1> QED BY <1>1, <1>2 DEF Next

LEMMA InitStored == Init => StoredInv
<1> SUFFICES ASSUME Init PROVE StoredInv
  OBVIOUS
<1>1. \A w \in Workers : req[w].pc \in {"idle", "connectRead"}
  BY DEF Init, Idle
<1>2. \A r \in RowIds : r > made => Unmade(r)
  BY ConfigAssumption DEF Init, Unmade, RowIds
<1> QED BY <1>1, <1>2 DEF Init, StoredInv, NoLostChange, HookIsLast, ReadsHold, Holds, At

LEMMA StoredAlways == Spec => []StoredInv
<1>1. TypeOK /\ RowsMade /\ StoredInv /\ [Next]_vars => StoredInv'
  BY NextKeepsStored
<1> QED BY <1>1, InitStored, TypeCorrect, PTL DEF Spec

\* The settings a row holds are all that was ever asked of them, but for changes
\* that two requests made at once.
THEOREM ChangesKept == Spec => []NoLostChange
<1>1. StoredInv => NoLostChange  BY DEF StoredInv
<1> QED BY <1>1, StoredAlways, PTL

\* A row's webhook is what the last request that came to its write asked for,
\* but for a check that another request made untrue.
THEOREM WebhookKept == Spec => []HookIsLast
<1>1. StoredInv => HookIsLast  BY DEF StoredInv
<1> QED BY <1>1, StoredAlways, PTL

-----------------------------------------------------------------------------
(* The running instance's settings are the stored ones.                        *)
(*                                                                             *)
(* RuntimeFresh says nothing while a request is to notify the instance or a    *)
(* connect is to register it.  The strengthening says what these carry.        *)

Here(w, pc) == At(w, pc) /\ row # None /\ req[w].inst = row

\* What runs has been made, so no row to come is its own.
RunningRow == running # None => running.row \in 1..made

\* The one request that is to notify brings what it has stored.
OneNotifies ==
  \A w \in Workers : Here(w, "putNotify") =>
    /\ req[w].settings = stored[row]
    /\ \A v \in Workers : Here(v, "putNotify") => v = w

\* With none of them, every copy of the row's settings is true: the running
\* instance's and the one that a connect is to register.
CopiesTrue ==
  (\A w \in Workers : ~Here(w, "putNotify")) =>
    /\ running # None /\ row # None /\ running.row = row => running.settings = stored[row]
    /\ \A w \in Workers : Here(w, "connectPut") => req[w].settings = stored[row]

RunInv == RunningRow /\ (~excusedRun => OneNotifies /\ CopiesTrue)

\* A step that changes no copy of the settings, or excuses them all.
LEMMA RunQuiet ==
  ASSUME RunInv, row' = row, made' = made, running' \in {running, None},
         excusedRun => excusedRun',
         ~excusedRun' /\ row # None => stored'[row] = stored[row],
         \A v \in Workers : \/ req'[v] = req[v]
                            \/ /\ req[v].pc # "putNotify"
                               /\ req'[v].pc \notin {"putNotify", "connectPut"}
  PROVE  RunInv'
<1>1. RunningRow'
  BY DEF RunInv, RunningRow
<1>2. ASSUME ~excusedRun'
      PROVE  OneNotifies' /\ CopiesTrue'
  <2>1. OneNotifies /\ CopiesTrue
    BY <1>2 DEF RunInv
  <2>2. \A v \in Workers : /\ Here(v, "putNotify")' <=> Here(v, "putNotify")
                           /\ Here(v, "connectPut")' => Here(v, "connectPut")
    BY DEF Here, At
  <2>3. \A v \in Workers : Here(v, "putNotify")' \/ Here(v, "connectPut")' => req'[v] = req[v]
    BY DEF Here, At
  <2>4. OneNotifies'
    BY <1>2, <2>1, <2>2, <2>3 DEF OneNotifies, Here
  <2>5. CopiesTrue'
    BY <1>2, <2>1, <2>2, <2>3 DEF CopiesTrue, Here
  <2> QED BY <2>4, <2>5
<1> QED BY <1>1, <1>2 DEF RunInv

\* The requests after a step of w that takes it neither to nor from the places
\* of RunInv.
LEMMA OthersStay ==
  ASSUME TypeOK, NEW w \in Workers, NEW e,
         e.pc \notin {"putNotify", "connectPut"}, req[w].pc # "putNotify",
         req' = [req EXCEPT ![w] = e]
  PROVE  \A v \in Workers : \/ req'[v] = req[v]
                            \/ /\ req[v].pc # "putNotify"
                               /\ req'[v].pc \notin {"putNotify", "connectPut"}
BY DEF TypeOK

LEMMA RunOthers ==
  ASSUME TypeOK, RowsMade, RunInv, NEW w \in Workers,
         \/ Request(w) \/ PutRead(w) \/ (PutUpsert(w) /\ row # req[w].inst)
         \/ SetHookCheck(w) \/ HookUpdate(w) \/ HookInsert(w) \/ HookDelete(w)
         \/ (Create(w) /\ row # None) \/ CreateDefaults(w)
         \/ Connect(w) \/ ConnectEvict(w) \/ Restart(w) \/ RestartLookup(w)
         \/ Stop(w) \/ Delete(w) \/ Fail(w)
  PROVE  RunInv'
<1>1. row' = row /\ made' = made
  BY DEF Request, Arrive, PutRead, PutUpsert, SetHookCheck, HookUpdate, HookInsert, HookDelete,
         Create, CreateDefaults, Connect, ConnectEvict, Restart,
                RestartLookup, Lookup, Evict, Stop, Delete, Fail, Stays, tableVars
<1>2. running' \in {running, None}
  BY DEF Request, Arrive, PutRead, PutUpsert, SetHookCheck, HookUpdate, HookInsert, HookDelete,
         Create, CreateDefaults, Connect, ConnectEvict, Restart,
                RestartLookup, Lookup, Evict, Stop, Delete, Fail, Stays, tableVars
<1>3. CASE CreateDefaults(w)
  <2>1. /\ excusedRun => excusedRun'
        /\ ~excusedRun' => stored[req[w].inst] = Default
    BY <1>3 DEF CreateDefaults
  <2>2. row # None => row \in RowIds
    BY DEF TypeOK
  <2>3. ~excusedRun' /\ row # None => stored'[row] = stored[row]
    BY <1>3, <2>1, <2>2 DEF CreateDefaults, TypeOK
  <2>4. /\ req' = [req EXCEPT ![w] = Idle] /\ req[w].pc # "putNotify"
        /\ Idle.pc \notin {"putNotify", "connectPut"}
    BY <1>3 DEF CreateDefaults, Answer, At, Idle
  <2> QED BY <1>1, <1>2, <2>1, <2>3, <2>4, OthersStay, RunQuiet
<1>4. CASE ~CreateDefaults(w)
  <2>1. stored' = stored
    BY <1>4 DEF Request, Arrive, PutRead, PutUpsert, SetHookCheck, HookUpdate, HookInsert,
                HookDelete, Create, Connect, ConnectEvict, Restart,
                RestartLookup, Lookup, Evict, Stop, Delete, Fail, Stays, tableVars
  <2>2. excusedRun' = excusedRun
    BY <1>4 DEF Request, Arrive, PutRead, PutUpsert, SetHookCheck, HookUpdate, HookInsert,
                HookDelete, Asked, Create, Connect, ConnectEvict, Restart,
                RestartLookup, Lookup, Evict, Stop, Delete, Fail, NoHistory, historyVars
  <2>3. \A v \in Workers \ {w} : req'[v] = req[v]
    BY <1>4 DEF Request, Arrive, PutRead, PutUpsert, SetHookCheck, HookUpdate, HookInsert,
                HookDelete, Create, Connect, ConnectEvict, Restart,
                RestartLookup, Lookup, Evict, Stop, Delete, Fail, Answer, Goto, TypeOK
  <2>4. req[w].pc # "putNotify"
    BY <1>4 DEF Request, Arrive, PutRead, PutUpsert, SetHookCheck, HookUpdate, HookInsert,
                HookDelete, Create, Connect, ConnectEvict, Restart,
                RestartLookup, Lookup, Evict, Stop, Delete, Fail, At
  <2>5. req'[w].pc \notin {"putNotify", "connectPut"}
    <3>1. CASE Request(w)
      <4>1. PICK op \in Writes, r \in 1..made \cup {None}, fields \in SUBSET Fields :
                   Arrive(w, op, r, fields)
        BY <3>1, Zenon DEF Request, Writes
      <4> QED BY <4>1 DEF Arrive, Idle, TypeOK, Writes
    <3>2. CASE ~Request(w)
      BY <1>4, <3>2 DEF PutRead, PutUpsert, SetHookCheck, HookUpdate, HookInsert, HookDelete,
                        Create, Connect, ConnectEvict, Restart,
                RestartLookup, Lookup, Evict, Stop, Delete, Fail, Answer, Goto, Idle, TypeOK
    <3> QED BY <3>1, <3>2
  <2> QED BY <1>1, <1>2, <2>1, <2>2, <2>3, <2>4, <2>5, RunQuiet
<1> QED BY <1>3, <1>4

\* The request that has stored r's settings is now the one that is to notify.
LEMMA RunUpsert ==
  ASSUME TypeOK, RowsMade, RunInv, NEW w \in Workers, PutUpsert(w), row = req[w].inst
  PROVE  RunInv'
<1>1. row \in RowIds
  <2>1. req[w].inst \in 1..made  BY DEF PutUpsert, At, RowsMade
  <2> QED BY <2>1, MadeAreRows
<1>2. /\ UNCHANGED <<row, made, running>>
      /\ stored' = [stored EXCEPT ![row] = req[w].settings]
  BY DEF PutUpsert
<1>3. /\ req'[w].pc = "putNotify" /\ req'[w].inst = row /\ req'[w].settings = req[w].settings
      /\ \A v \in Workers \ {w} : req'[v] = req[v]
  BY DEF PutUpsert, Goto, TypeOK
<1>4. RunningRow'
  BY <1>2 DEF RunInv, RunningRow
<1>5. ASSUME ~excusedRun'
      PROVE  OneNotifies' /\ CopiesTrue'
  <2>1. ~OtherAt(w, {"putNotify"}, row)
    BY <1>5 DEF PutUpsert
  <2>2. \A v \in Workers : Here(v, "putNotify")' => v = w
    BY <1>2, <1>3, <2>1 DEF Here, At, OtherAt
  <2>3. stored'[row] = req[w].settings /\ Here(w, "putNotify")'
    BY <1>1, <1>2, <1>3, NoneIsNoNumber DEF Here, At, TypeOK
  <2> QED BY <1>2, <1>3, <2>2, <2>3 DEF OneNotifies, CopiesTrue
<1> QED BY <1>4, <1>5 DEF RunInv

\* Notifying gives the running instance what is stored, or is an overlap.
LEMMA RunNotify ==
  ASSUME TypeOK, RowsMade, RunInv, NEW w \in Workers, PutNotify(w)
  PROVE  RunInv'
<1>1. /\ UNCHANGED <<row, made, stored>> /\ At(w, "putNotify")
      /\ running' = IF running = None THEN None ELSE [running EXCEPT !.settings = req[w].settings]
  BY DEF PutNotify, tableVars
<1>2. req'[w].pc = "idle" /\ \A v \in Workers \ {w} : req'[v] = req[v]
  BY DEF PutNotify, Answer, Idle, TypeOK
<1>3. /\ running = None => running' = None
      /\ running # None /\ running' # None => /\ running'.row = running.row
                                              /\ running'.settings = req[w].settings
  BY <1>1 DEF TypeOK
<1>4. RunningRow'
  BY <1>1, <1>3 DEF RunInv, RunningRow
<1>5. ASSUME ~excusedRun'
      PROVE  OneNotifies' /\ CopiesTrue'
  <2>1. /\ ~excusedRun
        /\ running # None => running.row = req[w].inst
        /\ \A v \in Workers : At(v, "connectPut") => req[v].settings = req[w].settings
    BY <1>5 DEF PutNotify
  <2>2. OneNotifies /\ CopiesTrue
    BY <2>1 DEF RunInv
  <2>3. \A v \in Workers : /\ Here(v, "putNotify")' <=> v # w /\ Here(v, "putNotify")
                           /\ Here(v, "connectPut")' <=> Here(v, "connectPut")
    BY <1>1, <1>2 DEF Here, At
  <2>4. OneNotifies'
    BY <1>1, <1>2, <2>2, <2>3 DEF OneNotifies
  <2>5. CASE Here(w, "putNotify")
    <3>1. req[w].settings = stored[row]
      BY <2>2, <2>5 DEF OneNotifies
    <3>2. \A v \in Workers : Here(v, "connectPut")' => req'[v].settings = stored[row]
      BY <1>2, <2>1, <2>3, <3>1 DEF Here, At
    <3> QED BY <1>1, <1>3, <2>4, <3>1, <3>2 DEF CopiesTrue
  <2>6. CASE ~Here(w, "putNotify")
    <3>1. row # None => req[w].inst # row
      BY <1>1, <2>6 DEF Here
    <3>2. \A v \in Workers : Here(v, "connectPut")' => req'[v] = req[v]
      BY <1>2 DEF Here, At
    <3>3. running' # None /\ row # None => running'.row # row
      BY <1>3, <2>1, <3>1
    <3> QED BY <1>1, <2>2, <2>3, <2>4, <2>6, <3>2, <3>3 DEF CopiesTrue
  <2> QED BY <2>5, <2>6
<1> QED BY <1>4, <1>5 DEF RunInv

\* A connect reads the stored settings, and registers what it has read.
LEMMA RunConnect ==
  ASSUME TypeOK, RowsMade, RunInv, NEW w \in Workers,
         ConnectRead(w) \/ ConnectReadFails(w) \/ ConnectPut(w)
  PROVE  RunInv'
<1>1. UNCHANGED <<row, made, stored>> /\ \A v \in Workers \ {w} : req'[v] = req[v]
  BY DEF ConnectRead, ConnectReadFails, ConnectPut, Answer, Stays, tableVars, TypeOK
<1>2. req[w].pc # "putNotify" /\ req'[w].pc # "putNotify"
  BY DEF ConnectRead, ConnectReadFails, ConnectPut, Answer, At, Idle, TypeOK
<1>3. req[w].inst \in 1..made
  BY DEF ConnectRead, ConnectReadFails, ConnectPut, At, RowsMade
<1>4. \A v \in Workers : Here(v, "putNotify")' <=> Here(v, "putNotify")
  BY <1>1, <1>2 DEF Here, At
<1>5. ASSUME OneNotifies PROVE OneNotifies'
  BY <1>1, <1>2, <1>4, <1>5 DEF OneNotifies, Here, At
<1>6. CASE ConnectRead(w)
  <2>1. /\ UNCHANGED <<running, excusedRun>> /\ req'[w].inst = req[w].inst
        /\ req'[w].settings = stored[req[w].inst]
    BY <1>6 DEF ConnectRead, Stays, NoHistory, historyVars, TypeOK
  <2>2. ASSUME CopiesTrue PROVE CopiesTrue'
    BY <1>1, <1>4, <2>1, <2>2 DEF CopiesTrue, Here, At
  <2> QED BY <1>1, <1>5, <2>1, <2>2 DEF RunInv, RunningRow
<1>7. CASE ConnectReadFails(w)
  BY <1>1, <1>7 DEF ConnectReadFails, Stays, RunInv, RunningRow
<1>8. CASE ConnectPut(w)
  <2>1. /\ running' = [row |-> req[w].inst, settings |-> req[w].settings]
        /\ At(w, "connectPut") /\ req'[w].pc = "idle" /\ excusedRun' = excusedRun
    BY <1>8 DEF ConnectPut, Answer, Idle, NoHistory, historyVars, TypeOK
  <2>2. ASSUME CopiesTrue PROVE CopiesTrue'
    <3>1. (\A v \in Workers : ~Here(v, "putNotify")) /\ row # None /\ req[w].inst = row
            => req[w].settings = stored[row]
      BY <2>1, <2>2 DEF CopiesTrue, Here
    <3>2. \A v \in Workers : Here(v, "connectPut")' => Here(v, "connectPut") /\ req'[v] = req[v]
      BY <1>1, <2>1 DEF Here, At
    <3> QED BY <1>1, <1>4, <2>1, <2>2, <3>1, <3>2 DEF CopiesTrue
  <2>3. RunningRow'
    BY <1>1, <1>3, <2>1 DEF RunningRow
  <2> QED BY <1>5, <2>1, <2>2, <2>3 DEF RunInv
<1> QED BY <1>6, <1>7, <1>8

\* A row that comes is nobody's yet, one that goes is nobody's any more.
LEMMA RunRows ==
  ASSUME TypeOK, RowsMade, RunInv, NEW w \in Workers, (Create(w) /\ row = None) \/ DeleteRow(w)
  PROVE  RunInv'
<1>1. running' = running /\ made \in Nat
  BY DEF Create, DeleteRow, TypeOK
<1>2. CASE Create(w) /\ row = None
  <2>1. /\ row' = made + 1 /\ made' = made + 1
        /\ \A v \in Workers \ {w} : req'[v] = req[v]
        /\ req'[w].pc = "defaults"
    BY <1>2 DEF Create, TypeOK
  <2>2. made + 1 \notin 1..made /\ 1..made \subseteq 1..made'
    BY <1>1, <2>1
  <2>3. \A v \in Workers : ~Here(v, "putNotify")' /\ ~Here(v, "connectPut")'
    BY <2>1, <2>2 DEF Here, At, RowsMade
  <2> QED BY <1>1, <2>1, <2>2, <2>3 DEF RunInv, RunningRow, OneNotifies, CopiesTrue
<1>3. CASE DeleteRow(w)
  <2>1. row' = None /\ made' = made
    BY <1>3 DEF DeleteRow, tableVars
  <2> QED BY <1>1, <2>1 DEF RunInv, RunningRow, OneNotifies, CopiesTrue, Here
<1> QED BY <1>2, <1>3

LEMMA RunAlways == Spec => []RunInv
<1>1. Init => RunInv
  BY DEF Init, Idle, RunInv, RunningRow, OneNotifies, CopiesTrue, Here, At
<1>2. ASSUME TypeOK, RowsMade, RunInv, [Next]_vars
      PROVE  RunInv'
  <2>1. ASSUME NEW w \in Workers, Request(w) \/ Step(w) \/ Fail(w)
        PROVE  RunInv'
    BY <1>2, <2>1, RunOthers, RunUpsert, RunNotify, RunConnect, RunRows DEF Step
  <2>2. CASE UNCHANGED vars
    BY <1>2, <2>2 DEF vars, tableVars, historyVars, RunInv, RunningRow, OneNotifies, CopiesTrue,
                      Here, At
  <2> QED BY <1>2, <2>1, <2>2 DEF Next
<1> QED BY <1>1, <1>2, TypeCorrect, PTL DEF Spec

\* The running instance's copy of the settings is what is stored, whatever is
\* deleted, created and connected meanwhile: the request that stores and then
\* notifies is the only one to bring a copy, or one of the overlaps is recorded.
THEOREM CopyIsFresh == Spec => []RuntimeFresh
<1>1. TypeOK /\ RowsMade /\ RunInv => RuntimeFresh
  <2> SUFFICES ASSUME TypeOK, RowsMade, RunInv, running # None, running.row = row, ~excusedRun,
                      \A w \in Workers : ~At(w, "putNotify")
               PROVE  running.settings = stored[row]
    BY DEF RuntimeFresh
  <2>1. row # None
    BY NoneIsNoNumber, MadeAreRows DEF RunInv, RunningRow
  <2> QED BY <2>1 DEF RunInv, CopiesTrue, Here
<1> QED BY <1>1, RunAlways, TypeCorrect, PTL

=============================================================================
