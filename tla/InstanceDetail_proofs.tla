------------------------ MODULE InstanceDetail_proofs ------------------------
(***************************************************************************)
(* Theorems about InstanceDetail, for any number of instances, of requests *)
(* in flight, of clicks and of faults.                                     *)
(***************************************************************************)
EXTENDS InstanceDetail, TLAPS

-----------------------------------------------------------------------------
(* What the steps do to the requests *)

CallType ==
  [kind : Kinds \cup {"none"}, name : Names \cup {None}, live : BOOLEAN,
   of : Names \cup {None}, id : MaybeId, hook : MaybeId,
   read : SUBSET Parts, answer : {None, "ok", "error"}]

\* Two records of a request that differ in nothing but whether the component that
\* sent it is still there, and in the answer.
SameRequest(x, y) ==
  /\ x.kind = y.kind /\ x.name = y.name /\ x.of = y.of /\ x.id = y.id
  /\ x.hook = y.hook /\ x.read = y.read

\* The five ways a step changes the requests, field by field.
Sends(c, k, n, f, i) ==
  /\ call'[c].kind = k /\ call'[c].name = n /\ call'[c].live = TRUE /\ call'[c].of = f
  /\ call'[c].id = i /\ call'[c].hook = None /\ call'[c].read = {} /\ call'[c].answer = None
  /\ \A d \in Calls \ {c} : call'[d] = call[d]

Returns(c) ==
  /\ call'[c].kind = "none" /\ call'[c].live = FALSE
  /\ \A d \in Calls \ {c} : call'[d] = call[d]

Replies(c, a) ==
  /\ SameRequest(call'[c], call[c]) /\ call'[c].live = call[c].live /\ call'[c].answer = a
  /\ \A d \in Calls \ {c} : call'[d] = call[d]

Reads(c, part) ==
  /\ call'[c].kind = "load" /\ call'[c].name = call[c].name /\ call'[c].live = call[c].live
  /\ call'[c].read = call[c].read \cup {part}
  /\ call'[c].id = IF part = "settings" THEN settingsRow[call[c].name] ELSE call[c].id
  /\ call'[c].hook = IF part = "webhook" /\ hookRow[call[c].name].on
                     THEN hookRow[call[c].name].id ELSE call[c].hook
  /\ call'[c].answer # None => call'[c].read = Parts
  /\ \A d \in Calls \ {c} : call'[d] = call[d]

Leaves ==
  \A d \in Calls : /\ SameRequest(call'[d], call[d]) /\ call'[d].live = FALSE
                   /\ call'[d].answer = call[d].answer

LEMMA SentCall ==
  ASSUME TypeOK, NEW c \in Calls, NEW k, NEW n, NEW f, NEW i,
         call' = [call EXCEPT ![c] = Request(k, n, f, i)]
  PROVE  Sends(c, k, n, f, i)
BY DEF Sends, Request, TypeOK

LEMMA ReturnedCall ==
  ASSUME TypeOK, NEW c \in Calls, Return(c)
  PROVE  Returns(c)
BY DEF Return, Returns, NoCall, TypeOK

LEMMA RepliedCall ==
  ASSUME TypeOK, NEW c \in Calls, NEW a, call' = [call EXCEPT ![c].answer = a]
  PROVE  Replies(c, a)
<1>1. call[c] \in CallType
  BY DEF TypeOK, CallType
<1>2. call'[c] = [call[c] EXCEPT !.answer = a] /\ \A d \in Calls \ {c} : call'[d] = call[d]
  BY DEF TypeOK
<1>3. QED
  BY <1>1, <1>2 DEF Replies, SameRequest, CallType

LEMMA LeftCalls ==
  ASSUME TypeOK, Leave
  PROVE  Leaves
<1>1. ASSUME NEW d \in Calls PROVE call[d] \in CallType
  BY DEF TypeOK, CallType
<1>2. ASSUME NEW d \in Calls
      PROVE  call'[d] = IF Free(d) THEN NoCall ELSE [call[d] EXCEPT !.live = FALSE]
  BY DEF Leave
<1>3. NoCall.live = FALSE
  BY DEF NoCall
<1>4. QED
  BY <1>1, <1>2, <1>3 DEF Leaves, SameRequest, Free, CallType

-----------------------------------------------------------------------------
(* Types *)

CallShape ==
  \A c \in Calls :
    /\ call[c].kind # "none" => call[c].name \in Names
    /\ call[c].kind \in {"saveSettings", "deleteWebhook"} => call[c].id \in Ids

TypeInv == TypeOK /\ CallShape

LEMMA Counts ==
  ASSUME TypeOK
  PROVE  /\ MaxClicks \in Nat /\ MaxFaults \in Nat
         /\ clicks \in 0..MaxClicks /\ faults \in 0..MaxFaults
         /\ NewId \in Nat /\ MaxWrites \in Nat
<1>1. clicks \in 0..MaxClicks /\ faults \in 0..MaxFaults
  BY DEF TypeOK
<1>2. QED
  BY <1>1, DetailAssumption DEF NewId, MaxWrites

LEMMA NewIdIsId ==
  ASSUME TypeOK, Click \/ faults < MaxFaults
  PROVE  NewId \in Ids
BY Counts DEF Click, NewId, Ids, MaxWrites

LEMMA ClickCounts ==
  ASSUME TypeOK, Click \/ UNCHANGED clicks
  PROVE  clicks' \in 0..MaxClicks
BY Counts DEF Click

LEMMA FaultCounts ==
  ASSUME TypeOK, (faults < MaxFaults /\ faults' = faults + 1) \/ UNCHANGED faults
  PROVE  faults' \in 0..MaxFaults
BY Counts

LEMMA NoCallIsCall == NoCall \in CallType
BY DEF NoCall, CallType, MaybeId

LEMMA OneCall ==
  ASSUME TypeInv, NEW c \in Calls, NEW e \in CallType, call' = [call EXCEPT ![c] = e],
         e.kind # "none" => e.name \in Names,
         e.kind \in {"saveSettings", "deleteWebhook"} => e.id \in Ids
  PROVE  call' \in [Calls -> CallType] /\ CallShape'
<1>1. call \in [Calls -> CallType]
  BY DEF TypeInv, TypeOK, CallType
<1>2. QED
  BY <1>1 DEF TypeInv, CallShape

LEMMA SentTypes ==
  ASSUME TypeInv, NEW c \in Calls, NEW k \in Kinds, NEW n \in Names, NEW f \in Names \cup {None},
         NEW i \in MaybeId, k \in {"saveSettings", "deleteWebhook"} => i \in Ids,
         call' = [call EXCEPT ![c] = Request(k, n, f, i)]
  PROVE  call' \in [Calls -> CallType] /\ CallShape'
<1>1. /\ Request(k, n, f, i) \in CallType
      /\ Request(k, n, f, i).kind = k /\ Request(k, n, f, i).name = n
      /\ Request(k, n, f, i).id = i
  BY DEF Request, CallType, MaybeId
<1>2. QED
  BY <1>1, OneCall

LEMMA ReturnedTypes ==
  ASSUME TypeInv, NEW c \in Calls, Return(c)
  PROVE  call' \in [Calls -> CallType] /\ CallShape'
<1>1. NoCall.kind = "none"
  BY DEF NoCall
<1>2. QED
  BY <1>1, NoCallIsCall, OneCall DEF Return

LEMMA FieldsSet ==
  ASSUME NEW e \in CallType
  PROVE  /\ \A a \in {None, "ok", "error"} :
              /\ [e EXCEPT !.answer = a] \in CallType /\ [e EXCEPT !.answer = a].answer = a
              /\ SameRequest([e EXCEPT !.answer = a], e) /\ [e EXCEPT !.answer = a].live = e.live
         /\ \A l \in BOOLEAN :
              /\ [e EXCEPT !.live = l] \in CallType /\ [e EXCEPT !.live = l].live = l
              /\ SameRequest([e EXCEPT !.live = l], e) /\ [e EXCEPT !.live = l].answer = e.answer
<1>1. ASSUME NEW a \in {None, "ok", "error"}
      PROVE  /\ [e EXCEPT !.answer = a] \in CallType /\ [e EXCEPT !.answer = a].answer = a
             /\ SameRequest([e EXCEPT !.answer = a], e) /\ [e EXCEPT !.answer = a].live = e.live
  BY <1>1 DEF CallType, SameRequest
<1>2. ASSUME NEW l \in BOOLEAN
      PROVE  /\ [e EXCEPT !.live = l] \in CallType /\ [e EXCEPT !.live = l].live = l
             /\ SameRequest([e EXCEPT !.live = l], e) /\ [e EXCEPT !.live = l].answer = e.answer
  BY <1>2 DEF CallType, SameRequest
<1>3. QED
  BY <1>1, <1>2

LEMMA RepliedTypes ==
  ASSUME TypeInv, NEW c \in Calls, NEW a \in {"ok", "error"},
         call' = [call EXCEPT ![c].answer = a]
  PROVE  call' \in [Calls -> CallType] /\ CallShape'
<1> DEFINE e == [call[c] EXCEPT !.answer = a]
<1>1. call[c] \in CallType
  BY DEF TypeInv, TypeOK, CallType
<1>2. e \in CallType /\ SameRequest(e, call[c])
  BY <1>1, FieldsSet
<1>3. call' = [call EXCEPT ![c] = e]
  OBVIOUS
<1>4. /\ e.kind # "none" => e.name \in Names
      /\ e.kind \in {"saveSettings", "deleteWebhook"} => e.id \in Ids
  BY <1>2 DEF TypeInv, CallShape, SameRequest
<1> HIDE DEF e
<1>5. QED
  BY <1>2, <1>3, <1>4, OneCall

LEMMA ReadCall ==
  ASSUME TypeInv, NEW c \in Calls, NEW part \in Parts, ServeRead(c, part)
  PROVE  Reads(c, part) /\ call' \in [Calls -> CallType] /\ CallShape'
<1> DEFINE x == call[c]
           all == x.read \cup {part}
           i == IF part = "settings" THEN settingsRow[x.name] ELSE x.id
           h == IF part = "webhook" /\ hookRow[x.name].on THEN hookRow[x.name].id ELSE x.hook
           a == IF all = Parts THEN "ok" ELSE None
           x1 == [x EXCEPT !.read = all]
           x2 == [x1 EXCEPT !.id = i]
           x3 == [x2 EXCEPT !.hook = h]
           x4 == [x3 EXCEPT !.answer = a]
<1>1. call \in [Calls -> CallType] /\ x \in CallType
  BY DEF TypeInv, TypeOK, CallType
<1>2. x.kind = "load" /\ x.name \in Names
  BY DEF TypeInv, CallShape, ServeRead
<1>3. settingsRow[x.name] \in MaybeId /\ hookRow[x.name].id \in MaybeId
  BY <1>2 DEF TypeInv, TypeOK, MaybeId
<1>4. i \in MaybeId /\ h \in MaybeId /\ all \in SUBSET Parts /\ a \in {None, "ok", "error"}
  BY <1>1, <1>3 DEF CallType
<1>5. call' = [call EXCEPT ![c] = x4]
  BY <1>1 DEF ServeRead
<1> HIDE DEF i, h, all, a
<1>6. /\ x1 \in CallType /\ x1.kind = x.kind /\ x1.name = x.name /\ x1.live = x.live
      /\ x1.read = all
  BY <1>1, <1>4 DEF CallType
<1> HIDE DEF x1
<1>7. /\ x2 \in CallType /\ x2.kind = x1.kind /\ x2.name = x1.name /\ x2.live = x1.live
      /\ x2.read = x1.read /\ x2.id = i
  BY <1>4, <1>6 DEF CallType
<1> HIDE DEF x2
<1>8. /\ x3 \in CallType /\ x3.kind = x2.kind /\ x3.name = x2.name /\ x3.live = x2.live
      /\ x3.read = x2.read /\ x3.id = x2.id /\ x3.hook = h
  BY <1>4, <1>7 DEF CallType
<1> HIDE DEF x3
<1>9. /\ x4 \in CallType /\ x4.kind = x3.kind /\ x4.name = x3.name /\ x4.live = x3.live
      /\ x4.read = x3.read /\ x4.id = x3.id /\ x4.hook = x3.hook /\ x4.answer = a
  BY <1>4, <1>8 DEF CallType
<1> HIDE DEF x4
<1>10. Reads(c, part)
  <2>1. call'[c] = x4 /\ \A d \in Calls \ {c} : call'[d] = call[d]
    BY <1>1, <1>5
  <2>2. x4.answer # None => all = Parts
    BY <1>9 DEF a
  <2>3. QED
    BY <2>1, <2>2, <1>2, <1>6, <1>7, <1>8, <1>9 DEF Reads, i, h, all
<1>11. QED
  BY <1>2, <1>5, <1>6, <1>7, <1>8, <1>9, <1>10, OneCall

LEMMA LeftTypes ==
  ASSUME TypeInv, Leave
  PROVE  call' \in [Calls -> CallType] /\ CallShape'
<1>1. ASSUME NEW d \in Calls
      PROVE  /\ call'[d] \in CallType
             /\ SameRequest(call'[d], call[d])
  <2>1. call[d] \in CallType
    BY DEF TypeInv, TypeOK, CallType
  <2>2. call'[d] = IF Free(d) THEN NoCall ELSE [call[d] EXCEPT !.live = FALSE]
    BY DEF Leave
  <2>3. [call[d] EXCEPT !.live = FALSE] \in CallType
    BY <2>1 DEF CallType
  <2>4. QED
    BY <2>2, <2>3, NoCallIsCall, LeftCalls DEF TypeInv, Leaves
<1>2. call' \in [Calls -> CallType]
  BY <1>1 DEF Leave
<1>3. QED
  BY <1>1, <1>2 DEF TypeInv, CallShape, SameRequest

LEMMA FormIsForm ==
  /\ \A n \in Names \cup {None}, i \in MaybeId : Form(n, i) \in Forms
  /\ \A f \in Forms, b \in BOOLEAN : [f EXCEPT !.edited = b] \in Forms
  /\ \A f \in Forms, n \in Names \cup {None}, b \in BOOLEAN :
       [f EXCEPT !.edited = b, !.of = n] \in Forms
  /\ \A f \in Forms, i \in MaybeId, b \in BOOLEAN :
       [f EXCEPT !.id = i, !.edited = b] \in Forms
BY DEF Form, Forms, MaybeId

LEMMA HookFormIsForm ==
  /\ Blank \in HookForms
  /\ \A n \in Names \cup {None}, i \in MaybeId : HookForm(n, i) \in HookForms
  /\ \A i \in MaybeId : [Blank EXCEPT !.box = i] \in HookForms
  /\ \A f \in HookForms, n \in Names \cup {None}, u \in BOOLEAN :
       [f EXCEPT !.edited = TRUE, !.url = u, !.of = n] \in HookForms
  /\ \A f \in HookForms, i \in MaybeId :
       [f EXCEPT !.id = i, !.box = i, !.edited = FALSE] \in HookForms
<1>1. Blank \in HookForms
  BY DEF Blank, HookForm, HookForms, MaybeId
<1>2. QED
  BY <1>1 DEF HookForm, HookForms, MaybeId

LEMMA ExcuseIsNames ==
  ASSUME TypeOK, NEW n \in Names, NEW cond, Excuse(n, cond)
  PROVE  excused' \in SUBSET Names
BY DEF TypeOK, Excuse

\* All of TypeOK but the requests.
PageTypes ==
  /\ settingsRow \in [Names -> Ids]
  /\ hookRow \in [Names -> [id : Ids, on : BOOLEAN]]
  /\ at \in Names \cup {None}
  /\ settings \in Forms \cup {None} /\ hookForm \in HookForms /\ webhook \in BOOLEAN
  /\ saving \in BOOLEAN /\ msg \in {"empty", "ok", "error"} /\ timers \in Nat
  /\ mixed \in BOOLEAN /\ early \in BOOLEAN /\ excused \in SUBSET Names

LEMMA TypeParts ==
  TypeOK <=> /\ PageTypes
             /\ call \in [Calls -> CallType]
             /\ clicks \in 0..MaxClicks /\ faults \in 0..MaxFaults
BY DEF TypeOK, PageTypes, CallType

LEMMA TypePartsNext ==
  /\ PageTypes'
  /\ call' \in [Calls -> CallType] /\ CallShape'
  /\ clicks' \in 0..MaxClicks /\ faults' \in 0..MaxFaults
  => TypeInv'
BY DEF TypeInv, TypeOK, PageTypes, CallType, Kinds, Writes, Parts, MaybeId, Ids, Forms, HookForms, MaxWrites

LEMMA HookStored ==
  ASSUME hookRow \in [Names -> [id : Ids, on : BOOLEAN]], NEW n, NEW i \in Ids,
         NEW on \in BOOLEAN, hookRow' = [hookRow EXCEPT ![n] = [id |-> i, on |-> on]]
  PROVE  hookRow' \in [Names -> [id : Ids, on : BOOLEAN]]
OBVIOUS

LEMMA NoticeTypes ==
  ASSUME msg \in {"empty", "ok", "error"}, timers \in Nat, NEW m \in {"ok", "error"}, Notice(m)
  PROVE  msg' \in {"empty", "ok", "error"} /\ timers' \in Nat
<1>1. msg' \in {"empty", "ok", "error"}
  BY DEF Notice
<1>2. CASE m = "ok"
  <2>1. timers' = timers + 1
    BY <1>2 DEF Notice
  <2>2. QED
    BY <1>1, <2>1
<1>3. CASE m # "ok"
  BY <1>1, <1>3 DEF Notice
<1>4. QED
  BY <1>2, <1>3

\* A click of the user that sends a request.
LEMMA TypeUser ==
  ASSUME TypeInv, NEW c \in Calls, User(c)
  PROVE  TypeInv'
<1> USE DEF rowVars, formVars, msgVars, pageVars, boundVars, historyVars
<1>1. /\ clicks' \in 0..MaxClicks /\ faults' \in 0..MaxFaults
      /\ NewId \in Ids /\ NewId \in MaybeId /\ Click
      /\ PageTypes
  <2>1. Click /\ UNCHANGED faults
    BY DEF User, Open, Move, SaveSettings, SaveWebhook, DeleteWebhook
  <2>2. QED
    BY <2>1, ClickCounts, FaultCounts, NewIdIsId, TypeParts DEF TypeInv, MaybeId
<1>2. ASSUME NEW n \in Names, Open(c, n) \/ Move(c, n)
      PROVE  TypeInv'
  <2>1. call' \in [Calls -> CallType] /\ CallShape'
    BY <1>2, SentTypes DEF Open, Move, Kinds, Writes, MaybeId
  <2>2. excused' \in SUBSET Names
    BY <1>2, ExcuseIsNames DEF Open, Move, TypeInv
  <2>3. CASE Open(c, n)
    <3>1. PageTypes'
      BY <1>1, <2>2, <2>3, HookFormIsForm DEF Open, PageTypes
    <3>2. QED
      BY <1>1, <2>1, <3>1, TypePartsNext
  <2>4. CASE Move(c, n)
    <3>1. PageTypes'
      BY <1>1, <2>2, <2>4 DEF Move, PageTypes
    <3>2. QED
      BY <1>1, <2>1, <3>1, TypePartsNext
  <2>5. QED
    BY <1>2, <2>3, <2>4
<1>3. CASE SaveSettings(c)
  <2>1. settings \in Forms /\ settings.of \in Names \cup {None} /\ at \in Names
    BY <1>1, <1>3 DEF SaveSettings, PageTypes, Forms
  <2>2. call' \in [Calls -> CallType] /\ CallShape'
    BY <1>1, <1>3, <2>1, SentTypes DEF SaveSettings, Send, Kinds, Writes
  <2>3. PageTypes'
    BY <1>1, <1>3, <2>1, FormIsForm DEF SaveSettings, PageTypes
  <2>4. QED
    BY <1>1, <2>2, <2>3, TypePartsNext
<1>4. CASE SaveWebhook(c)
  <2>1. hookForm \in HookForms /\ hookForm.of \in Names \cup {None} /\ at \in Names
    BY <1>1, <1>4 DEF SaveWebhook, PageTypes, HookForms
  <2>2. call' \in [Calls -> CallType] /\ CallShape'
    <3>1. \E i \in MaybeId : Send(c, "saveWebhook", hookForm.of, i)
      BY <1>1, <1>4 DEF SaveWebhook, MaybeId
    <3>2. QED
      BY <2>1, <3>1, SentTypes DEF Send, Kinds, Writes
  <2>3. hookForm' \in HookForms
    BY <1>1, <1>4, <2>1, HookFormIsForm DEF SaveWebhook
  <2>4. excused' \in SUBSET Names
    BY <1>4, <2>1, ExcuseIsNames DEF SaveWebhook, TypeInv
  <2>5. PageTypes'
    BY <1>1, <1>4, <2>3, <2>4 DEF SaveWebhook, PageTypes
  <2>6. QED
    BY <1>1, <2>2, <2>5, TypePartsNext
<1>5. CASE DeleteWebhook(c)
  <2>1. at \in Names
    BY <1>1, <1>5 DEF DeleteWebhook, PageTypes
  <2>2. call' \in [Calls -> CallType] /\ CallShape'
    BY <1>1, <1>5, <2>1, SentTypes DEF DeleteWebhook, Send, Kinds, Writes
  <2>3. excused' \in SUBSET Names
    BY <1>5, <2>1, ExcuseIsNames DEF DeleteWebhook, TypeInv
  <2>4. PageTypes'
    BY <1>1, <1>5, <2>3 DEF DeleteWebhook, PageTypes
  <2>5. QED
    BY <1>1, <2>2, <2>4, TypePartsNext
<1>6. QED
  BY <1>2, <1>3, <1>4, <1>5 DEF User

LEMMA TypeServe ==
  ASSUME TypeInv, NEW c \in Calls, Serve(c) \/ Lose(c)
  PROVE  TypeInv'
<1> USE DEF rowVars, pageVars, formVars, msgVars, boundVars, historyVars
<1>1. PageTypes /\ clicks \in 0..MaxClicks /\ faults \in 0..MaxFaults
  BY TypeParts DEF TypeInv
<1>2. CASE ServeWrite(c)
  <2>1. call' \in [Calls -> CallType] /\ CallShape'
    BY <1>2, RepliedTypes DEF ServeWrite
  <2>2. call[c].id \in Ids \/ (call[c].kind = "saveWebhook" /\ call[c].id \in Ids \cup {None})
    BY <1>2 DEF ServeWrite, TypeInv, CallShape, TypeOK, MaybeId, Writes
  <2>3. settingsRow' \in [Names -> Ids]
    BY <1>1, <1>2, <2>2 DEF ServeWrite, PageTypes
  <2>4. hookRow' \in [Names -> [id : Ids, on : BOOLEAN]]
    <3>1. \/ UNCHANGED hookRow
          \/ /\ call[c].id \in Ids
             /\ \E on \in BOOLEAN :
                  hookRow' = [hookRow EXCEPT ![call[c].name] = [id |-> call[c].id, on |-> on]]
      BY <1>2, <2>2 DEF ServeWrite
    <3>2. QED
      BY <1>1, <3>1, HookStored DEF PageTypes
  <2>5. PageTypes'
    BY <1>1, <1>2, <2>3, <2>4 DEF ServeWrite, PageTypes
  <2>6. QED
    BY <1>1, <1>2, <2>1, <2>5, TypePartsNext DEF ServeWrite
<1>3. CASE RefuseBlank(c)
  <2>1. call' \in [Calls -> CallType] /\ CallShape'
    BY <1>3, RepliedTypes DEF RefuseBlank
  <2>2. PageTypes'
    BY <1>1, <1>3 DEF RefuseBlank, PageTypes
  <2>3. QED
    BY <1>1, <1>3, <2>1, <2>2, TypePartsNext DEF RefuseBlank
<1>4. ASSUME NEW part \in Parts, ServeRead(c, part)
      PROVE  TypeInv'
  <2>1. call' \in [Calls -> CallType] /\ CallShape'
    BY <1>4, ReadCall
  <2>2. PageTypes'
    BY <1>1, <1>4 DEF ServeRead, PageTypes
  <2>3. QED
    BY <1>1, <1>4, <2>1, <2>2, TypePartsNext DEF ServeRead
<1>5. CASE Lose(c)
  <2>1. call' \in [Calls -> CallType] /\ CallShape'
    BY <1>5, RepliedTypes DEF Lose
  <2>2. call[c].name \in Names
    BY <1>5 DEF Lose, Writes, TypeInv, CallShape
  <2>3. excused' \in SUBSET Names
    BY <1>5, <2>2, ExcuseIsNames DEF Lose, TypeInv
  <2>4. PageTypes'
    BY <1>1, <1>5, <2>3 DEF Lose, PageTypes
  <2>5. clicks' \in 0..MaxClicks /\ faults' \in 0..MaxFaults
    BY <1>1, <1>5, FaultCounts DEF Lose, TypeInv
  <2>6. QED
    BY <2>1, <2>4, <2>5, TypePartsNext
<1>6. QED
  BY <1>2, <1>3, <1>4, <1>5 DEF Serve

LEMMA TypeResume ==
  ASSUME TypeInv, NEW c \in Calls, Resume(c)
  PROVE  TypeInv'
<1> USE DEF rowVars, pageVars, formVars, msgVars, boundVars, historyVars
<1>1. PageTypes /\ clicks \in 0..MaxClicks /\ faults \in 0..MaxFaults
  BY TypeParts DEF TypeInv
<1>2. call' \in [Calls -> CallType] /\ CallShape' /\ call[c] \in CallType
  BY ReturnedTypes, TypeParts DEF Resume, Loaded, SaveAnswered, DeleteAnswered, Discard, TypeInv
<1>3. clicks' \in 0..MaxClicks /\ faults' \in 0..MaxFaults
  <2>1. (faults < MaxFaults /\ faults' = faults + 1) \/ UNCHANGED faults
    BY DEF Resume, Loaded, SaveAnswered, DeleteAnswered, Discard
  <2>2. UNCHANGED clicks
    BY DEF Resume, Loaded, SaveAnswered, DeleteAnswered, Discard
  <2>3. QED
    BY <1>1, <2>1, <2>2, FaultCounts DEF TypeInv
<1>4. Answered(c, "saveSettings") \/ Answered(c, "saveWebhook") \/ Answered(c, "deleteWebhook")
        => call[c].answer \in {"ok", "error"}
  BY <1>2 DEF Answered, CallType
<1>5. CASE Loaded(c)
  <2>1. settings' \in Forms \cup {None} /\ hookForm' \in HookForms /\ webhook' \in BOOLEAN
    <3>1. call[c].name \in Names \cup {None} /\ call[c].id \in MaybeId /\ call[c].hook \in MaybeId
      BY <1>2 DEF CallType
    <3>2. /\ settings' = settings \/ settings' = Form(call[c].name, call[c].id)
          /\ \/ UNCHANGED <<hookForm, webhook>>
             \/ hookForm' = HookForm(call[c].name, call[c].hook) /\ webhook' = TRUE
      BY <1>5 DEF Loaded
    <3>3. QED
      BY <1>1, <3>1, <3>2, FormIsForm, HookFormIsForm DEF PageTypes
  <2>2. PageTypes'
    BY <1>1, <1>5, <2>1 DEF Loaded, PageTypes
  <2>3. QED
    BY <1>2, <1>3, <2>2, TypePartsNext
<1>6. CASE SaveAnswered(c)
  <2>1. msg' \in {"empty", "ok", "error"} /\ timers' \in Nat
    BY <1>1, <1>4, <1>6, NoticeTypes DEF SaveAnswered, PageTypes
  <2>2. PageTypes'
    BY <1>1, <1>6, <2>1 DEF SaveAnswered, PageTypes
  <2>3. QED
    BY <1>2, <1>3, <2>2, TypePartsNext
<1>7. CASE DeleteAnswered(c)
  <2>1. msg' \in {"empty", "ok", "error"} /\ timers' \in Nat
    BY <1>1, <1>4, <1>7, NoticeTypes DEF DeleteAnswered, PageTypes
  <2>2. hookForm.box \in MaybeId
    BY <1>1 DEF PageTypes, HookForms
  <2>3. PageTypes'
    BY <1>1, <1>7, <2>1, <2>2, HookFormIsForm DEF DeleteAnswered, PageTypes
  <2>4. QED
    BY <1>2, <1>3, <2>3, TypePartsNext
<1>8. CASE Discard(c)
  <2>1. PageTypes'
    BY <1>1, <1>8 DEF Discard, PageTypes
  <2>2. QED
    BY <1>2, <1>3, <2>1, TypePartsNext
<1>9. QED
  BY <1>5, <1>6, <1>7, <1>8 DEF Resume

\* The steps that change no request, and Leave.
LEMMA TypeRest ==
  ASSUME TypeInv,
         \/ Leave \/ EditSettings \/ EditWebhook \/ MsgTimer \/ UNCHANGED vars
         \/ \E n \in Names : Others(n)
  PROVE  TypeInv'
<1> USE DEF rowVars, pageVars, formVars, msgVars, boundVars, historyVars
<1>1. PageTypes /\ clicks \in 0..MaxClicks /\ faults \in 0..MaxFaults
  BY TypeParts DEF TypeInv
<1>2. call' \in [Calls -> CallType] /\ CallShape'
  <2>1. CASE Leave
    BY <2>1, LeftTypes
  <2>2. CASE UNCHANGED call
    BY <2>2, TypeParts DEF TypeInv, CallShape
  <2>3. QED
    BY <2>1, <2>2 DEF EditSettings, EditWebhook, MsgTimer, Others, vars
<1>3. CASE Leave \/ MsgTimer \/ UNCHANGED vars
  <2>1. timers' \in Nat
    <3>1. timers \in Nat
      BY <1>1 DEF PageTypes
    <3>2. UNCHANGED timers \/ (timers > 0 /\ timers' = timers - 1)
      BY <1>3 DEF Leave, MsgTimer, vars
    <3>3. QED
      BY <3>1, <3>2
  <2>2. PageTypes' /\ UNCHANGED <<clicks, faults>>
    BY <1>1, <1>3, <2>1 DEF Leave, MsgTimer, vars, PageTypes
  <2>3. QED
    BY <1>1, <1>2, <2>2, TypePartsNext
<1>4. CASE EditSettings
  <2>1. PageTypes' /\ UNCHANGED <<clicks, faults>>
    BY <1>1, <1>4, FormIsForm DEF EditSettings, PageTypes
  <2>2. QED
    BY <1>1, <1>2, <2>1, TypePartsNext
<1>5. CASE EditWebhook
  <2>1. hookForm' \in HookForms
    <3>1. hookForm.of \in Names \cup {None} /\ at \in Names
      BY <1>1, <1>5 DEF EditWebhook, PageTypes, HookForms
    <3>2. QED
      BY <1>1, <1>5, <3>1 DEF EditWebhook, PageTypes, HookForms
  <2>2. PageTypes' /\ UNCHANGED <<clicks, faults>>
    BY <1>1, <1>5, <2>1 DEF EditWebhook, PageTypes
  <2>3. QED
    BY <1>1, <1>2, <2>2, TypePartsNext
<1>6. ASSUME NEW n \in Names, Others(n)
      PROVE  TypeInv'
  <2>1. NewId \in Ids /\ clicks' \in 0..MaxClicks /\ faults' \in 0..MaxFaults
    BY <1>1, <1>6, NewIdIsId, FaultCounts DEF Others, TypeInv
  <2>2. excused' \in SUBSET Names
    BY <1>6, ExcuseIsNames DEF Others, TypeInv
  <2>3. settingsRow' \in [Names -> Ids]
    BY <1>1, <1>6, <2>1 DEF Others, PageTypes
  <2>4. hookRow' \in [Names -> [id : Ids, on : BOOLEAN]]
    <3>1. \/ UNCHANGED hookRow
          \/ \E on \in BOOLEAN : hookRow' = [hookRow EXCEPT ![n] = [id |-> NewId, on |-> on]]
      BY <1>6 DEF Others
    <3>2. QED
      BY <1>1, <2>1, <3>1, HookStored DEF PageTypes
  <2>5. PageTypes'
    BY <1>1, <1>6, <2>2, <2>3, <2>4 DEF Others, PageTypes
  <2>6. QED
    BY <1>2, <2>1, <2>5, TypePartsNext
<1>7. QED
  BY <1>3, <1>4, <1>5, <1>6

LEMMA TypeInvariant == Spec => []TypeInv
<1>1. ASSUME Init PROVE TypeInv
  <2>1. 0 \in Ids /\ 0 \in 0..MaxClicks /\ 0 \in 0..MaxFaults
    BY DetailAssumption DEF Ids, MaxWrites
  <2>2. call \in [Calls -> CallType] /\ CallShape
    <3>1. NoCall.kind = "none"
      BY DEF NoCall
    <3>2. QED
      BY <1>1, <3>1, NoCallIsCall DEF Init, CallShape
  <2>3. settingsRow \in [Names -> Ids] /\ hookRow \in [Names -> [id : Ids, on : BOOLEAN]]
    <3>1. \A n \in Names : [id |-> 0, on |-> n \in Hooked] \in [id : Ids, on : BOOLEAN]
      BY <2>1
    <3>2. QED
      BY <1>1, <2>1, <3>1 DEF Init
  <2>4. PageTypes
    BY <1>1, <2>3, HookFormIsForm DEF Init, PageTypes
  <2>5. QED
    BY <1>1, <2>1, <2>2, <2>4, TypeParts DEF Init, TypeInv
<1>2. TypeInv /\ [Next]_vars => TypeInv'
  BY TypeUser, TypeServe, TypeResume, TypeRest DEF Next
<1>3. QED
  BY <1>1, <1>2, PTL DEF Spec

\* Every variable keeps its type, whatever is under way: no write without an
\* address reaches a row, and no id is given out past the bound.
THEOREM TypeCorrect == Spec => []TypeOK
BY TypeInvariant, PTL DEF TypeInv

-----------------------------------------------------------------------------
(* A form goes to its own instance *)

\* A request is gone, or still the one it was; its component may be gone.
Kept(d) ==
  \/ call'[d].kind = "none" /\ ~call'[d].live
  \/ /\ call'[d].kind = call[d].kind /\ call'[d].name = call[d].name
     /\ call'[d].live => call[d].live
     /\ call[d].live => call'[d].live \/ at' = None
     /\ call[d].kind \in Writes =>
          /\ call'[d].of = call[d].of /\ call'[d].id = call[d].id
          /\ call'[d].answer = None => call[d].answer = None \/ call[d].name \in excused'

\* Only a click of the user sends a request.
LEMMA KeptCalls ==
  ASSUME TypeInv, [Next]_vars, ~\E c \in Calls : User(c)
  PROVE  \A d \in Calls : Kept(d)
<1>1. ASSUME NEW c \in Calls, Resume(c)
      PROVE  \A d \in Calls : Kept(d)
  <2>1. Returns(c)
    BY <1>1, ReturnedCall DEF Resume, Loaded, SaveAnswered, DeleteAnswered, Discard, TypeInv
  <2>2. QED
    BY <2>1 DEF Returns, Kept
<1>2. ASSUME NEW c \in Calls, Serve(c) \/ Lose(c)
      PROVE  \A d \in Calls : Kept(d)
  <2>1. \/ /\ \E a : Replies(c, a)
           /\ call[c].answer = None \/ call[c].name \in excused'
        \/ \E part \in Parts : Reads(c, part) /\ call[c].kind = "load"
    BY <1>2, RepliedCall, ReadCall
    DEF Serve, ServeWrite, RefuseBlank, ServeRead, Lose, Excuse, TypeInv
  <2>2. QED
    BY <2>1 DEF Replies, Reads, SameRequest, Kept, Writes
<1>3. CASE Leave
  BY <1>3, LeftCalls DEF Leave, Leaves, SameRequest, Kept, TypeInv
<1>4. CASE EditSettings \/ EditWebhook \/ MsgTimer \/ UNCHANGED vars \/ \E n \in Names : Others(n)
  BY <1>4 DEF EditSettings, EditWebhook, MsgTimer, vars, Others, Kept
<1>5. QED
  BY <1>1, <1>2, <1>3, <1>4 DEF Next

\* What each click of the user sends.
LEMMA UserSends ==
  ASSUME TypeInv, NEW c \in Calls
  PROVE  /\ \A n \in Names : Open(c, n) \/ Move(c, n) => Sends(c, "load", n, None, None)
         /\ SaveSettings(c) => Sends(c, "saveSettings", at, settings.of, NewId)
         /\ SaveWebhook(c) =>
              IF hookForm.url THEN Sends(c, "saveWebhook", at, hookForm.of, NewId)
                              ELSE Sends(c, "saveWebhook", at, hookForm.of, None)
         /\ DeleteWebhook(c) => Sends(c, "deleteWebhook", at, at, NewId)
BY SentCall DEF Open, Move, SaveSettings, SaveWebhook, DeleteWebhook, Send, TypeInv

\* What the steps of the server, the answers and the rest leave alone.
LEMMA ServerFrame ==
  ASSUME NEW c \in Calls, Serve(c) \/ Lose(c)
  PROVE  UNCHANGED <<at, settings, hookForm, webhook, saving, clicks, mixed, early>>
<1>1. CASE ServeWrite(c) \/ RefuseBlank(c)
  BY <1>1 DEF ServeWrite, RefuseBlank, pageVars, formVars, boundVars, historyVars
<1>2. CASE (\E part \in Parts : ServeRead(c, part)) \/ Lose(c)
  BY <1>2 DEF ServeRead, Lose, pageVars, formVars, boundVars, historyVars
<1>3. QED
  BY <1>1, <1>2 DEF Serve

LEMMA AnswerFrame ==
  ASSUME NEW c \in Calls, Resume(c)
  PROVE  /\ UNCHANGED <<settingsRow, hookRow, at, clicks, mixed, early, excused>>
         /\ ~Loaded(c) => UNCHANGED <<settings, faults>>
         /\ ~Loaded(c) /\ ~DeleteAnswered(c) => UNCHANGED <<hookForm, webhook>>
<1>1. CASE Loaded(c)
  BY <1>1 DEF Loaded, rowVars, historyVars
<1>2. CASE SaveAnswered(c)
  BY <1>2 DEF SaveAnswered, rowVars, formVars, boundVars, historyVars
<1>3. CASE DeleteAnswered(c)
  BY <1>3 DEF DeleteAnswered, rowVars, boundVars, historyVars
<1>4. CASE Discard(c)
  BY <1>4 DEF Discard, rowVars, pageVars, formVars, boundVars, historyVars
<1>5. QED
  BY <1>1, <1>2, <1>3, <1>4 DEF Resume

LEMMA RestFrame ==
  ASSUME Leave \/ MsgTimer \/ UNCHANGED vars \/ \E n \in Names : Others(n)
  PROVE  /\ UNCHANGED <<settings, hookForm, webhook, saving, clicks, mixed, early>>
         /\ ~Leave => UNCHANGED <<at, call>>
<1>1. CASE Leave
  BY <1>1 DEF Leave, formVars, boundVars, historyVars
<1>2. CASE MsgTimer
  BY <1>2 DEF MsgTimer, formVars, boundVars, historyVars
<1>3. CASE UNCHANGED vars
  BY <1>3 DEF vars, pageVars, formVars, boundVars, historyVars
<1>4. CASE \E n \in Names : Others(n)
  BY <1>4 DEF Others, pageVars, formVars
<1>5. QED
  BY <1>1, <1>2, <1>3, <1>4

LEMMA FormFields ==
  ASSUME NEW f \in Forms
  PROVE  /\ \A i, b : /\ [f EXCEPT !.id = i, !.edited = b].of = f.of
                      /\ [f EXCEPT !.id = i, !.edited = b].id = i
                      /\ [f EXCEPT !.id = i, !.edited = b].edited = b
         /\ \A b : /\ [f EXCEPT !.edited = b].of = f.of
                   /\ [f EXCEPT !.edited = b].id = f.id
                   /\ [f EXCEPT !.edited = b].edited = b
BY DEF Forms

LEMMA HookFormFields ==
  /\ Blank.of = None /\ Blank.id = None /\ Blank.box = None /\ ~Blank.url /\ ~Blank.edited
  /\ \A n, i : LET g == HookForm(n, i) IN
       g.of = n /\ g.id = i /\ g.box = i /\ g.url = (i # None) /\ ~g.edited
BY DEF Blank, HookForm

LEMMA BlankFields ==
  ASSUME NEW f, NEW b, f = [Blank EXCEPT !.box = b]
  PROVE  f.of = None /\ f.id = None /\ f.box = b /\ ~f.url /\ ~f.edited
BY DEF Blank, HookForm

\* Only the component on the screen waits for answers, and until it has shown two
\* instances it has only asked about the one it shows.
LiveIsHere ==
  \A c \in Calls : call[c].live => at # None /\ (~mixed => call[c].name = at)

OwnForms ==
  at # None /\ ~mixed =>
    /\ settings # None => settings.of = at
    /\ hookForm.of \in {at, None}
    /\ hookForm.of = None => hookForm.id = None /\ ~hookForm.url

OwnInv == LiveIsHere /\ OwnForms /\ SavesOwn

LEMMA OwnUser ==
  ASSUME TypeInv, OwnInv, NEW c \in Calls, User(c)
  PROVE  OwnInv'
<1>1. ASSUME NEW n \in Names, Open(c, n)
      PROVE  OwnInv'
  <2>1. /\ Sends(c, "load", n, None, None) /\ at = None /\ at' = n
        /\ settings' = None /\ hookForm' = Blank
    BY <1>1, UserSends DEF Open
  <2>2. at' # None /\ "load" \notin Writes
    BY <2>1, DetailAssumption DEF Writes
  <2>3. \A d \in Calls : ~call[d].live
    BY <2>1 DEF OwnInv, LiveIsHere
  <2>4. QED
    BY <2>1, <2>2, <2>3, HookFormFields DEF OwnInv, LiveIsHere, OwnForms, SavesOwn, Sends
<1>2. ASSUME NEW n \in Names, Move(c, n)
      PROVE  OwnInv'
  <2>1. at' = n /\ at # None /\ at' # None /\ mixed'
    BY <1>2, DetailAssumption DEF Move
  <2>2. QED
    BY <2>1 DEF OwnInv, LiveIsHere, OwnForms, SavesOwn
<1>3. CASE SaveSettings(c)
  <2>1. /\ Sends(c, "saveSettings", at, settings.of, NewId) /\ at # None
        /\ settings \in Forms /\ settings' = [settings EXCEPT !.id = NewId, !.edited = FALSE]
        /\ settings # None /\ UNCHANGED <<at, mixed, hookForm>>
    BY <1>3, UserSends DEF SaveSettings, TypeInv, TypeOK, historyVars
  <2>2. settings'.of = settings.of
    BY <2>1, FormFields
  <2>3. QED
    BY <2>1, <2>2 DEF OwnInv, LiveIsHere, OwnForms, SavesOwn, Sends
<1>4. CASE SaveWebhook(c)
  <2>1. /\ at # None /\ hookForm \in HookForms /\ UNCHANGED <<at, mixed, settings>>
        /\ \/ /\ Sends(c, "saveWebhook", at, hookForm.of, None) /\ UNCHANGED hookForm
           \/ /\ hookForm.url
              /\ Sends(c, "saveWebhook", at, hookForm.of, NewId)
              /\ hookForm' = [hookForm EXCEPT !.id = NewId, !.box = NewId, !.edited = FALSE]
    BY <1>4, UserSends DEF SaveWebhook, TypeInv, TypeOK
  <2>2. hookForm'.of = hookForm.of /\ hookForm'.url = hookForm.url
    BY <2>1 DEF HookForms
  <2>3. OwnForms'
    BY <2>1, <2>2 DEF OwnInv, OwnForms
  <2>4. LiveIsHere'
    BY <2>1 DEF OwnInv, LiveIsHere, Sends
  <2>5. SavesOwn'
    BY <2>1 DEF OwnInv, OwnForms, SavesOwn, Sends
  <2>6. QED
    BY <2>3, <2>4, <2>5 DEF OwnInv
<1>5. CASE DeleteWebhook(c)
  <2>1. /\ Sends(c, "deleteWebhook", at, at, NewId) /\ at # None
        /\ UNCHANGED <<at, mixed, settings, hookForm>>
    BY <1>5, UserSends DEF DeleteWebhook, pageVars, formVars
  <2>2. QED
    BY <2>1 DEF OwnInv, LiveIsHere, OwnForms, SavesOwn, Sends
<1>6. QED
  BY <1>1, <1>2, <1>3, <1>4, <1>5 DEF User

\* The settings and the webhook form when no click of the user changes them.
LEMMA OwnFormsStay ==
  ASSUME TypeInv, OwnInv, [Next]_vars, ~\E c \in Calls : User(c), at' # None
  PROVE  /\ UNCHANGED <<at, mixed>>
         /\ OwnForms'
<1>1. ASSUME NEW c \in Calls, Loaded(c)
      PROVE  UNCHANGED <<at, mixed>> /\ OwnForms'
  <2>1. /\ UNCHANGED <<at, mixed>> /\ call[c].live
        /\ settings' = settings \/ settings' = Form(call[c].name, call[c].id)
        /\ \/ hookForm' = hookForm
           \/ hookForm' = HookForm(call[c].name, call[c].hook) /\ call[c].hook # None
    BY <1>1 DEF Loaded, Answered, historyVars
  <2>2. ~mixed => call[c].name = at
    BY <2>1 DEF OwnInv, LiveIsHere
  <2>3. call[c].name # None
    BY <1>1, DetailAssumption DEF Loaded, Answered, TypeInv, CallShape
  <2>4. QED
    BY <2>1, <2>2, <2>3, HookFormFields DEF OwnInv, OwnForms, Form
<1>2. ASSUME NEW c \in Calls, DeleteAnswered(c)
      PROVE  UNCHANGED <<at, mixed>> /\ OwnForms'
  BY <1>2, BlankFields DEF DeleteAnswered, historyVars, OwnInv, OwnForms
<1>3. CASE EditSettings
  <2>1. /\ UNCHANGED <<at, mixed, hookForm>> /\ settings # None /\ settings \in Forms
        /\ settings' = [settings EXCEPT !.edited = TRUE]
    BY <1>3 DEF EditSettings, historyVars, TypeInv, TypeOK
  <2>2. settings'.of = settings.of
    BY <2>1, FormFields
  <2>3. QED
    BY <2>1, <2>2 DEF OwnInv, OwnForms
<1>4. CASE EditWebhook
  <2>1. /\ UNCHANGED <<at, mixed, settings>> /\ hookForm \in HookForms /\ at # None
        /\ \E u : hookForm' = [hookForm EXCEPT !.edited = TRUE, !.url = u,
                                               !.of = IF hookForm.of = None THEN at ELSE @]
    BY <1>4 DEF EditWebhook, TypeInv, TypeOK
  <2>2. hookForm'.of = IF hookForm.of = None THEN at ELSE hookForm.of
    BY <2>1 DEF HookForms
  <2>3. QED
    BY <2>1, <2>2 DEF OwnInv, OwnForms
<1>5. CASE UNCHANGED <<at, mixed, settings, hookForm>>
  BY <1>5 DEF OwnInv, OwnForms
<1>6. ASSUME NEW c \in Calls, Serve(c) \/ Lose(c)
      PROVE  UNCHANGED <<at, mixed>> /\ OwnForms'
  BY <1>5, <1>6, ServerFrame
<1>7. ASSUME NEW c \in Calls, Resume(c)
      PROVE  UNCHANGED <<at, mixed>> /\ OwnForms'
  BY <1>1, <1>2, <1>5, <1>7, AnswerFrame
<1>8. CASE Leave \/ MsgTimer \/ UNCHANGED vars \/ \E n \in Names : Others(n)
  <2>1. ~Leave
    BY DEF Leave
  <2>2. QED
    BY <1>5, <1>8, <2>1, RestFrame
<1>9. QED
  BY <1>3, <1>4, <1>6, <1>7, <1>8 DEF Next

LEMMA OwnInvariant == Spec => []OwnInv
<1>1. Init => OwnInv
  BY HookFormFields DEF Init, NoCall, OwnInv, LiveIsHere, OwnForms, SavesOwn
<1>2. TypeInv /\ OwnInv /\ [Next]_vars => OwnInv'
  <2> SUFFICES ASSUME TypeInv, OwnInv, [Next]_vars PROVE OwnInv'
    OBVIOUS
  <2>1. CASE \E c \in Calls : User(c)
    BY <2>1, OwnUser
  <2>2. CASE ~(\E c \in Calls : User(c)) /\ at' # None
    BY <2>2, OwnFormsStay, KeptCalls DEF OwnInv, LiveIsHere, SavesOwn, Kept, Writes
  <2>3. CASE ~(\E c \in Calls : User(c)) /\ at' = None
    <3>1. \A c \in Calls : ~call'[c].live
      <4>1. CASE Leave
        BY <4>1, LeftCalls DEF Leaves, TypeInv
      <4>2. CASE at = None
        BY <2>3, <4>2, KeptCalls DEF OwnInv, LiveIsHere, Kept
      <4>3. Leave \/ at' = at
        BY <2>3, ServerFrame, AnswerFrame, RestFrame DEF Next, EditSettings, EditWebhook
      <4>4. QED
        BY <2>3, <4>1, <4>2, <4>3
    <3>2. QED
      BY <2>3, <3>1 DEF OwnInv, LiveIsHere, OwnForms, SavesOwn
  <2>4. QED
    BY <2>1, <2>2, <2>3
<1>3. QED
  BY <1>1, <1>2, TypeInvariant, PTL DEF Spec

\* What is saved goes to the instance it was loaded from or typed for, however
\* late a load or a save is answered, as long as the component has shown one
\* instance only.
THEOREM OwnIsSaved == Spec => []SavesOwn
BY OwnInvariant, PTL DEF OwnInv

-----------------------------------------------------------------------------
(* What the user has typed stays *)

\* A component that has shown one instance has loaded once: while it waits for
\* the answer there are no settings to edit or save.
OneLoad ==
  \A c \in Calls : call[c].live /\ call[c].kind = "load" /\ ~mixed =>
    /\ settings = None
    /\ \A d \in Calls : call[d].live /\ call[d].kind \in {"load", "saveSettings"} => d = c

\* Only the answer to a load and the user change the settings form.
LEMMA SettingsStay ==
  ASSUME TypeInv, [Next]_vars, ~\E c \in Calls : User(c)
  PROVE  /\ mixed' = mixed
         /\ \/ settings' = settings
            \/ EditSettings
            \/ \E c \in Calls : Loaded(c) /\ Returns(c)
<1>1. ASSUME NEW c \in Calls, Loaded(c)
      PROVE  mixed' = mixed /\ Returns(c)
  BY <1>1, ReturnedCall DEF Loaded, historyVars, TypeInv
<1>2. CASE EditSettings \/ EditWebhook
  BY <1>2 DEF EditSettings, EditWebhook, historyVars
<1>3. ASSUME NEW c \in Calls, Resume(c)
      PROVE  mixed' = mixed /\ (settings' = settings \/ (Loaded(c) /\ Returns(c)))
  BY <1>1, <1>3, AnswerFrame
<1>4. QED
  BY <1>2, <1>3, ServerFrame, RestFrame DEF Next

LEMMA LoadStep ==
  ASSUME TypeInv, OwnInv, OneLoad, [Next]_vars
  PROVE  OneLoad'
<1>1. ASSUME NEW c \in Calls, NEW n \in Names, Open(c, n)
      PROVE  OneLoad'
  <2>1. /\ Sends(c, "load", n, None, None) /\ settings' = None
        /\ \A d \in Calls : ~call[d].live
    BY <1>1, UserSends DEF Open, OwnInv, LiveIsHere
  <2>2. QED
    BY <2>1 DEF OneLoad, Sends
<1>2. ASSUME NEW c \in Calls, NEW n \in Names, Move(c, n)
      PROVE  OneLoad'
  BY <1>2 DEF Move, OneLoad
<1>3. ASSUME NEW c \in Calls, SaveSettings(c)
      PROVE  OneLoad'
  <2>1. /\ Sends(c, "saveSettings", at, settings.of, NewId) /\ settings # None
        /\ mixed' = mixed
    BY <1>3, UserSends DEF SaveSettings, historyVars
  <2>2. QED
    BY <2>1 DEF OneLoad, Sends
<1>4. ASSUME NEW c \in Calls, SaveWebhook(c) \/ DeleteWebhook(c)
      PROVE  OneLoad'
  <2>1. /\ \E k \in {"saveWebhook", "deleteWebhook"} : \E f, i : Sends(c, k, at, f, i)
        /\ UNCHANGED <<settings, mixed>>
    BY <1>4, UserSends DEF SaveWebhook, DeleteWebhook, pageVars, formVars
  <2>2. QED
    BY <2>1 DEF OneLoad, Sends
<1>5. CASE ~\E c \in Calls : User(c)
  <2>1. /\ mixed' = mixed
        /\ \A d \in Calls : /\ call'[d].live => call[d].live
                            /\ call'[d].live => call'[d].kind = call[d].kind
    BY <1>5, SettingsStay, KeptCalls DEF Kept
  <2>2. CASE settings' = settings
    BY <2>1, <2>2 DEF OneLoad
  <2>3. CASE EditSettings
    BY <2>1, <2>3 DEF EditSettings, OneLoad
  <2>4. ASSUME NEW c \in Calls, Loaded(c), Returns(c)
        PROVE  OneLoad'
    <3>1. call[c].live /\ call[c].kind = "load" /\ ~call'[c].live
      BY <2>4 DEF Loaded, Answered, Returns
    <3>2. QED
      BY <2>1, <3>1 DEF OneLoad
  <2>5. QED
    BY <1>5, <2>2, <2>3, <2>4, SettingsStay
<1>6. QED
  BY <1>1, <1>2, <1>3, <1>4, <1>5 DEF User

LEMMA LoadInvariant == Spec => []OneLoad
<1>1. Init => OneLoad
  BY DEF Init, NoCall, OneLoad
<1>2. QED
  BY <1>1, LoadStep, TypeInvariant, OwnInvariant, PTL DEF Spec

\* No answer replaces settings the user has edited: the only load a component
\* waits for is the one before there were any.
THEOREM EditsAreKept == Spec => EditsStay
<1>1. ASSUME TypeInv, OneLoad, [Next]_vars, at' = at, ~mixed, settings # None, settings.edited,
             ~settings'.edited
      PROVE  ~saving /\ saving'
  <2>1. CASE \E c \in Calls : User(c)
    <3>1. PICK c \in Calls : User(c)
      BY <2>1
    <3>2. settings' # settings
      BY <1>1
    <3>3. SaveSettings(c)
      BY <1>1, <3>1, <3>2, DetailAssumption
      DEF User, Open, Move, SaveWebhook, DeleteWebhook, pageVars, formVars
    <3>4. QED
      BY <3>3 DEF SaveSettings
  <2>2. CASE ~\E c \in Calls : User(c)
    <3>1. ~EditSettings /\ \A c \in Calls : ~Loaded(c)
      BY <1>1 DEF EditSettings, Loaded, Answered, OneLoad
    <3>2. settings' # settings
      BY <1>1
    <3>3. QED
      BY <1>1, <2>2, <3>1, <3>2, SettingsStay
  <2>3. QED
    BY <2>1, <2>2
<1>2. TypeInv /\ OneLoad /\ [Next]_vars =>
        [at' = at /\ ~mixed /\ settings # None /\ settings.edited /\ ~settings'.edited
           => ~saving /\ saving']_vars
  BY <1>1
<1>3. QED
  BY <1>2, TypeInvariant, LoadInvariant, PTL DEF Spec, EditsStay

-----------------------------------------------------------------------------
(* Writes take effect in the order of the clicks *)

Saves == {"saveSettings", "saveWebhook"}
HookWrites == {"saveWebhook", "deleteWebhook"}

\* The disabled buttons: a component has one save under way at most.
OneSave ==
  \A c \in Calls : call[c].live /\ call[c].kind \in Saves =>
    saving /\ \A d \in Calls : call[d].live /\ call[d].kind \in Saves => d = c

\* What a component that is gone still writes excuses the instance on the screen.
LeftExcused ==
  \A c \in Calls :
    call[c].kind \in Writes /\ ~call[c].live /\ call[c].name = at => at \in excused

\* So each row of a name that is not excused has one writer at most.
OneWriter ==
  \A c, d \in Calls :
    c # d /\ call[c].name = call[d].name /\ call[c].name \notin excused =>
      /\ ~(call[c].kind = "saveSettings" /\ call[d].kind = "saveSettings")
      /\ ~(call[c].kind \in HookWrites /\ call[d].kind \in HookWrites)

\* The ids given out so far.
IdsPast ==
  /\ \A n \in Names : settingsRow[n] <= clicks + faults /\ hookRow[n].id <= clicks + faults
  /\ \A c \in Calls : call[c].kind \in Writes /\ call[c].id # None => call[c].id <= clicks + faults

\* A write that is still to be served is later than what is stored.
Ahead ==
  \A c \in Calls :
    call[c].kind \in Writes /\ call[c].answer = None /\ call[c].name \notin excused =>
      /\ call[c].kind = "saveSettings" => call[c].id >= settingsRow[call[c].name]
      /\ call[c].kind \in HookWrites /\ call[c].id # None => call[c].id >= hookRow[call[c].name].id

SaveInv == OneSave /\ LeftExcused /\ OneWriter
OrderInv == IdsPast /\ Ahead

LEMMA ExcusedGrow ==
  ASSUME [Next]_vars
  PROVE  excused \subseteq excused'
<1>1. ASSUME NEW c \in Calls, User(c)
      PROVE  excused \subseteq excused'
  BY <1>1 DEF User, Open, Move, SaveSettings, SaveWebhook, DeleteWebhook, Excuse, historyVars
<1>2. ASSUME NEW c \in Calls, Serve(c) \/ Lose(c)
      PROVE  excused \subseteq excused'
  BY <1>2 DEF Serve, ServeWrite, RefuseBlank, ServeRead, Lose, Excuse, historyVars
<1>3. CASE Leave \/ EditSettings \/ EditWebhook \/ MsgTimer \/ UNCHANGED vars
             \/ \E n \in Names : Others(n)
  BY <1>3 DEF Leave, EditSettings, EditWebhook, MsgTimer, Others, Excuse, vars, historyVars
<1>4. QED
  BY <1>1, <1>2, <1>3, AnswerFrame DEF Next

\* A component that opens n finds what is still being written to n excused.
LEMMA LeftWritingExcused ==
  ASSUME NEW c \in Calls, NEW n \in Names, Open(c, n) \/ Move(c, n)
  PROVE  \A d \in Calls : call[d].kind \in Writes /\ ~call[d].live /\ call[d].name = n => n \in excused'
BY DEF Open, Move, Excuse, LeftWriting

LEMMA SaveUser ==
  ASSUME TypeInv, OwnInv, SaveInv, [Next]_vars, NEW c \in Calls, User(c)
  PROVE  SaveInv'
<1>1. excused \subseteq excused'
  BY ExcusedGrow
<1>2. ASSUME NEW n \in Names, Open(c, n) \/ Move(c, n)
      PROVE  SaveInv'
  <2>1. /\ Sends(c, "load", n, None, None) /\ at' = n
        /\ "load" \notin Writes \cup Saves \cup HookWrites
    BY <1>2, UserSends DEF Open, Move, Writes, Saves, HookWrites
  <2>2. OneSave'
    <3>1. CASE Open(c, n)
      <4>1. \A d \in Calls : ~call[d].live
        BY <3>1 DEF Open, OwnInv, LiveIsHere
      <4>2. QED
        BY <2>1, <4>1 DEF OneSave, Sends
    <3>2. CASE Move(c, n)
      BY <2>1, <3>2 DEF Move, OneSave, SaveInv, Sends
    <3>3. QED
      BY <1>2, <3>1, <3>2
  <2>3. LeftExcused'
    BY <1>2, <2>1, LeftWritingExcused DEF LeftExcused, Sends
  <2>4. OneWriter'
    BY <1>1, <2>1 DEF OneWriter, SaveInv, Sends
  <2>5. QED
    BY <2>2, <2>3, <2>4 DEF SaveInv
<1>3. ASSUME SaveSettings(c) \/ SaveWebhook(c)
      PROVE  SaveInv'
  <2>1. /\ \E k \in Saves : \E f, i : Sends(c, k, at, f, i) /\ (k = "saveWebhook" <=> ~SaveSettings(c))
        /\ at' = at /\ ~saving /\ saving' /\ Saves \subseteq Writes
    BY <1>3, UserSends DEF SaveSettings, SaveWebhook, Saves, Writes
  <2>2. \A d \in Calls : call[d].kind \in Saves /\ call[d].name = at => at \in excused'
    BY <1>1, <2>1 DEF SaveInv, OneSave, LeftExcused
  <2>3. ~SaveSettings(c) => \A d \in Calls : call[d].kind = "deleteWebhook" /\ call[d].name = at
                                               => at \in excused'
    BY <1>3 DEF SaveWebhook, Excuse, Pending
  <2>4. OneSave'
    BY <2>1 DEF SaveInv, OneSave, Sends
  <2>5. LeftExcused'
    BY <1>1, <2>1 DEF SaveInv, LeftExcused, Sends
  <2>6. OneWriter'
    BY <1>1, <2>1, <2>2, <2>3 DEF SaveInv, OneWriter, Sends, Saves, HookWrites
  <2>7. QED
    BY <2>4, <2>5, <2>6 DEF SaveInv
<1>4. CASE DeleteWebhook(c)
  <2>1. /\ Sends(c, "deleteWebhook", at, at, NewId) /\ at' = at /\ saving' = saving
        /\ "deleteWebhook" \notin Saves
    BY <1>4, UserSends DEF DeleteWebhook, pageVars, Saves
  <2>2. \A d \in Calls : call[d].kind \in HookWrites /\ call[d].name = at => at \in excused'
    BY <1>4 DEF DeleteWebhook, Excuse, Pending, HookWrites
  <2>3. OneSave'
    BY <2>1 DEF SaveInv, OneSave, Sends
  <2>4. LeftExcused'
    BY <1>1, <2>1 DEF SaveInv, LeftExcused, Sends
  <2>5. OneWriter'
    BY <1>1, <2>1, <2>2 DEF SaveInv, OneWriter, Sends, HookWrites
  <2>6. QED
    BY <2>3, <2>4, <2>5 DEF SaveInv
<1>5. QED
  BY <1>2, <1>3, <1>4 DEF User

LEMMA SaveQuiet ==
  ASSUME TypeInv, SaveInv, [Next]_vars, ~\E c \in Calls : User(c)
  PROVE  SaveInv'
<1>1. excused \subseteq excused' /\ \A d \in Calls : Kept(d)
  BY ExcusedGrow, KeptCalls
<1>2. "none" \notin Writes \cup Saves \cup HookWrites \cup {"saveSettings"}
  BY DEF Writes, Saves, HookWrites
<1>3. OneWriter'
  BY <1>1, <1>2 DEF SaveInv, OneWriter, Kept
<1>4. LeftExcused'
  <2>1. CASE at' = at
    <3>1. ASSUME NEW c \in Calls, call'[c].kind \in Writes, ~call'[c].live, call'[c].name = at
          PROVE  at \in excused'
      <4>1. call[c].kind \in Writes /\ call[c].name = at /\ at \in Names
        BY <1>1, <1>2, <3>1 DEF Kept, TypeInv, CallShape
      <4>2. ~call[c].live
        BY <1>1, <1>2, <2>1, <3>1, <4>1, DetailAssumption DEF Kept
      <4>3. QED
        BY <1>1, <4>1, <4>2 DEF SaveInv, LeftExcused
    <3>2. QED
      BY <2>1, <3>1 DEF LeftExcused
  <2>2. CASE Leave
    BY <1>1, <1>2, <2>2, DetailAssumption DEF Leave, Kept, TypeInv, CallShape, LeftExcused
  <2>3. QED
    BY <2>1, <2>2, ServerFrame, AnswerFrame, RestFrame DEF Next, EditSettings, EditWebhook
<1>5. OneSave'
  <2>1. CASE saving' = saving
    BY <1>1, <1>2, <2>1 DEF SaveInv, OneSave, Kept
  <2>2. ASSUME NEW c \in Calls, SaveAnswered(c)
        PROVE  OneSave'
    <3>1. call[c].live /\ call[c].kind \in Saves /\ call'[c].kind = "none"
      BY <2>2, ReturnedCall DEF SaveAnswered, Answered, Returns, Saves, TypeInv
    <3>2. QED
      BY <1>1, <1>2, <3>1 DEF SaveInv, OneSave, Kept
  <2>3. QED
    BY <2>1, <2>2, ServerFrame, RestFrame
    DEF Next, EditSettings, EditWebhook, Resume, Loaded, DeleteAnswered, Discard, pageVars
<1>6. QED
  BY <1>3, <1>4, <1>5 DEF SaveInv

LEMMA SaveInvariant == Spec => []SaveInv
<1>1. Init => SaveInv
  BY DEF Init, NoCall, SaveInv, OneSave, LeftExcused, OneWriter, Writes, Saves, HookWrites
<1>2. TypeInv /\ OwnInv /\ SaveInv /\ [Next]_vars => SaveInv'
  BY SaveUser, SaveQuiet
<1>3. QED
  BY <1>1, <1>2, TypeInvariant, OwnInvariant, PTL DEF Spec

LEMMA OrderTypes ==
  ASSUME TypeInv
  PROVE  /\ clicks \in Nat /\ faults \in Nat
         /\ \A n \in Names : settingsRow[n] \in Nat /\ hookRow[n].id \in Nat
         /\ \A c \in Calls : /\ call[c].id # None => call[c].id \in Nat
                             /\ call[c].kind \in {"saveSettings", "deleteWebhook"} => call[c].id # None
                             /\ call[c].kind \in Writes => call[c].name \in Names
<1>1. Ids \subseteq Nat /\ None \notin Ids
  BY Counts, DetailAssumption DEF Ids, TypeInv
<1>2. clicks \in Nat /\ faults \in Nat
  BY Counts DEF TypeInv
<1>3. \A n \in Names : settingsRow[n] \in Ids /\ hookRow[n].id \in Ids
  BY DEF TypeInv, TypeOK
<1>4. \A c \in Calls : call[c].id \in Ids \cup {None}
  BY DEF TypeInv, TypeOK, MaybeId
<1>5. "none" \notin Writes
  BY DEF Writes
<1>6. QED
  BY <1>1, <1>2, <1>3, <1>4, <1>5 DEF TypeInv, CallShape

LEMMA OrderUser ==
  ASSUME TypeInv, OrderInv, [Next]_vars, NEW c \in Calls, User(c)
  PROVE  OrderInv'
<1>1. /\ UNCHANGED <<settingsRow, hookRow>> /\ clicks' = clicks + 1 /\ faults' = faults
      /\ excused \subseteq excused' /\ "load" \notin Writes
  BY ExcusedGrow
  DEF User, Open, Move, SaveSettings, SaveWebhook, DeleteWebhook, Click, rowVars, Writes
<1>2. \/ \E n, f : Sends(c, "load", n, f, None)
      \/ \E f : \E k \in Writes, i \in {None, NewId} :
           Sends(c, k, at, f, i) /\ at \in Names /\ (k # "saveWebhook" => i = NewId)
  <2>1. at # None => at \in Names
    BY DEF TypeInv, TypeOK
  <2>2. QED
    BY <2>1, UserSends DEF User, SaveSettings, SaveWebhook, DeleteWebhook, Writes
<1>3. NewId = clicks' + faults' /\ NewId \in Nat
  BY <1>1, OrderTypes DEF NewId
<1>4. /\ \A n \in Names : settingsRow[n] <= NewId /\ hookRow[n].id <= NewId
      /\ \A d \in Calls : call[d].kind \in Writes /\ call[d].id # None => call[d].id <= NewId
  BY OrderTypes DEF OrderInv, IdsPast, NewId
<1>5. IdsPast'
  <2>1. \A d \in Calls : call'[d].kind \in Writes /\ call'[d].id # None => call'[d].id <= NewId
    BY <1>1, <1>2, <1>3, <1>4 DEF Sends
  <2>2. QED
    BY <1>1, <1>3, <1>4, <2>1 DEF IdsPast
<1>6. Ahead'
  <2>1. \A d \in Calls \ {c} : call'[d] = call[d]
    BY <1>2 DEF Sends
  <2>2. call'[c].kind \in Writes =>
          /\ call'[c].name \in Names
          /\ call'[c].id \in {None, NewId}
          /\ call'[c].kind = "saveSettings" => call'[c].id = NewId
    BY <1>1, <1>2 DEF Sends
  <2>3. ASSUME NEW d \in Calls, call'[d].kind \in Writes, call'[d].answer = None,
               call'[d].name \notin excused'
        PROVE  /\ call'[d].kind = "saveSettings" => call'[d].id >= settingsRow'[call'[d].name]
               /\ call'[d].kind \in HookWrites /\ call'[d].id # None
                    => call'[d].id >= hookRow'[call'[d].name].id
    <3>1. CASE d = c
      BY <1>1, <1>3, <1>4, <2>2, <2>3, <3>1, OrderTypes
    <3>2. CASE d # c
      BY <1>1, <2>1, <2>3, <3>2 DEF OrderInv, Ahead
    <3>3. QED
      BY <3>1, <3>2
  <2>4. QED
    BY <2>3 DEF Ahead
<1>7. QED
  BY <1>5, <1>6 DEF OrderInv

\* A row changes only as a write is served or someone else stores something.
LEMMA RowsStay ==
  ASSUME [Next]_vars, ~\E c \in Calls : ServeWrite(c), ~\E n \in Names : Others(n)
  PROVE  UNCHANGED <<settingsRow, hookRow>>
<1>1. ASSUME NEW c \in Calls, User(c)
      PROVE  UNCHANGED <<settingsRow, hookRow>>
  BY <1>1 DEF User, Open, Move, SaveSettings, SaveWebhook, DeleteWebhook, rowVars
<1>2. ASSUME NEW c \in Calls, Serve(c) \/ Lose(c)
      PROVE  UNCHANGED <<settingsRow, hookRow>>
  BY <1>2 DEF Serve, RefuseBlank, ServeRead, Lose, rowVars
<1>3. CASE Leave \/ EditSettings \/ EditWebhook \/ MsgTimer \/ UNCHANGED vars
  BY <1>3 DEF Leave, EditSettings, EditWebhook, MsgTimer, vars, rowVars
<1>4. QED
  BY <1>1, <1>2, <1>3, AnswerFrame DEF Next

\* What serving a write does to the rows.
LEMMA ServedRow ==
  ASSUME TypeInv, NEW c \in Calls, ServeWrite(c)
  PROVE  /\ call[c].kind \in Writes /\ call[c].name \in Names /\ call[c].answer = None
         /\ call[c].id # None /\ Replies(c, "ok")
         /\ UNCHANGED <<clicks, faults, excused>>
         /\ \A n \in Names :
              /\ settingsRow'[n] = IF call[c].kind = "saveSettings" /\ n = call[c].name
                                   THEN call[c].id ELSE settingsRow[n]
              /\ IF call[c].kind \in HookWrites /\ n = call[c].name
                 THEN /\ hookRow'[n].id = call[c].id
                      /\ call[c].kind = "saveWebhook" => hookRow'[n].on
                      /\ call[c].kind = "deleteWebhook" => ~hookRow'[n].on
                 ELSE hookRow'[n] = hookRow[n]
<1>1. /\ call[c].kind \in Writes /\ call[c].name \in Names /\ call[c].answer = None
      /\ call[c].id # None /\ Replies(c, "ok")
      /\ UNCHANGED <<clicks, faults, excused>>
  BY RepliedCall, OrderTypes DEF ServeWrite, TypeInv, boundVars, historyVars
<1>2. /\ settingsRow \in [Names -> Ids]
      /\ hookRow \in [Names -> [id : Ids, on : BOOLEAN]]
  BY DEF TypeInv, TypeOK
<1>3. CASE call[c].kind = "saveSettings"
  BY <1>1, <1>2, <1>3 DEF ServeWrite, HookWrites
<1>4. CASE call[c].kind = "saveWebhook"
  BY <1>1, <1>2, <1>4 DEF ServeWrite, HookWrites
<1>5. CASE call[c].kind = "deleteWebhook"
  BY <1>1, <1>2, <1>5 DEF ServeWrite, HookWrites
<1>6. QED
  BY <1>1, <1>3, <1>4, <1>5 DEF Writes

LEMMA OrderServed ==
  ASSUME TypeInv, SaveInv, OrderInv, NEW c \in Calls, ServeWrite(c)
  PROVE  OrderInv'
<1>1. /\ call[c].kind \in Writes /\ call[c].name \in Names /\ call[c].answer = None
      /\ call[c].id # None /\ Replies(c, "ok")
      /\ UNCHANGED <<clicks, faults, excused>>
  BY ServedRow
<1>2. \A d \in Calls : /\ call'[d].kind = call[d].kind /\ call'[d].name = call[d].name
                       /\ call'[d].id = call[d].id /\ (d # c => call'[d].answer = call[d].answer)
  BY <1>1 DEF Replies, SameRequest
<1>3. call[c].id <= clicks + faults
  BY <1>1 DEF OrderInv, IdsPast
<1>4. IdsPast'
  <2>1. ASSUME NEW n \in Names
        PROVE  settingsRow'[n] <= clicks + faults /\ hookRow'[n].id <= clicks + faults
    BY <1>3, ServedRow DEF OrderInv, IdsPast
  <2>2. QED
    BY <1>1, <1>2, <2>1 DEF OrderInv, IdsPast
<1>5. ASSUME NEW d \in Calls, call'[d].kind \in Writes, call'[d].answer = None,
             call'[d].name \notin excused'
      PROVE  /\ call'[d].kind = "saveSettings" => call'[d].id >= settingsRow'[call'[d].name]
             /\ call'[d].kind \in HookWrites /\ call'[d].id # None
                  => call'[d].id >= hookRow'[call'[d].name].id
  <2>1. call[d].name \in Names
    BY <1>2, <1>5, OrderTypes
  <2>2. CASE d = c
    <3>1. call[c].id \in Nat /\ call[c].id >= call[c].id
      BY <1>1, OrderTypes
    <3>2. QED
      BY <1>1, <1>2, <2>2, <3>1, ServedRow
  <2>3. CASE d # c
    <3>1. /\ call[d].kind = "saveSettings" => call[d].id >= settingsRow[call[d].name]
          /\ call[d].kind \in HookWrites /\ call[d].id # None
               => call[d].id >= hookRow[call[d].name].id
      BY <1>1, <1>2, <1>5, <2>3 DEF OrderInv, Ahead
    <3>2. /\ call[d].kind = "saveSettings"
               => settingsRow'[call[d].name] = settingsRow[call[d].name]
          /\ call[d].kind \in HookWrites => hookRow'[call[d].name] = hookRow[call[d].name]
      BY <1>1, <1>2, <1>5, <2>1, <2>3, ServedRow DEF SaveInv, OneWriter
    <3>3. QED
      BY <1>2, <3>1, <3>2
  <2>4. QED
    BY <2>2, <2>3
<1>6. QED
  BY <1>4, <1>5 DEF OrderInv, Ahead

LEMMA OrderOthers ==
  ASSUME TypeInv, OrderInv, [Next]_vars, NEW m \in Names, Others(m)
  PROVE  OrderInv'
<1>1. /\ clicks' = clicks /\ faults' = faults + 1 /\ call' = call
      /\ m \in excused' /\ excused \subseteq excused'
      /\ NewId = clicks' + faults' /\ NewId \in Nat
  BY ExcusedGrow, OrderTypes DEF Others, Excuse, NewId
<1>2. \A n \in Names : /\ settingsRow'[n] = settingsRow[n] \/ (n = m /\ settingsRow'[n] = NewId)
                       /\ hookRow'[n] = hookRow[n] \/ (n = m /\ hookRow'[n].id = NewId)
  <2>1. /\ settingsRow \in [Names -> Ids]
        /\ hookRow \in [Names -> [id : Ids, on : BOOLEAN]]
    BY DEF TypeInv, TypeOK
  <2>2. QED
    BY <2>1 DEF Others
<1>3. IdsPast'
  <2>1. \A n \in Names : settingsRow'[n] <= NewId /\ hookRow'[n].id <= NewId
    BY <1>1, <1>2, OrderTypes DEF OrderInv, IdsPast
  <2>2. \A d \in Calls : call[d].kind \in Writes /\ call[d].id # None => call[d].id <= NewId
    BY <1>1, OrderTypes DEF OrderInv, IdsPast
  <2>3. QED
    BY <1>1, <2>1, <2>2 DEF IdsPast
<1>4. Ahead'
  BY <1>1, <1>2, OrderTypes DEF OrderInv, Ahead
<1>5. QED
  BY <1>3, <1>4 DEF OrderInv

LEMMA OrderQuiet ==
  ASSUME TypeInv, OrderInv, [Next]_vars, ~\E c \in Calls : User(c) \/ ServeWrite(c),
         ~\E n \in Names : Others(n)
  PROVE  OrderInv'
<1>1. /\ UNCHANGED <<settingsRow, hookRow>> /\ excused \subseteq excused'
      /\ \A d \in Calls : Kept(d)
      /\ "none" \notin Writes
  BY RowsStay, ExcusedGrow, KeptCalls DEF Writes
<1>2. clicks' = clicks /\ faults' \in {faults, faults + 1}
  <2>1. ASSUME NEW c \in Calls, Serve(c) \/ Lose(c)
        PROVE  faults' \in {faults, faults + 1}
    BY <2>1 DEF Serve, ServeWrite, RefuseBlank, ServeRead, Lose, boundVars
  <2>2. ASSUME NEW c \in Calls, Resume(c)
        PROVE  faults' \in {faults, faults + 1}
    BY <2>2, AnswerFrame DEF Loaded
  <2>3. CASE Leave \/ EditSettings \/ EditWebhook \/ MsgTimer \/ UNCHANGED vars
    BY <2>3 DEF Leave, EditSettings, EditWebhook, MsgTimer, vars, boundVars
  <2>4. clicks' = clicks
    BY ServerFrame, AnswerFrame, RestFrame DEF Next, EditSettings, EditWebhook, boundVars
  <2>5. QED
    BY <2>1, <2>2, <2>3, <2>4 DEF Next
<1>3. IdsPast'
  <2>1. clicks + faults <= clicks' + faults' /\ clicks' + faults' \in Nat
    BY <1>2, OrderTypes
  <2>2. \A n \in Names : settingsRow[n] <= clicks' + faults' /\ hookRow[n].id <= clicks' + faults'
    BY <2>1, OrderTypes DEF OrderInv, IdsPast
  <2>3. ASSUME NEW d \in Calls, call'[d].kind \in Writes, call'[d].id # None
        PROVE  call'[d].id <= clicks' + faults'
    <3>1. call[d].kind \in Writes /\ call'[d].id = call[d].id
      BY <1>1, <2>3 DEF Kept
    <3>2. QED
      BY <2>1, <2>3, <3>1, OrderTypes DEF OrderInv, IdsPast
  <2>4. QED
    BY <1>1, <2>2, <2>3 DEF IdsPast
<1>4. ASSUME NEW d \in Calls, call'[d].kind \in Writes, call'[d].answer = None,
             call'[d].name \notin excused'
      PROVE  /\ call'[d].kind = call[d].kind /\ call'[d].name = call[d].name
             /\ call'[d].id = call[d].id
             /\ call[d].answer = None /\ call[d].name \notin excused
  BY <1>1, <1>4 DEF Kept
<1>5. Ahead'
  BY <1>1, <1>4 DEF OrderInv, Ahead
<1>6. QED
  BY <1>3, <1>5 DEF OrderInv

LEMMA OrderInvariant == Spec => []OrderInv
<1>1. Init => OrderInv
  BY DetailAssumption DEF Init, NoCall, OrderInv, IdsPast, Ahead, Writes
<1>2. TypeInv /\ SaveInv /\ OrderInv /\ [Next]_vars => OrderInv'
  BY OrderUser, OrderServed, OrderOthers, OrderQuiet
<1>3. QED
  BY <1>1, <1>2, TypeInvariant, SaveInvariant, PTL DEF Spec

\* A save or removal never takes effect after a later one of the same name, for
\* any number of requests that reach the server in any order: the disabled
\* buttons leave each row one writer at a time, as long as no component that is
\* gone, no other client, no failure and no removal that overlaps interferes.
THEOREM ClicksInOrder == Spec => WritesInOrder
<1>1. ASSUME TypeInv, SaveInv, OrderInv, [Next]_vars, NEW n \in Names \ excused'
      PROVE  settingsRow'[n] >= settingsRow[n] /\ hookRow'[n].id >= hookRow[n].id
  <2>1. settingsRow[n] \in Nat /\ hookRow[n].id \in Nat
    BY <1>1, OrderTypes
  <2>2. ASSUME NEW c \in Calls, ServeWrite(c)
        PROVE  settingsRow'[n] >= settingsRow[n] /\ hookRow'[n].id >= hookRow[n].id
    <3>1. /\ call[c].kind \in Writes /\ call[c].answer = None /\ call[c].id # None
          /\ excused' = excused
      BY <1>1, <2>2, ServedRow
    <3>2. call[c].name = n =>
            /\ call[c].kind = "saveSettings" => call[c].id >= settingsRow[n]
            /\ call[c].kind \in HookWrites => call[c].id >= hookRow[n].id
      BY <1>1, <3>1 DEF OrderInv, Ahead
    <3>3. QED
      BY <1>1, <2>1, <2>2, <3>2, ServedRow
  <2>3. ASSUME NEW m \in Names, Others(m)
        PROVE  settingsRow'[n] >= settingsRow[n] /\ hookRow'[n].id >= hookRow[n].id
    <3>1. m # n
      BY <1>1, <2>3 DEF Others, Excuse
    <3>2. settingsRow'[n] = settingsRow[n] /\ hookRow'[n] = hookRow[n]
      BY <1>1, <2>3, <3>1 DEF Others, TypeInv, TypeOK
    <3>3. QED
      BY <2>1, <3>2
  <2>4. CASE UNCHANGED <<settingsRow, hookRow>>
    BY <2>1, <2>4
  <2>5. QED
    BY <1>1, <2>2, <2>3, <2>4, RowsStay
<1>2. TypeInv /\ SaveInv /\ OrderInv /\ [Next]_vars =>
        [\A n \in Names \ excused' :
           settingsRow'[n] >= settingsRow[n] /\ hookRow'[n].id >= hookRow[n].id]_vars
  BY <1>1
<1>3. QED
  BY <1>2, TypeInvariant, SaveInvariant, OrderInvariant, PTL DEF Spec, WritesInOrder

-----------------------------------------------------------------------------
(* The idle page shows what is stored *)

\* Until the first answer the webhook form is blank and nothing else is asked.
Loading ==
  \A c \in Calls : call[c].live /\ call[c].kind = "load" /\ ~mixed /\ ~early =>
    /\ hookForm = Blank /\ ~webhook
    /\ \A d \in Calls : call[d].live => d = c

StoredHook(n) == IF hookRow[n].on THEN hookRow[n].id ELSE None

\* What a load has read is what is stored: nobody can have written since.
ReadsTrue ==
  \A c \in Calls : call[c].kind = "load" =>
    /\ call[c].answer # None => call[c].read = Parts
    /\ "webhook" \notin call[c].read => call[c].hook = None
    /\ call[c].live /\ ~mixed /\ at \notin excused =>
         /\ "settings" \in call[c].read => call[c].id = settingsRow[at]
         /\ "webhook" \in call[c].read /\ ~early => call[c].hook = StoredHook(at)

\* A write of the page that is on its way.
Unserved(c, k) ==
  call[c].kind = k /\ call[c].name = at /\ call[c].answer = None /\ call[c].id # None

\* A form holds what is on its way, or else what is stored.
SettingsTrue ==
  at # None /\ at \notin excused /\ ~mixed /\ settings # None =>
    /\ \A c \in Calls : Unserved(c, "saveSettings") => call[c].id = settings.id
    /\ (\A c \in Calls : ~Unserved(c, "saveSettings")) => settings.id = settingsRow[at]

HookTrue ==
  at # None /\ at \notin excused /\ ~mixed /\ ~early /\ ~Pending(at, {"deleteWebhook"}) =>
    /\ \A c \in Calls : Unserved(c, "saveWebhook") => call[c].id = hookForm.id
    /\ (\A c \in Calls : ~Unserved(c, "saveWebhook")) /\ hookForm.id # None
         => hookRow[at].on /\ hookForm.id = hookRow[at].id
    /\ hookForm.id = None /\ hookForm.box # None => ~hookRow[at].on

\* Remove Webhook is offered for a form that is filled, and one write fills it.
HookFilled ==
  /\ webhook => hookForm.id # None
  /\ hookForm.id # None => hookForm.box = hookForm.id

\* A removal fails only when it is lost, and until it is answered nothing else is
\* stored.
DeletesFail ==
  \A c \in Calls : call[c].kind = "deleteWebhook" /\ call[c].answer # None =>
    call[c].name \in excused \/ (~Failed(c) /\ ~hookRow[call[c].name].on)

\* Only a new component forgets that its webhook form was used early.
LEMMA EarlyStays ==
  ASSUME [Next]_vars, ~\E c \in Calls, n \in Names : Open(c, n)
  PROVE  early => early'
<1>1. ASSUME NEW c \in Calls, User(c)
      PROVE  early => early'
  BY <1>1 DEF User, Move, SaveSettings, SaveWebhook, DeleteWebhook, historyVars
<1>2. CASE EditSettings \/ EditWebhook
  BY <1>2 DEF EditSettings, EditWebhook, historyVars
<1>3. QED
  BY <1>1, <1>2, ServerFrame, AnswerFrame, RestFrame DEF Next

LEMMA LoadingStep ==
  ASSUME TypeInv, OwnInv, OneLoad, Loading, [Next]_vars
  PROVE  Loading'
<1>1. ASSUME NEW c \in Calls, NEW n \in Names, Open(c, n)
      PROVE  Loading'
  <2>1. /\ Sends(c, "load", n, None, None) /\ hookForm' = Blank /\ ~webhook'
        /\ \A d \in Calls : ~call[d].live
    BY <1>1, UserSends DEF Open, OwnInv, LiveIsHere
  <2>2. QED
    BY <2>1 DEF Loading, Sends
<1>2. ASSUME NEW c \in Calls, NEW n \in Names, Move(c, n)
      PROVE  Loading'
  BY <1>2 DEF Move, Loading
<1>3. ASSUME NEW c \in Calls, SaveSettings(c) \/ SaveWebhook(c) \/ DeleteWebhook(c)
      PROVE  Loading'
  <2>1. /\ \E f : \E k \in Writes, i \in {None, NewId} : Sends(c, k, at, f, i)
        /\ mixed' = mixed /\ "load" \notin Writes /\ at' = at /\ (early => early')
    <3>1. mixed' = mixed /\ at' = at
      BY <1>3 DEF SaveSettings, SaveWebhook, DeleteWebhook, pageVars, historyVars
    <3>2. early => early'
      BY <1>3 DEF SaveSettings, SaveWebhook, DeleteWebhook, historyVars
    <3>3. \E f : \E k \in Writes, i \in {None, NewId} : Sends(c, k, at, f, i)
      BY <1>3, UserSends DEF Writes
    <3>4. "load" \notin Writes
      BY DEF Writes
    <3>5. QED
      BY <3>1, <3>2, <3>3, <3>4
  <2>2. ASSUME NEW d \in Calls, call[d].live, call[d].kind = "load", ~mixed, ~early'
        PROVE  FALSE
    <3>1. CASE SaveSettings(c)
      BY <2>2, <3>1 DEF SaveSettings, OneLoad
    <3>2. CASE SaveWebhook(c)
      BY <2>2, <3>2 DEF SaveWebhook, Pending, OwnInv, LiveIsHere
    <3>3. CASE DeleteWebhook(c)
      BY <2>1, <2>2, <3>3 DEF DeleteWebhook, Loading
    <3>4. QED
      BY <1>3, <3>1, <3>2, <3>3
  <2>3. QED
    BY <2>1, <2>2 DEF Loading, Sends
<1>4. CASE ~\E c \in Calls : User(c)
  <2>1. /\ mixed' = mixed /\ (early => early')
        /\ \A d \in Calls : /\ call'[d].live => call[d].live
                            /\ call'[d].live => call'[d].kind = call[d].kind
    <3>1. mixed' = mixed /\ (early => early')
      BY <1>4, SettingsStay, EarlyStays DEF User
    <3>2. QED
      BY <1>4, <3>1, KeptCalls DEF Kept
  <2>2. CASE UNCHANGED <<hookForm, webhook>>
    BY <2>1, <2>2 DEF Loading
  <2>3. ASSUME NEW c \in Calls, Loaded(c) \/ DeleteAnswered(c)
        PROVE  Loading'
    <3>1. call[c].live /\ call[c].kind \in {"load", "deleteWebhook"} /\ ~call'[c].live
      BY <2>3, ReturnedCall DEF Loaded, DeleteAnswered, Answered, Returns, TypeInv
    <3>2. QED
      BY <2>1, <3>1 DEF Loading
  <2>4. CASE EditWebhook
    <3>1. ~early' => \A d \in Calls : ~(call[d].live /\ call[d].kind = "load" /\ ~mixed)
      BY <2>4 DEF EditWebhook, Pending, OwnInv, LiveIsHere
    <3>2. QED
      BY <2>1, <3>1 DEF Loading
  <2>5. UNCHANGED <<hookForm, webhook>> \/ EditWebhook
          \/ \E c \in Calls : Loaded(c) \/ DeleteAnswered(c)
    BY <1>4, ServerFrame, AnswerFrame, RestFrame DEF Next, EditSettings
  <2>6. QED
    BY <2>2, <2>3, <2>4, <2>5
<1>5. QED
  BY <1>1, <1>2, <1>3, <1>4 DEF User

\* A load changes only as one of its parts is served.
LEMMA LoadsKept ==
  ASSUME TypeInv, [Next]_vars, ~\E c \in Calls : User(c),
         ~\E c \in Calls, part \in Parts : ServeRead(c, part)
  PROVE  \A d \in Calls : call'[d].kind = "load" =>
           /\ SameRequest(call'[d], call[d]) /\ call'[d].answer = call[d].answer
           /\ call'[d].live => call[d].live
<1>1. ASSUME NEW c \in Calls, Resume(c)
      PROVE  Returns(c)
  BY <1>1, ReturnedCall DEF Resume, Loaded, SaveAnswered, DeleteAnswered, Discard, TypeInv
<1>2. ASSUME NEW c \in Calls, Serve(c) \/ Lose(c)
      PROVE  call[c].kind \in Writes /\ \E a : Replies(c, a)
  BY <1>2, RepliedCall DEF Serve, ServeWrite, RefuseBlank, Lose, Writes, TypeInv
<1>3. Leave => Leaves
  BY LeftCalls DEF TypeInv
<1>4. EditSettings \/ EditWebhook => call' = call
  BY DEF EditSettings, EditWebhook
<1>5. "load" \notin Writes
  BY DEF Writes
<1>6. ASSUME NEW c \in Calls, NEW d \in Calls, call'[d].kind = "load",
             Resume(c) \/ Serve(c) \/ Lose(c)
      PROVE  call'[d] = call[d]
  <2>1. Returns(c) \/ (call[c].kind \in Writes /\ \E a : Replies(c, a))
    BY <1>1, <1>2, <1>6
  <2>2. c # d
    BY <1>5, <1>6, <2>1 DEF Returns, Replies, SameRequest
  <2>3. QED
    BY <2>1, <2>2 DEF Returns, Replies
<1>7. CASE Leave
  BY <1>3, <1>7 DEF Leaves, SameRequest
<1>8. CASE MsgTimer \/ UNCHANGED vars \/ (\E n \in Names : Others(n)) \/ EditSettings \/ EditWebhook
  BY <1>4, <1>8 DEF MsgTimer, vars, Others, SameRequest
<1>9. QED
  BY <1>6, <1>7, <1>8 DEF Next, SameRequest

\* Someone else's write excuses its name and leaves the other rows alone.
LEMMA OthersRows ==
  ASSUME TypeInv, NEW m \in Names, Others(m)
  PROVE  /\ m \in excused'
         /\ \A n \in Names \ {m} : settingsRow'[n] = settingsRow[n] /\ hookRow'[n] = hookRow[n]
BY DEF Others, Excuse, TypeInv, TypeOK

LEMMA ReadsStep ==
  ASSUME TypeInv, OwnInv, OneLoad, SaveInv, Loading, ReadsTrue, [Next]_vars
  PROVE  ReadsTrue'
<1>1. ASSUME NEW c \in Calls, User(c)
      PROVE  ReadsTrue'
  <2>1. UNCHANGED <<settingsRow, hookRow>> /\ excused \subseteq excused'
    BY <1>1, ExcusedGrow
    DEF User, Open, Move, SaveSettings, SaveWebhook, DeleteWebhook, rowVars
  <2>2. \E k, n, f, i : Sends(c, k, n, f, i)
    BY <1>1, UserSends DEF User
  <2>3. \A d \in Calls : \/ call'[d] = call[d]
                         \/ /\ call'[d].read = {} /\ call'[d].hook = None
                            /\ call'[d].answer = None
    BY <2>2 DEF Sends
  <2>4. CASE \E n \in Names : Open(c, n) \/ Move(c, n)
    <3>1. mixed' \/ \A d \in Calls : ~call[d].live
      BY <2>4 DEF Open, Move, OwnInv, LiveIsHere
    <3>2. QED
      BY <2>3, <3>1 DEF ReadsTrue
  <2>5. CASE SaveSettings(c) \/ SaveWebhook(c) \/ DeleteWebhook(c)
    <3>1. at' = at /\ mixed' = mixed
      BY <2>5 DEF SaveSettings, SaveWebhook, DeleteWebhook, pageVars, historyVars
    <3>2. early => early'
      BY <2>5 DEF SaveSettings, SaveWebhook, DeleteWebhook, historyVars
    <3>3. QED
      BY <2>1, <2>3, <3>1, <3>2 DEF ReadsTrue, StoredHook
  <2>6. QED
    BY <1>1, <2>4, <2>5 DEF User
<1>2. ASSUME NEW c \in Calls, NEW part \in Parts, ServeRead(c, part)
      PROVE  ReadsTrue'
  <2>1. /\ Reads(c, part) /\ call[c].kind = "load" /\ part \notin call[c].read
        /\ UNCHANGED <<settingsRow, hookRow, at, mixed, early, excused>>
    BY <1>2, ReadCall DEF ServeRead, rowVars, pageVars, historyVars, TypeInv
  <2>2. "webhook" \notin call'[c].read => call'[c].hook = None
    BY <2>1 DEF Reads, ReadsTrue
  <2>3. call'[c].live /\ ~mixed => call[c].live /\ call[c].name = at
    BY <2>1 DEF Reads, OwnInv, LiveIsHere
  <2>4. ASSUME call'[c].live, ~mixed, at \notin excused
        PROVE  /\ "settings" \in call'[c].read => call'[c].id = settingsRow[at]
               /\ "webhook" \in call'[c].read /\ ~early => call'[c].hook = StoredHook(at)
    BY <2>1, <2>3, <2>4 DEF Reads, ReadsTrue, StoredHook, Parts
  <2>5. StoredHook(at)' = StoredHook(at)
    BY <2>1 DEF StoredHook
  <2>6. \A d \in Calls \ {c} : call'[d] = call[d]
    BY <2>1 DEF Reads
  <2>7. call'[c].answer # None => call'[c].read = Parts
    BY <2>1 DEF Reads
  <2>8. QED
    BY <2>1, <2>2, <2>4, <2>5, <2>6, <2>7 DEF ReadsTrue
<1>3. CASE ~\E c \in Calls : User(c) \/ \E part \in Parts : ServeRead(c, part)
  <2>1. /\ \A d \in Calls : call'[d].kind = "load" =>
             /\ call[d].kind = "load" /\ call'[d].read = call[d].read /\ call'[d].id = call[d].id
             /\ call'[d].hook = call[d].hook /\ call'[d].answer = call[d].answer
             /\ call'[d].live => call[d].live
        /\ mixed' = mixed /\ (early => early') /\ excused \subseteq excused'
    <3>1. mixed' = mixed /\ (early => early') /\ excused \subseteq excused'
      BY <1>3, SettingsStay, EarlyStays, ExcusedGrow DEF User
    <3>2. QED
      BY <1>3, <3>1, LoadsKept DEF SameRequest
  <2>2. CASE Leave
    BY <2>1, <2>2, LeftCalls DEF Leaves, ReadsTrue, TypeInv
  <2>3. CASE at' = at
    <3>1. ASSUME NEW d \in Calls, call[d].kind = "load", call[d].live, ~mixed, at \notin excused'
          PROVE  settingsRow'[at] = settingsRow[at] /\ (~early => hookRow'[at] = hookRow[at])
      <4>1. at \in Names /\ at \notin excused
        BY <2>1, <3>1 DEF OwnInv, LiveIsHere, TypeInv, TypeOK
      <4>2. ASSUME NEW w \in Calls, ServeWrite(w)
            PROVE  settingsRow'[at] = settingsRow[at] /\ (~early => hookRow'[at] = hookRow[at])
        <5>1. call[w].kind \in Writes /\ "load" \notin Writes
          BY <4>2, ServedRow DEF Writes
        <5>2. call[w].name = at => call[w].live
          BY <4>1, <5>1 DEF SaveInv, LeftExcused
        <5>3. call[w].live => call[w].kind # "saveSettings" /\ early
          BY <3>1, <5>1 DEF OneLoad, Loading
        <5>4. QED
          BY <4>1, <4>2, <5>2, <5>3, ServedRow
      <4>3. ASSUME NEW m \in Names, Others(m)
            PROVE  settingsRow'[at] = settingsRow[at] /\ hookRow'[at] = hookRow[at]
        BY <3>1, <4>1, <4>3, OthersRows
      <4>4. QED
        BY <4>2, <4>3, RowsStay
    <3>2. QED
      BY <2>1, <2>3, <3>1 DEF ReadsTrue, StoredHook
  <2>4. QED
    BY <1>3, <2>2, <2>3, ServerFrame, AnswerFrame, RestFrame DEF Next, EditSettings, EditWebhook
<1>4. QED
  BY <1>1, <1>2, <1>3

\* A write to a name that is not excused stays on its way until it is served.
LEMMA UnservedKept ==
  ASSUME TypeInv, [Next]_vars, ~\E c \in Calls : User(c), at' = at, at \notin excused',
         NEW k \in Writes, NEW d \in Calls
  PROVE  /\ Unserved(d, k)' => Unserved(d, k) /\ call'[d].id = call[d].id
         /\ Unserved(d, k) /\ ~ServeWrite(d) => Unserved(d, k)'
<1>1. k # "none" /\ k # "load"
  BY DEF Writes
<1>2. Unserved(d, k)' => Unserved(d, k) /\ call'[d].id = call[d].id
  BY <1>1, KeptCalls DEF Kept, Unserved
<1>3. ASSUME Unserved(d, k), ~ServeWrite(d)
      PROVE  Unserved(d, k)'
  <2>1. ASSUME NEW c \in Calls, Serve(c) \/ Lose(c)
        PROVE  call'[d] = call[d]
    <3>1. /\ \/ \E a : Replies(c, a)
             \/ \E part \in Parts : Reads(c, part)
          /\ \/ ServeWrite(c)
             \/ call[c].kind = "load" \/ call[c].id = None \/ call[c].name \in excused'
      BY <2>1, RepliedCall, ReadCall DEF Serve, RefuseBlank, ServeRead, ServeWrite, Lose, Excuse, TypeInv
    <3>2. c # d
      BY <1>1, <1>3, <3>1 DEF Unserved
    <3>3. QED
      BY <3>1, <3>2 DEF Replies, Reads
  <2>2. ASSUME NEW c \in Calls, Resume(c)
        PROVE  call'[d] = call[d]
    <3>1. Returns(c) /\ call[c].answer # None
      BY <2>2, ReturnedCall
      DEF Resume, Loaded, SaveAnswered, DeleteAnswered, Discard, Answered, TypeInv
    <3>2. QED
      BY <1>3, <3>1 DEF Unserved, Returns
  <2>3. ~Leave
    BY DEF Leave
  <2>4. call'[d] = call[d]
    BY <2>1, <2>2, <2>3, RestFrame DEF Next, EditSettings, EditWebhook
  <2>5. QED
    BY <1>3, <2>4 DEF Unserved
<1>4. QED
  BY <1>2, <1>3

\* The step from a page that is not idle to one that is, as far as it concerns
\* the settings: they are the last thing served, or the thing just loaded.
LEMMA SettingsStep ==
  ASSUME TypeInv, OwnInv, OneLoad, SaveInv, ReadsTrue, SettingsTrue, [Next]_vars
  PROVE  SettingsTrue'
<1> DEFINE k == "saveSettings"
<1>1. k \in Writes /\ k \in Saves /\ k # "load" /\ k # "none" /\ excused \subseteq excused'
  BY ExcusedGrow DEF Writes, Saves
<1>2. SUFFICES ASSUME at' # None, at' \notin excused', ~mixed', settings' # None
               PROVE  /\ \A d \in Calls : Unserved(d, k)' => call'[d].id = settings'.id
                      /\ (\A d \in Calls : ~Unserved(d, k)') => settings'.id = settingsRow'[at']
  BY DEF SettingsTrue
<1>3. ASSUME NEW c \in Calls, SaveSettings(c)
      PROVE  /\ \A d \in Calls : Unserved(d, k)' => call'[d].id = settings'.id
             /\ \E d \in Calls : Unserved(d, k)'
  <2>1. /\ Sends(c, k, at, settings.of, NewId) /\ at' = at /\ ~saving /\ settings \in Forms
        /\ settings' = [settings EXCEPT !.id = NewId, !.edited = FALSE]
    BY <1>3, UserSends DEF SaveSettings, TypeInv, TypeOK
  <2>2. settings'.id = NewId /\ NewId # None
    BY <2>1, FormFields, Counts, DetailAssumption DEF TypeInv
  <2>3. \A d \in Calls : ~(call[d].kind = k /\ call[d].name = at)
    BY <1>1, <1>2, <2>1 DEF SaveInv, OneSave, LeftExcused
  <2>4. QED
    BY <2>1, <2>2, <2>3 DEF Unserved, Sends
<1>4. ASSUME NEW c \in Calls, SaveWebhook(c) \/ DeleteWebhook(c)
      PROVE  /\ \A d \in Calls : Unserved(d, k)' => call'[d].id = settings'.id
             /\ (\A d \in Calls : ~Unserved(d, k)') => settings'.id = settingsRow'[at']
  <2>1. UNCHANGED <<settingsRow, settings, at, mixed>> /\ call[c].kind # k
    BY <1>4 DEF SaveWebhook, DeleteWebhook, rowVars, pageVars, formVars, Free, NoCall
  <2>2. \E n, f, i : Sends(c, "saveWebhook", n, f, i) \/ Sends(c, "deleteWebhook", n, f, i)
    BY <1>4, UserSends
  <2>3. \A d \in Calls : /\ Unserved(d, k)' <=> Unserved(d, k)
                         /\ Unserved(d, k) => call'[d].id = call[d].id
    BY <2>1, <2>2 DEF Unserved, Sends
  <2>4. QED
    BY <1>1, <1>2, <2>1, <2>3 DEF SettingsTrue
<1>5. CASE ~\E c \in Calls : User(c)
  <2>1. at' = at /\ mixed' = mixed
    BY <1>2, <1>5, ServerFrame, AnswerFrame, RestFrame
    DEF Next, EditSettings, EditWebhook, Leave, historyVars
  <2>2. /\ at \in Names /\ at \notin excused'
        /\ \A d \in Calls : /\ Unserved(d, k)' => Unserved(d, k) /\ call'[d].id = call[d].id
                            /\ Unserved(d, k) /\ ~ServeWrite(d) => Unserved(d, k)'
    BY <1>1, <1>2, <1>5, <2>1, UnservedKept DEF TypeInv, TypeOK
  <2>3. ASSUME NEW c \in Calls, Loaded(c)
        PROVE  settings'.id = settingsRow'[at] /\ \A d \in Calls : ~Unserved(d, k)
    <3>1. /\ call[c].kind = "load" /\ call[c].live /\ call[c].answer # None
          /\ settings' = settings \/ settings' = Form(call[c].name, call[c].id)
          /\ settingsRow' = settingsRow
      BY <2>3 DEF Loaded, Answered, rowVars
    <3>2. /\ settings = None
          /\ \A d \in Calls : call[d].live /\ call[d].kind = k => d = c
      BY <1>2, <2>1, <3>1 DEF OneLoad
    <3>3. \A d \in Calls : ~Unserved(d, k)
      BY <1>1, <2>2, <3>1, <3>2 DEF Unserved, SaveInv, LeftExcused
    <3>4. call[c].id = settingsRow[at]
      BY <1>1, <1>2, <2>1, <2>2, <3>1 DEF ReadsTrue, Parts
    <3>5. QED
      BY <1>2, <3>1, <3>2, <3>3, <3>4 DEF Form
  <2>4. CASE ~\E c \in Calls : Loaded(c)
    <3>1. settings # None /\ settings'.id = settings.id
      <4>1. CASE settings' = settings
        BY <1>2, <4>1
      <4>2. CASE EditSettings
        BY <4>2, FormFields DEF EditSettings, TypeInv, TypeOK
      <4>3. QED
        BY <1>5, <2>4, <4>1, <4>2, SettingsStay
    <3>2. \A d \in Calls : Unserved(d, k)' => call'[d].id = settings'.id
      BY <1>1, <1>2, <2>1, <2>2, <3>1 DEF SettingsTrue
    <3>3. ASSUME NEW w \in Calls, ServeWrite(w)
          PROVE  (\A d \in Calls : ~Unserved(d, k)') => settings'.id = settingsRow'[at]
      <4>1. CASE Unserved(w, k)
        <5>1. settingsRow'[at] = call[w].id
          BY <2>2, <3>3, <4>1, ServedRow DEF Unserved
        <5>2. QED
          BY <1>1, <1>2, <2>1, <3>1, <4>1, <5>1 DEF SettingsTrue
      <4>2. CASE ~Unserved(w, k)
        <5>1. settingsRow'[at] = settingsRow[at]
          BY <2>2, <3>3, <4>2, ServedRow DEF Unserved
        <5>2. \A d \in Calls : Unserved(d, k) => Unserved(d, k)'
          BY <2>1, <3>3, <4>2, ServedRow DEF Unserved, Replies
        <5>3. QED
          BY <1>1, <1>2, <2>1, <3>1, <5>1, <5>2 DEF SettingsTrue
      <4>3. QED
        BY <4>1, <4>2
    <3>4. CASE ~\E w \in Calls : ServeWrite(w)
      <4>1. settingsRow'[at] = settingsRow[at]
        BY <2>2, <3>4, RowsStay, OthersRows
      <4>2. QED
        BY <1>1, <1>2, <2>1, <2>2, <3>1, <3>2, <3>4, <4>1 DEF SettingsTrue
    <3>5. QED
      BY <2>1, <3>2, <3>3, <3>4
  <2>5. QED
    BY <2>1, <2>2, <2>3, <2>4
<1>6. ASSUME NEW c \in Calls, NEW n \in Names, Open(c, n) \/ Move(c, n)
      PROVE  FALSE
  BY <1>2, <1>6 DEF Open, Move
<1>7. QED
  BY <1>3, <1>4, <1>5, <1>6 DEF User

\* A removal under way on an idle name ends with the answer that blanks the form.
LEMMA RemovalStays ==
  ASSUME TypeInv, SaveInv, [Next]_vars, ~\E c \in Calls : User(c),
         ~\E c \in Calls : DeleteAnswered(c), at' = at, at \notin excused,
         Pending(at, {"deleteWebhook"})
  PROVE  Pending(at, {"deleteWebhook"})'
<1>1. PICK d \in Calls : call[d].kind = "deleteWebhook" /\ call[d].name = at
  BY DEF Pending
<1>2. call[d].live
  BY <1>1 DEF SaveInv, LeftExcused, Writes
<1>3. call'[d].kind = call[d].kind /\ call'[d].name = call[d].name
  <2>1. ASSUME NEW c \in Calls, Serve(c) \/ Lose(c)
        PROVE  call'[d].kind = call[d].kind /\ call'[d].name = call[d].name
    <3>1. (\E a : Replies(c, a)) \/ (\E part \in Parts : Reads(c, part) /\ call[c].kind = "load")
      BY <2>1, RepliedCall, ReadCall DEF Serve, RefuseBlank, ServeRead, ServeWrite, Lose, TypeInv
    <3>2. QED
      BY <3>1 DEF Replies, Reads, SameRequest
  <2>2. ASSUME NEW c \in Calls, Resume(c)
        PROVE  call'[d] = call[d]
    <3>1. Returns(c) /\ c # d
      BY <1>1, <1>2, <2>2, ReturnedCall
      DEF Resume, Loaded, SaveAnswered, Discard, Answered, TypeInv
    <3>2. QED
      BY <3>1 DEF Returns
  <2>3. ~Leave
    BY DEF Leave
  <2>4. QED
    BY <2>1, <2>2, <2>3, RestFrame DEF Next, EditSettings, EditWebhook
<1>4. QED
  BY <1>1, <1>3 DEF Pending

\* The steps that fill or clear the webhook form.
LEMMA HookFormStays ==
  ASSUME TypeInv, [Next]_vars, ~\E c \in Calls : User(c)
  PROVE  \/ UNCHANGED <<hookForm, webhook>>
         \/ hookForm'.id = hookForm.id /\ hookForm'.box = hookForm.box /\ webhook' = webhook
         \/ \E c \in Calls : /\ Loaded(c) /\ call[c].hook # None /\ webhook' = TRUE
                             /\ hookForm'.id = call[c].hook /\ hookForm'.box = call[c].hook
         \/ \E c \in Calls : DeleteAnswered(c) /\ hookForm'.id = None /\ webhook' = FALSE
<1>1. ASSUME NEW c \in Calls, Loaded(c)
      PROVE  \/ UNCHANGED <<hookForm, webhook>>
             \/ /\ call[c].hook # None /\ webhook' = TRUE
                /\ hookForm'.id = call[c].hook /\ hookForm'.box = call[c].hook
  BY <1>1, HookFormFields DEF Loaded
<1>2. ASSUME NEW c \in Calls, DeleteAnswered(c)
      PROVE  \/ UNCHANGED <<hookForm, webhook>>
             \/ hookForm'.id = None /\ webhook' = FALSE
  BY <1>2, BlankFields DEF DeleteAnswered
<1>3. EditWebhook => hookForm'.id = hookForm.id /\ hookForm'.box = hookForm.box /\ webhook' = webhook
  BY DEF EditWebhook, HookForms, TypeInv, TypeOK
<1>4. EditSettings => UNCHANGED <<hookForm, webhook>>
  BY DEF EditSettings
<1>5. QED
  BY <1>1, <1>2, <1>3, <1>4, ServerFrame, AnswerFrame, RestFrame DEF Next

LEMMA HookStep ==
  ASSUME TypeInv, OwnInv, SaveInv, Loading, ReadsTrue, DeletesFail, HookTrue, [Next]_vars
  PROVE  HookTrue'
<1> DEFINE k == "saveWebhook"
<1>1. k \in Writes /\ k \in Saves /\ k # "load" /\ k # "none" /\ excused \subseteq excused'
  BY ExcusedGrow DEF Writes, Saves
<1>2. SUFFICES ASSUME at' # None, at' \notin excused', ~mixed', ~early',
                      ~Pending(at, {"deleteWebhook"})'
               PROVE  /\ \A d \in Calls : Unserved(d, k)' => call'[d].id = hookForm'.id
                      /\ (\A d \in Calls : ~Unserved(d, k)') /\ hookForm'.id # None
                           => hookRow'[at'].on /\ hookForm'.id = hookRow'[at'].id
                      /\ hookForm'.id = None /\ hookForm'.box # None => ~hookRow'[at'].on
  BY DEF HookTrue
<1>3. ASSUME NEW c \in Calls, SaveWebhook(c), hookForm.url
      PROVE  /\ \A d \in Calls : Unserved(d, k)' => call'[d].id = hookForm'.id
             /\ hookForm'.id # None /\ \E d \in Calls : Unserved(d, k)'
  <2>1. /\ at' = at /\ ~saving /\ Sends(c, k, at, hookForm.of, NewId)
        /\ hookForm' = [hookForm EXCEPT !.id = NewId, !.box = NewId, !.edited = FALSE]
    BY <1>3, UserSends DEF SaveWebhook
  <2>2. hookForm \in HookForms /\ NewId # None
    BY Counts, DetailAssumption DEF TypeInv, TypeOK
  <2>3. hookForm'.id = NewId
    BY <2>1, <2>2 DEF HookForms
  <2>4. \A d \in Calls : ~(call[d].kind = k /\ call[d].name = at)
    BY <1>1, <1>2, <2>1 DEF SaveInv, OneSave, LeftExcused
  <2>5. QED
    BY <2>1, <2>2, <2>3, <2>4 DEF Unserved, Sends
<1>4. ASSUME NEW c \in Calls, SaveSettings(c) \/ (SaveWebhook(c) /\ ~hookForm.url)
      PROVE  /\ \A d \in Calls : Unserved(d, k)' => call'[d].id = hookForm'.id
             /\ (\A d \in Calls : ~Unserved(d, k)') /\ hookForm'.id # None
                  => hookRow'[at'].on /\ hookForm'.id = hookRow'[at'].id
             /\ hookForm'.id = None /\ hookForm'.box # None => ~hookRow'[at'].on
  <2>1. /\ UNCHANGED <<hookRow, hookForm, at, mixed>> /\ (early => early')
        /\ call[c].kind = "none"
        /\ \/ Sends(c, "saveSettings", at, settings.of, NewId)
           \/ Sends(c, k, at, hookForm.of, None)
    <3>1. /\ UNCHANGED <<hookRow, hookForm, at, mixed>> /\ (early => early')
          /\ call[c] = NoCall
      <4>1. CASE SaveSettings(c)
        BY <4>1 DEF SaveSettings, rowVars, historyVars, Free
      <4>2. CASE SaveWebhook(c) /\ ~hookForm.url
        BY <4>2 DEF SaveWebhook, rowVars, Free
      <4>3. QED
        BY <1>4, <4>1, <4>2
    <3>2. QED
      BY <1>4, <3>1, UserSends DEF NoCall
  <2>2. /\ \A d \in Calls : /\ Unserved(d, k)' <=> Unserved(d, k)
                            /\ Unserved(d, k) => call'[d].id = call[d].id
        /\ ~Pending(at, {"deleteWebhook"})
    BY <1>2, <2>1 DEF Unserved, Sends, Pending
  <2>3. QED
    BY <1>1, <1>2, <2>1, <2>2 DEF HookTrue
<1>5. ASSUME NEW c \in Calls, NEW n \in Names, Open(c, n) \/ Move(c, n)
      PROVE  hookForm'.id = None /\ hookForm'.box = None /\ \A d \in Calls : ~Unserved(d, k)'
  <2>1. /\ Open(c, n) /\ at' = n /\ hookForm' = Blank
        /\ Sends(c, "load", n, None, None) /\ \A d \in Calls : ~call[d].live
    BY <1>2, <1>5, UserSends DEF Open, Move, OwnInv, LiveIsHere
  <2>2. \A d \in Calls : ~(call[d].kind = k /\ call[d].name = n)
    BY <1>1, <1>2, <1>5, <2>1, LeftWritingExcused
  <2>3. QED
    BY <1>1, <2>1, <2>2, HookFormFields DEF Unserved, Sends
<1>6. ASSUME NEW c \in Calls, DeleteWebhook(c)
      PROVE  FALSE
  <2>1. Sends(c, "deleteWebhook", at, at, NewId) /\ at' = at
    BY <1>6, UserSends DEF DeleteWebhook, pageVars
  <2>2. QED
    BY <1>2, <2>1 DEF Sends, Pending
<1>7. CASE ~\E c \in Calls : User(c)
  <2>1. at' = at /\ mixed' = mixed /\ ~early
    <3>1. at' = at /\ mixed' = mixed
      BY <1>2, <1>7, ServerFrame, AnswerFrame, RestFrame
      DEF Next, EditSettings, EditWebhook, Leave, historyVars
    <3>2. QED
      BY <1>2, <1>7, <3>1, EarlyStays DEF User
  <2>2. /\ at \in Names /\ at \notin excused' /\ at \notin excused
        /\ \A d \in Calls : /\ Unserved(d, k)' => Unserved(d, k) /\ call'[d].id = call[d].id
                            /\ Unserved(d, k) /\ ~ServeWrite(d) => Unserved(d, k)'
    BY <1>1, <1>2, <1>7, <2>1, UnservedKept DEF TypeInv, TypeOK
  <2>3. ASSUME NEW c \in Calls, Loaded(c), call[c].hook # None, hookForm'.id = call[c].hook
        PROVE  /\ \A d \in Calls : ~Unserved(d, k)
               /\ hookRow'[at].on /\ hookForm'.id = hookRow'[at].id
    <3>1. /\ call[c].kind = "load" /\ call[c].live /\ call[c].answer # None
          /\ hookRow' = hookRow
      BY <2>3 DEF Loaded, Answered, rowVars
    <3>2. \A d \in Calls : call[d].live => d = c
      BY <1>2, <2>1, <3>1 DEF Loading
    <3>3. \A d \in Calls : ~Unserved(d, k)
      BY <1>1, <2>2, <3>1, <3>2 DEF Unserved, SaveInv, LeftExcused
    <3>4. call[c].hook = StoredHook(at)
      BY <1>1, <1>2, <2>1, <2>2, <3>1 DEF ReadsTrue, Parts
    <3>5. QED
      BY <2>3, <3>1, <3>3, <3>4 DEF StoredHook
  <2>4. ASSUME NEW c \in Calls, DeleteAnswered(c)
        PROVE  /\ hookForm'.id = None /\ ~hookRow'[at].on
               /\ \A d \in Calls : ~Unserved(d, k)
    <3>1. /\ call[c].kind = "deleteWebhook" /\ call[c].live /\ call[c].answer # None
          /\ ~Failed(c) => hookForm' = [Blank EXCEPT !.box = hookForm.box]
          /\ hookRow' = hookRow
      BY <2>4 DEF DeleteAnswered, Answered, rowVars
    <3>2. call[c].name = at
      BY <1>2, <2>1, <3>1 DEF OwnInv, LiveIsHere
    <3>3. ~Failed(c) /\ ~hookRow[at].on
      BY <2>2, <3>1, <3>2 DEF DeletesFail
    <3>4. \A d \in Calls : ~Unserved(d, k)
      BY <2>2, <3>1, <3>2 DEF Unserved, SaveInv, OneWriter, HookWrites
    <3>5. QED
      BY <3>1, <3>3, <3>4, BlankFields
  <2>5. CASE /\ hookForm'.id = hookForm.id /\ hookForm'.box = hookForm.box
             /\ ~\E c \in Calls : DeleteAnswered(c)
    <3>1. ~Pending(at, {"deleteWebhook"})
      BY <1>2, <1>7, <2>1, <2>2, <2>5, RemovalStays
    <3>2. /\ \A d \in Calls : Unserved(d, k) => call[d].id = hookForm'.id
          /\ (\A d \in Calls : ~Unserved(d, k)) /\ hookForm'.id # None
               => hookRow[at].on /\ hookForm'.id = hookRow[at].id
          /\ hookForm'.id = None /\ hookForm'.box # None => ~hookRow[at].on
      BY <1>1, <1>2, <2>1, <2>2, <2>5, <3>1 DEF HookTrue
    <3>3. ASSUME NEW w \in Calls, ServeWrite(w)
          PROVE  /\ (\A d \in Calls : ~Unserved(d, k)') /\ hookForm'.id # None
                      => hookRow'[at].on /\ hookForm'.id = hookRow'[at].id
                 /\ hookForm'.id = None /\ hookForm'.box # None => ~hookRow'[at].on
      <4>1. CASE Unserved(w, k)
        BY <2>2, <3>2, <3>3, <4>1, ServedRow DEF Unserved, HookWrites
      <4>2. CASE ~Unserved(w, k)
        <5>1. call[w].kind \in HookWrites => call[w].name # at
          BY <3>1, <3>3, <4>2, ServedRow DEF Unserved, HookWrites, Pending
        <5>2. hookRow'[at] = hookRow[at]
          BY <2>2, <3>3, <5>1, ServedRow
        <5>3. \A d \in Calls : Unserved(d, k) => Unserved(d, k)'
          BY <2>1, <3>3, <4>2, ServedRow DEF Unserved, Replies
        <5>4. QED
          BY <3>2, <5>2, <5>3
      <4>3. QED
        BY <4>1, <4>2
    <3>4. CASE ~\E w \in Calls : ServeWrite(w)
      <4>1. hookRow'[at] = hookRow[at]
        BY <2>2, <3>4, RowsStay, OthersRows
      <4>2. QED
        BY <2>1, <2>2, <3>2, <3>4, <4>1
    <3>5. QED
      BY <2>1, <2>2, <3>2, <3>3, <3>4
  <2>6. QED
    BY <1>7, <2>1, <2>2, <2>3, <2>4, <2>5, HookFormStays
<1>8. QED
  BY <1>3, <1>4, <1>5, <1>6, <1>7 DEF User

LEMMA HookFilledStep ==
  ASSUME TypeInv, HookFilled, [Next]_vars
  PROVE  HookFilled'
<1>1. ASSUME NEW c \in Calls, User(c)
      PROVE  HookFilled'
  <2>1. CASE SaveWebhook(c)
    <3>1. /\ webhook' = webhook
          /\ \/ hookForm' = hookForm
             \/ hookForm' = [hookForm EXCEPT !.id = NewId, !.box = NewId, !.edited = FALSE]
      BY <2>1 DEF SaveWebhook
    <3>2. hookForm \in HookForms /\ NewId # None
      BY Counts, DetailAssumption DEF TypeInv, TypeOK
    <3>3. CASE hookForm' = hookForm
      BY <3>1, <3>3 DEF HookFilled
    <3>4. CASE hookForm' = [hookForm EXCEPT !.id = NewId, !.box = NewId, !.edited = FALSE]
      <4>1. hookForm'.id = NewId /\ hookForm'.box = NewId
        BY <3>2, <3>4 DEF HookForms
      <4>2. QED
        BY <3>2, <4>1 DEF HookFilled
    <3>5. QED
      BY <3>1, <3>3, <3>4
  <2>2. CASE ~SaveWebhook(c)
    <3>1. (hookForm' = Blank /\ ~webhook') \/ UNCHANGED <<hookForm, webhook>>
      BY <1>1, <2>2 DEF User, Open, Move, SaveSettings, DeleteWebhook, pageVars, formVars
    <3>2. QED
      BY <3>1, HookFormFields DEF HookFilled
  <2>3. QED
    BY <2>1, <2>2
<1>2. CASE ~\E c \in Calls : User(c)
  <2>1. CASE UNCHANGED <<hookForm, webhook>>
    BY <2>1 DEF HookFilled
  <2>2. CASE hookForm'.id = hookForm.id /\ hookForm'.box = hookForm.box /\ webhook' = webhook
    BY <2>2 DEF HookFilled
  <2>3. ASSUME NEW c \in Calls, call[c].hook # None, hookForm'.id = call[c].hook,
               hookForm'.box = call[c].hook
        PROVE  HookFilled'
    BY <2>3 DEF HookFilled
  <2>4. CASE hookForm'.id = None /\ webhook' = FALSE
    BY <2>4 DEF HookFilled
  <2>5. QED
    BY <1>2, <2>1, <2>2, <2>3, <2>4, HookFormStays
<1>3. QED
  BY <1>1, <1>2

LEMMA DeletesStep ==
  ASSUME TypeInv, SaveInv, DeletesFail, [Next]_vars
  PROVE  DeletesFail'
<1> DEFINE Done(d) == call[d].kind = "deleteWebhook" /\ call[d].answer # None
           Good(d) == call[d].name \in excused \/ (~Failed(d) /\ ~hookRow[call[d].name].on)
<1>1. excused \subseteq excused'
  BY ExcusedGrow
<1>2. ASSUME NEW d \in Calls, Done(d), call'[d].name = call[d].name,
             call'[d].answer = call[d].answer
      PROVE  Good(d)'
  <2>1. call[d].name \in Names /\ call[d].kind # "load"
    BY <1>2 DEF TypeInv, CallShape
  <2>2. CASE call[d].name \in excused'
    BY <1>2, <2>2
  <2>3. CASE call[d].name \notin excused'
    <3>1. call[d].name \notin excused /\ ~Failed(d) /\ ~hookRow[call[d].name].on
      BY <1>1, <1>2, <2>3 DEF DeletesFail
    <3>2. hookRow'[call[d].name] = hookRow[call[d].name]
      <4>1. ASSUME NEW w \in Calls, ServeWrite(w)
            PROVE  hookRow'[call[d].name] = hookRow[call[d].name]
        <5>1. call[w].answer = None /\ w # d
          BY <1>2, <4>1, ServedRow
        <5>2. ~(call[w].kind \in HookWrites /\ call[w].name = call[d].name)
          BY <1>2, <3>1, <5>1 DEF SaveInv, OneWriter, HookWrites
        <5>3. QED
          BY <2>1, <4>1, <5>2, ServedRow
      <4>2. QED
        BY <2>1, <2>3, <4>1, RowsStay, OthersRows
    <3>3. QED
      BY <1>2, <3>1, <3>2 DEF Failed
  <2>4. QED
    BY <2>2, <2>3
<1>3. ASSUME NEW d \in Calls, call'[d] = call[d] \/ ~Done(d)'
      PROVE  Done(d)' => Good(d)'
  BY <1>2, <1>3
<1>4. ASSUME NEW c \in Calls, User(c)
      PROVE  DeletesFail'
  <2>1. \E k, n, f, i : Sends(c, k, n, f, i)
    BY <1>4, UserSends DEF User
  <2>2. \A d \in Calls : call'[d] = call[d] \/ ~Done(d)'
    BY <2>1 DEF Sends
  <2>3. QED
    BY <1>3, <2>2 DEF DeletesFail
<1>5. ASSUME NEW c \in Calls, Serve(c) \/ Lose(c)
      PROVE  DeletesFail'
  <2>1. CASE ServeWrite(c)
    <3>1. /\ Replies(c, "ok") /\ call[c].name \in Names
          /\ call[c].kind = "deleteWebhook" => ~hookRow'[call[c].name].on
      BY <2>1, ServedRow DEF HookWrites
    <3>2. Done(c)' => Good(c)'
      BY <3>1 DEF Replies, SameRequest, Failed
    <3>3. \A d \in Calls \ {c} : call'[d] = call[d]
      BY <3>1 DEF Replies
    <3>4. QED
      BY <1>3, <3>2, <3>3 DEF DeletesFail
  <2>2. CASE RefuseBlank(c) \/ \E part \in Parts : ServeRead(c, part)
    <3>1. \/ Replies(c, "error") /\ call[c].kind = "saveWebhook"
          \/ \E part \in Parts : Reads(c, part)
      BY <2>2, RepliedCall, ReadCall DEF RefuseBlank, TypeInv
    <3>2. \A d \in Calls : call'[d] = call[d] \/ ~Done(d)'
      BY <3>1 DEF Replies, Reads, SameRequest
    <3>3. QED
      BY <1>3, <3>2 DEF DeletesFail
  <2>3. CASE Lose(c)
    <3>1. Replies(c, "error") /\ call[c].name \in excused'
      BY <2>3, RepliedCall DEF Lose, Excuse, TypeInv
    <3>2. Good(c)' /\ \A d \in Calls \ {c} : call'[d] = call[d]
      BY <3>1 DEF Replies, SameRequest
    <3>3. QED
      BY <1>3, <3>2 DEF DeletesFail
  <2>4. QED
    BY <1>5, <2>1, <2>2, <2>3 DEF Serve
<1>6. ASSUME NEW c \in Calls, Resume(c)
      PROVE  DeletesFail'
  <2>1. Returns(c)
    BY <1>6, ReturnedCall DEF Resume, Loaded, SaveAnswered, DeleteAnswered, Discard, TypeInv
  <2>2. \A d \in Calls : call'[d] = call[d] \/ ~Done(d)'
    BY <2>1 DEF Returns
  <2>3. QED
    BY <1>3, <2>2 DEF DeletesFail
<1>7. CASE Leave
  <2>1. ASSUME NEW d \in Calls, Done(d)'
        PROVE  Good(d)'
    <3>1. /\ Done(d) /\ call'[d].name = call[d].name
          /\ call'[d].answer = call[d].answer
      BY <1>7, <2>1, LeftCalls DEF Leaves, SameRequest, TypeInv
    <3>2. QED
      BY <1>2, <3>1
  <2>2. QED
    BY <2>1 DEF DeletesFail
<1>8. CASE EditSettings \/ EditWebhook \/ MsgTimer \/ UNCHANGED vars \/ \E n \in Names : Others(n)
  <2>1. call' = call
    BY <1>8 DEF EditSettings, EditWebhook, MsgTimer, Others, vars
  <2>2. QED
    BY <1>3, <2>1 DEF DeletesFail
<1>9. QED
  BY <1>4, <1>5, <1>6, <1>7, <1>8 DEF Next

PageInv == Loading /\ ReadsTrue /\ SettingsTrue /\ HookTrue /\ HookFilled /\ DeletesFail

LEMMA PageInvariant == Spec => []PageInv
<1>1. Init => PageInv
  BY DetailAssumption, HookFormFields
  DEF Init, NoCall, PageInv, Loading, ReadsTrue, SettingsTrue, HookTrue, HookFilled, DeletesFail
<1>2. TypeInv /\ OwnInv /\ OneLoad /\ SaveInv /\ PageInv /\ [Next]_vars => PageInv'
  BY LoadingStep, ReadsStep, SettingsStep, HookStep, HookFilledStep, DeletesStep DEF PageInv
<1>3. QED
  BY <1>1, <1>2, TypeInvariant, OwnInvariant, LoadInvariant, SaveInvariant, PTL DEF Spec

\* With nothing under way the forms show what is stored, for any number of
\* requests in any order: a load is answered before anything is saved, a form
\* holds the save that is on its way or else what is stored, and when only the
\* checkbox is left of a webhook, its removal was answered and nothing is stored.
THEOREM IdlePageShowsRow == Spec => []PageIsRow
<1>1. TypeInv /\ PageInv => PageIsRow
  <2> SUFFICES ASSUME TypeInv, PageInv, at # None, at \notin excused, ~mixed, ~early,
                      ~Pending(at, Kinds)
               PROVE  /\ settings # None => settings.id = settingsRow[at]
                      /\ hookForm.id # None =>
                           /\ hookRow[at].on /\ hookForm.id = hookRow[at].id
                           /\ hookForm.box = hookForm.id
                      /\ hookForm.id = None /\ hookForm.box # None => ~hookRow[at].on
                      /\ webhook => hookForm.id # None
    BY DEF PageIsRow
  <2>1. ~Pending(at, {"deleteWebhook"})
    BY DEF Pending, Kinds, Writes
  <2>2. \A c \in Calls : ~Unserved(c, "saveSettings") /\ ~Unserved(c, "saveWebhook")
    BY DEF Pending, Unserved, Kinds, Writes
  <2>3. QED
    BY <2>1, <2>2 DEF PageInv, SettingsTrue, HookTrue, HookFilled
<1>2. QED
  BY <1>1, TypeInvariant, PageInvariant, PTL

=============================================================================
