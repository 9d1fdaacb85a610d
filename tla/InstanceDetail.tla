---------------------------- MODULE InstanceDetail ----------------------------
(***************************************************************************)
(* The dashboard's page of one instance (web/src/pages/InstanceDetail.tsx) *)
(* over the settings and webhook endpoints: it loads what is stored, the   *)
(* user edits it, and Save sends all of the form back.                     *)
(*                                                                         *)
(* Contents are told apart by the click that wrote them: a row, an answer  *)
(* and a form hold the id of the write they come from (0: stored before).  *)
(* A handler runs until its next await; the rest of it is the action that  *)
(* takes the answer.  Requests in flight reach the server in any order.    *)
(***************************************************************************)
EXTENDS Integers, FiniteSets

CONSTANTS
  Names,       \* instance names
  Calls,       \* requests that can be in flight (bound)
  MaxClicks,   \* clicks and moves of the user (bound)
  MaxFaults,   \* requests that fail and writes by other clients (bound)
  Hooked,      \* names with a webhook stored at the start
  None

ASSUME DetailAssumption ==
  /\ IsFiniteSet(Calls)
  /\ MaxClicks \in Nat /\ MaxFaults \in Nat /\ Hooked \subseteq Names
  /\ None \notin Names \cup Calls \cup Int

MaxWrites == MaxClicks + MaxFaults
Ids == 0..MaxWrites

VARIABLES
  settingsRow,   \* the settings stored for each name
  hookRow,       \* the webhook stored for each name: [id, on]
  at,            \* the name in the page's URL, or None on another page
  settings,      \* the settings form: None or [of, id, edited]
  hookForm,      \* the webhook form: see Forms
  webhook,       \* is the component's webhook set (it offers Remove Webhook)
  saving, msg, timers,   \* msg: the notice shown, or "empty"
  call,          \* requests in flight
  clicks, faults,
  mixed, early, excused   \* history: see Conditions

rowVars == <<settingsRow, hookRow>>
formVars == <<settings, hookForm, webhook>>
msgVars == <<msg, timers>>
pageVars == <<at, formVars, saving, msgVars>>
boundVars == <<clicks, faults>>
historyVars == <<mixed, early, excused>>
vars == <<rowVars, pageVars, call, boundVars, historyVars>>

-----------------------------------------------------------------------------
(* Requests *)

\* What a load reads; the status badge is not followed.
Parts == {"settings", "webhook"}
Writes == {"saveSettings", "saveWebhook", "deleteWebhook"}
Kinds == Writes \cup {"load"}

\* id: what a write stores, or the settings a load has read; hook: the webhook it
\* has read; read: the parts of a load that are answered.
NoCall == [kind |-> "none", name |-> None, live |-> FALSE, of |-> None, id |-> None,
           hook |-> None, read |-> {}, answer |-> None]
Request(k, n, f, i) == [kind |-> k, name |-> n, live |-> TRUE, of |-> f, id |-> i,
                        hook |-> None, read |-> {}, answer |-> None]

Free(c) == call[c] = NoCall
Send(c, k, f, i) == call' = [call EXCEPT ![c] = Request(k, at, f, i)]
Return(c) == call' = [call EXCEPT ![c] = NoCall]
Answered(c, k) == call[c].kind = k /\ call[c].live /\ call[c].answer # None
Failed(c) == call[c].answer = "error"

Pending(n, kinds) == \E c \in Calls : call[c].kind \in kinds /\ call[c].name = n
Click == clicks < MaxClicks /\ clicks' = clicks + 1
NewId == clicks + faults + 1

(* Conditions.  mixed: this component has shown two instances, one after the   *)
(* other; early: the webhook form was used before the load was answered;       *)
(* excused: names with a write by someone else, a write that failed, or writes *)
(* of the page under way together (Remove is not disabled while saving, and a  *)
(* component knows nothing of the writes that one before it has under way).    *)
Excuse(n, cond) == excused' = IF cond THEN excused \cup {n} ELSE excused

\* A component that is gone still writes to n.
LeftWriting(n) ==
  \E c \in Calls : call[c].kind \in Writes /\ call[c].name = n /\ ~call[c].live

(* Forms.  of: the instance it was loaded from or typed for; id: the write whose *)
(* contents it shows, but for the user's edits.  The webhook form's id is that   *)
(* of its url and events, None when they are blank; box: the write whose enabled *)
(* its checkbox shows, None when it is as at first; url: there is a url.         *)
Form(n, i) == [of |-> n, id |-> i, edited |-> FALSE]
HookForm(n, i) == [of |-> n, id |-> i, box |-> i, url |-> i # None, edited |-> FALSE]
Blank == HookForm(None, None)

-----------------------------------------------------------------------------
(* Coming, going and loadAll *)

\* Mutant: the component of the last instance is used again.
OpenKeepsState(c, n) ==
  /\ at = None /\ Free(c) /\ Click
  /\ at' = n
  /\ saving' = FALSE /\ msg' = "empty" /\ timers' = 0
  /\ call' = [call EXCEPT ![c] = Request("load", n, None, None)]
  /\ mixed' = FALSE /\ early' = FALSE
  /\ Excuse(n, LeftWriting(n))
  /\ UNCHANGED <<rowVars, formVars, faults>>

\* A new component, from its initial state.
Open(c, n) ==
  /\ at = None /\ Free(c) /\ Click
  /\ at' = n
  /\ settings' = None /\ hookForm' = Blank /\ webhook' = FALSE
  /\ saving' = FALSE /\ msg' = "empty" /\ timers' = 0
  /\ call' = [call EXCEPT ![c] = Request("load", n, None, None)]
  /\ mixed' = FALSE /\ early' = FALSE
  /\ Excuse(n, LeftWriting(n))
  /\ UNCHANGED <<rowVars, faults>>

\* From one instance to another in the browser's history: the route is the same,
\* so the component and all its state stay, and the effect on [name] loads.
Move(c, n) ==
  /\ at \in Names \ {n} /\ Free(c) /\ Click
  /\ at' = n
  /\ call' = [call EXCEPT ![c] = Request("load", n, None, None)]
  /\ mixed' = TRUE
  /\ Excuse(n, LeftWriting(n))
  /\ UNCHANGED <<rowVars, formVars, saving, msgVars, faults, early>>

\* Answers to a component that is gone change nothing any more.
Leave ==
  /\ at # None
  /\ at' = None
  /\ call' = [c \in Calls |-> IF Free(c) THEN NoCall ELSE [call[c] EXCEPT !.live = FALSE]]
  /\ UNCHANGED <<rowVars, formVars, saving, msgVars, boundVars, historyVars>>

\* Promise.allSettled: the parts that failed leave what the form shows, and so
\* does a webhook that does not exist (404).
Loaded(c) ==
  LET n == call[c].name IN
  /\ Answered(c, "load")
  /\ \E failed \in SUBSET Parts :
       /\ failed # {} => faults < MaxFaults
       /\ faults' = IF failed = {} THEN faults ELSE faults + 1
       /\ settings' = IF "settings" \in failed THEN settings ELSE Form(n, call[c].id)
       /\ IF "webhook" \in failed \/ call[c].hook = None
          THEN UNCHANGED <<hookForm, webhook>>
          ELSE hookForm' = HookForm(n, call[c].hook) /\ webhook' = TRUE
  /\ Return(c)
  /\ UNCHANGED <<rowVars, at, saving, msgVars, clicks, historyVars>>

-----------------------------------------------------------------------------
(* The settings form *)

\* The section is there once settings have been loaded.
EditSettings ==
  /\ at # None /\ settings # None
  /\ ~settings.edited /\ settings' = [settings EXCEPT !.edited = TRUE]
  /\ UNCHANGED <<rowVars, at, hookForm, webhook, saving, msgVars, call, boundVars, historyVars>>

\* Mutant: the button is not disabled while saving.
SaveSettingsAnytime(c) ==
  /\ at # None /\ settings # None
  /\ Free(c) /\ Click
  /\ saving' = TRUE
  /\ Send(c, "saveSettings", settings.of, NewId)
  /\ settings' = [settings EXCEPT !.id = NewId, !.edited = FALSE]
  /\ UNCHANGED <<rowVars, at, hookForm, webhook, msgVars, faults, historyVars>>

\* handleSaveSettings sends the whole form.
SaveSettings(c) ==
  /\ at # None /\ settings # None /\ ~saving
  /\ Free(c) /\ Click
  /\ saving' = TRUE
  /\ Send(c, "saveSettings", settings.of, NewId)
  /\ settings' = [settings EXCEPT !.id = NewId, !.edited = FALSE]
  /\ UNCHANGED <<rowVars, at, hookForm, webhook, msgVars, faults, historyVars>>

-----------------------------------------------------------------------------
(* The webhook form *)

\* It is shown from the start, filled or not.
EditWebhook ==
  /\ at # None
  /\ \E u \in BOOLEAN :
       /\ ~hookForm.edited \/ hookForm.url # u
       /\ hookForm' = [hookForm EXCEPT !.edited = TRUE, !.url = u,
                                       !.of = IF hookForm.of = None THEN at ELSE @]
  /\ early' = (early \/ Pending(at, {"load"}))
  /\ UNCHANGED <<rowVars, at, settings, webhook, saving, msgVars, call, boundVars, mixed, excused>>

\* handleSaveWebhook sends the form as it is, without a url too.  The webhook state
\* stays as it was.
SaveWebhook(c) ==
  /\ at # None /\ ~saving
  /\ Free(c) /\ Click
  /\ saving' = TRUE
  /\ IF hookForm.url
     THEN /\ Send(c, "saveWebhook", hookForm.of, NewId)
          /\ hookForm' = [hookForm EXCEPT !.id = NewId, !.box = NewId, !.edited = FALSE]
     ELSE Send(c, "saveWebhook", hookForm.of, None) /\ UNCHANGED hookForm
  /\ early' = (early \/ Pending(at, {"load"}))
  /\ Excuse(at, Pending(at, {"deleteWebhook"}))
  /\ UNCHANGED <<rowVars, at, settings, webhook, msgVars, faults, mixed>>

\* handleDeleteWebhook, once confirmed.
DeleteWebhook(c) ==
  /\ at # None /\ webhook
  /\ Free(c) /\ Click
  /\ Send(c, "deleteWebhook", at, NewId)
  /\ Excuse(at, Pending(at, {"saveWebhook", "deleteWebhook"}))
  /\ UNCHANGED <<rowVars, pageVars, faults, mixed, early>>

-----------------------------------------------------------------------------
(* Their answers *)

\* A notice of success goes after three seconds; its timer takes away whatever
\* message is there by then.
Notice(m) ==
  /\ msg' = m
  /\ timers' = IF m = "ok" THEN timers + 1 ELSE timers

\* Mutant: no finally, a failed save leaves the buttons disabled.
SaveAnsweredNoFinally(c) ==
  /\ Answered(c, "saveSettings") \/ Answered(c, "saveWebhook")
  /\ Notice(call[c].answer)
  /\ saving' = Failed(c)
  /\ Return(c)
  /\ UNCHANGED <<rowVars, at, formVars, boundVars, historyVars>>

\* Mutant: the page loads again after a save.
SaveAnsweredReloads(c) ==
  /\ Answered(c, "saveSettings") \/ Answered(c, "saveWebhook")
  /\ Notice(call[c].answer)
  /\ saving' = FALSE
  /\ Send(c, "load", None, None)
  /\ UNCHANGED <<rowVars, at, formVars, boundVars, historyVars>>

SaveAnswered(c) ==
  /\ Answered(c, "saveSettings") \/ Answered(c, "saveWebhook")
  /\ Notice(call[c].answer)
  /\ saving' = FALSE
  /\ Return(c)
  /\ UNCHANGED <<rowVars, at, formVars, boundVars, historyVars>>

\* Mutant: the form keeps the webhook that was removed.
DeleteAnsweredKeepsForm(c) ==
  /\ Answered(c, "deleteWebhook")
  /\ Notice(call[c].answer)
  /\ webhook' = (Failed(c) /\ webhook)
  /\ Return(c)
  /\ UNCHANGED <<rowVars, at, settings, hookForm, saving, boundVars, historyVars>>

\* Url and events are cleared, whatever was typed meanwhile; the checkbox stays.
DeleteAnswered(c) ==
  /\ Answered(c, "deleteWebhook")
  /\ Notice(call[c].answer)
  /\ IF Failed(c) THEN UNCHANGED <<hookForm, webhook>>
                  ELSE hookForm' = [Blank EXCEPT !.box = hookForm.box] /\ webhook' = FALSE
  /\ Return(c)
  /\ UNCHANGED <<rowVars, at, settings, saving, boundVars, historyVars>>

MsgTimer ==
  /\ at # None /\ timers > 0
  /\ timers' = timers - 1 /\ msg' = "empty"
  /\ UNCHANGED <<rowVars, at, formVars, saving, call, boundVars, historyVars>>

Discard(c) ==
  /\ ~Free(c) /\ ~call[c].live /\ call[c].answer # None
  /\ Return(c)
  /\ UNCHANGED <<rowVars, pageVars, boundVars, historyVars>>

-----------------------------------------------------------------------------
(* The server and the network *)

\* One of the requests of loadAll is served.
ServeRead(c, part) ==
  LET n == call[c].name
      all == call[c].read \cup {part}
  IN  /\ call[c].kind = "load" /\ part \notin call[c].read
      /\ call' = [call EXCEPT
           ![c].read = all,
           ![c].id = IF part = "settings" THEN settingsRow[n] ELSE @,
           ![c].hook = IF part = "webhook" /\ hookRow[n].on THEN hookRow[n].id ELSE @,
           ![c].answer = IF all = Parts THEN "ok" ELSE None]
      /\ UNCHANGED <<rowVars, pageVars, boundVars, historyVars>>

\* Mutant: a webhook without a url is stored.
ServeWriteBlank(c) ==
  LET n == call[c].name
      i == call[c].id
  IN  /\ call[c].kind \in Writes /\ call[c].answer = None
      /\ \/ /\ call[c].kind = "saveSettings"
            /\ settingsRow' = [settingsRow EXCEPT ![n] = i]
            /\ UNCHANGED hookRow
         \/ /\ call[c].kind = "saveWebhook"
            /\ hookRow' = [hookRow EXCEPT ![n] = [id |-> i, on |-> TRUE]]
            /\ UNCHANGED settingsRow
         \/ /\ call[c].kind = "deleteWebhook"
            /\ hookRow' = [hookRow EXCEPT ![n] = [id |-> i, on |-> FALSE]]
            /\ UNCHANGED settingsRow
      /\ call' = [call EXCEPT ![c].answer = "ok"]
      /\ UNCHANGED <<pageVars, boundVars, historyVars>>

\* HandleUpdateSettings, HandleSetWebhook and HandleDeleteWebhook.  A webhook is
\* replaced as a whole.
ServeWrite(c) ==
  LET n == call[c].name
      i == call[c].id
  IN  /\ call[c].kind \in Writes /\ call[c].answer = None
      /\ \/ /\ call[c].kind = "saveSettings"
            /\ settingsRow' = [settingsRow EXCEPT ![n] = i]
            /\ UNCHANGED hookRow
         \/ /\ call[c].kind = "saveWebhook" /\ i # None
            /\ hookRow' = [hookRow EXCEPT ![n] = [id |-> i, on |-> TRUE]]
            /\ UNCHANGED settingsRow
         \/ /\ call[c].kind = "deleteWebhook"
            /\ hookRow' = [hookRow EXCEPT ![n] = [id |-> i, on |-> FALSE]]
            /\ UNCHANGED settingsRow
      /\ call' = [call EXCEPT ![c].answer = "ok"]
      /\ UNCHANGED <<pageVars, boundVars, historyVars>>

\* "url is required".
RefuseBlank(c) ==
  /\ call[c].kind = "saveWebhook" /\ call[c].id = None /\ call[c].answer = None
  /\ call' = [call EXCEPT ![c].answer = "error"]
  /\ UNCHANGED <<rowVars, pageVars, boundVars, historyVars>>

\* A write or its answer is lost, or the server fails.
Lose(c) ==
  /\ call[c].kind \in Writes /\ ~Failed(c)
  /\ faults < MaxFaults /\ faults' = faults + 1
  /\ call' = [call EXCEPT ![c].answer = "error"]
  /\ Excuse(call[c].name, TRUE)
  /\ UNCHANGED <<rowVars, pageVars, clicks, mixed, early>>

\* Another client of the API stores or removes something.
Others(n) ==
  /\ faults < MaxFaults /\ faults' = faults + 1
  /\ \/ settingsRow' = [settingsRow EXCEPT ![n] = NewId] /\ UNCHANGED hookRow
     \/ /\ \E on \in BOOLEAN : hookRow' = [hookRow EXCEPT ![n] = [id |-> NewId, on |-> on]]
        /\ UNCHANGED settingsRow
  /\ Excuse(n, TRUE)
  /\ UNCHANGED <<pageVars, call, clicks, mixed, early>>

-----------------------------------------------------------------------------
Init ==
  /\ settingsRow = [n \in Names |-> 0]
  /\ hookRow = [n \in Names |-> [id |-> 0, on |-> n \in Hooked]]
  /\ at = None
  /\ settings = None /\ hookForm = Blank /\ webhook = FALSE
  /\ saving = FALSE /\ msg = "empty" /\ timers = 0
  /\ call = [c \in Calls |-> NoCall]
  /\ clicks = 0 /\ faults = 0
  /\ mixed = FALSE /\ early = FALSE /\ excused = {}

User(c) ==
  \/ \E n \in Names : Open(c, n) \/ Move(c, n)
  \/ SaveSettings(c) \/ SaveWebhook(c) \/ DeleteWebhook(c)

Serve(c) == ServeWrite(c) \/ RefuseBlank(c) \/ \E part \in Parts : ServeRead(c, part)

Resume(c) == Loaded(c) \/ SaveAnswered(c) \/ DeleteAnswered(c) \/ Discard(c)

Next ==
  \/ \E c \in Calls : User(c) \/ Serve(c) \/ Resume(c) \/ Lose(c)
  \/ Leave \/ EditSettings \/ EditWebhook \/ MsgTimer
  \/ \E n \in Names : Others(n)

Spec == Init /\ [][Next]_vars

\* Requests are served and answered, answers resume their handlers, timers fire.
Fairness ==
  /\ \A c \in Calls : WF_vars(Serve(c)) /\ WF_vars(Resume(c))
  /\ WF_vars(MsgTimer)

FairSpec == Spec /\ Fairness

-----------------------------------------------------------------------------
(* Properties *)

MaybeId == Ids \cup {None}
Forms == [of : Names \cup {None}, id : MaybeId, edited : BOOLEAN]
HookForms == [of : Names \cup {None}, id : MaybeId, box : MaybeId, url : BOOLEAN, edited : BOOLEAN]

\* Every variable has its type.
TypeOK ==
  /\ settingsRow \in [Names -> Ids]
  /\ hookRow \in [Names -> [id : Ids, on : BOOLEAN]]
  /\ at \in Names \cup {None}
  /\ settings \in Forms \cup {None} /\ hookForm \in HookForms /\ webhook \in BOOLEAN
  /\ saving \in BOOLEAN /\ msg \in {"empty", "ok", "error"} /\ timers \in Nat
  /\ call \in [Calls -> [kind : Kinds \cup {"none"}, name : Names \cup {None}, live : BOOLEAN,
                         of : Names \cup {None}, id : MaybeId, hook : MaybeId,
                         read : SUBSET Parts, answer : {None, "ok", "error"}]]
  /\ clicks \in 0..MaxClicks /\ faults \in 0..MaxFaults
  /\ mixed \in BOOLEAN /\ early \in BOOLEAN /\ excused \in SUBSET Names

\* A form is saved to the instance it was loaded from or typed for, unless the
\* component has shown two instances (InstanceDetail.tsx:41-45, 71-89).
SavesOwn ==
  \A c \in Calls :
    call[c].live /\ call[c].kind \in Writes /\ call[c].id # None /\ ~mixed
      => call[c].of = call[c].name

\* What is stored follows the user's clicks: a save or removal never takes effect
\* after a later one, but for the names of Excuse.  Nothing but the disabled
\* buttons sees to it (InstanceDetail.tsx:71-111, 213, 252).
WritesInOrder ==
  [][\A n \in Names \ excused' :
       settingsRow'[n] >= settingsRow[n] /\ hookRow'[n].id >= hookRow[n].id]_vars

\* With nothing under way the page of n shows what is stored, but for the user's
\* edits, as long as none of the Conditions has occurred: the component's copy,
\* which no save reads back, stays true.  After a removal only the checkbox is
\* left of the webhook, and nothing is stored (InstanceDetail.tsx:47-111).
PageIsRow ==
  at # None /\ at \notin excused /\ ~mixed /\ ~early /\ ~Pending(at, Kinds) =>
    /\ settings # None => settings.id = settingsRow[at]
    /\ hookForm.id # None =>
         hookRow[at].on /\ hookForm.id = hookRow[at].id /\ hookForm.box = hookForm.id
    /\ hookForm.id = None /\ hookForm.box # None => ~hookRow[at].on
    /\ webhook => hookForm.id # None

\* What the user changes in the settings stays until it is saved or the page is
\* left: no answer that arrives late replaces it (InstanceDetail.tsx:55-65,
\* 149-217).
EditsStay ==
  [][at' = at /\ ~mixed /\ settings # None /\ settings.edited /\ ~settings'.edited
       => ~saving /\ saving']_vars

\* In the end the buttons work again and a notice of success is gone
\* (InstanceDetail.tsx:71-111).
PageSettles == <>[](at # None => ~saving /\ msg # "ok")

=============================================================================
