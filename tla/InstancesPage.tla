---------------------------- MODULE InstancesPage ----------------------------
(***************************************************************************)
(* The dashboard's list of instances (web/src/pages/Instances.tsx) with    *)
(* useApi, api() and the QR modal: a component of one browser tab that     *)
(* polls the list, sends requests and puts their answers into its state.   *)
(* Nothing orders the answers, nothing cancels a request whose answer is   *)
(* no longer wanted, and other clients and the phones change the instances *)
(* meanwhile.                                                              *)
(*                                                                         *)
(* A handler runs until its next await; the rest of it is the action that  *)
(* takes the answer.  React applies the setters of one such run together.  *)
(***************************************************************************)
EXTENDS Integers, FiniteSets

CONSTANTS
  Names,        \* instance names
  Calls,        \* requests that can be in flight (bound)
  MaxClicks,    \* clicks and visits of the user (bound)
  MaxChanges,   \* changes of an instance by others (bound)
  MaxFails,     \* requests that fail for no reason of the user's (bound)
  None

\* "close" also stands for "connecting": the page only tells "open" from the rest.
Status == {"absent", "close", "open"}
Tables == [Names -> Status]

\* by: the connect request whose code the modal shows, None while it waits.
Modals == [name : Names, by : Calls \cup {None}]

ASSUME PageAssumption ==
  /\ IsFiniteSet(Calls) /\ Calls # {}
  /\ MaxClicks \in Nat /\ MaxChanges \in Nat /\ MaxFails \in Nat
  /\ None \notin Names \cup Calls \cup Tables \cup Modals

VARIABLES
  table,       \* the instances on the server
  mounted,     \* is the page shown
  started,     \* has the component's effect run (first load, interval)
  instances,   \* useApi's data: the list as last received, or None
  loading, error,      \* useApi's other two states
  newName, creating,   \* the form
  modal,       \* qrModal: None, or whose code it waits for or shows
  call,        \* requests in flight
  clicks, changes, fails,
  last,        \* history: the component's latest connect request
  crossed      \* history: it was sent while an earlier one was under way

pageVars == <<mounted, started>>
apiVars == <<instances, loading, error>>
formVars == <<newName, creating>>
boundVars == <<clicks, changes, fails>>
historyVars == <<last, crossed>>
vars == <<table, pageVars, apiVars, formVars, modal, call, boundVars, historyVars>>

-----------------------------------------------------------------------------
(* Requests *)

\* "relist" is the load that handleCreate waits for.  live: the component that
\* sent the request is still mounted.  answer is None until there is one.
Kinds == {"list", "relist", "create", "connect", "logout", "delete"}

NoCall == [kind |-> "none", name |-> None, live |-> FALSE, answer |-> None, list |-> None]
Request(k, n) == [kind |-> k, name |-> n, live |-> TRUE, answer |-> None, list |-> None]

Free(c) == call[c] = NoCall
Send(c, k, n) == call' = [call EXCEPT ![c] = Request(k, n)]
Return(c) == call' = [call EXCEPT ![c] = NoCall]
Answered(c, k) == call[c].kind = k /\ call[c].live /\ call[c].answer # None
Failed(c) == call[c].answer = "error"

\* useApi's execute up to its await, and load, which calls it.
Execute == loading' = TRUE /\ error' = FALSE /\ UNCHANGED instances
Load(c) == Execute /\ Send(c, "list", None)

\* Mutant: execute drops the failure of a call when another one is under way.
ExecutedLatest(c) ==
  /\ loading' = FALSE
  /\ IF Failed(c)
     THEN /\ error' = \A d \in Calls \ {c} : call[d].kind \notin {"list", "relist"}
          /\ UNCHANGED instances
     ELSE instances' = call[c].list /\ UNCHANGED error

\* The rest of execute: of several calls under way the one answered last decides.
Executed(c) ==
  /\ loading' = FALSE
  /\ IF Failed(c) THEN error' = TRUE /\ UNCHANGED instances
                  ELSE instances' = call[c].list /\ UNCHANGED error

Click == clicks < MaxClicks /\ clicks' = clicks + 1

-----------------------------------------------------------------------------
(* Coming, going and polling *)

\* A new component is shown from its initial state: nothing is under way yet.
Mount ==
  /\ ~mounted /\ Click
  /\ mounted' = TRUE /\ started' = FALSE
  /\ instances' = None /\ loading' = FALSE /\ error' = FALSE
  /\ newName' = None /\ creating' = FALSE /\ modal' = None
  /\ last' = None /\ crossed' = FALSE
  /\ UNCHANGED <<table, call, changes, fails>>

\* Then its effect runs: the first load, and the interval.
Effect(c) ==
  /\ mounted /\ ~started /\ Free(c)
  /\ started' = TRUE
  /\ Load(c)
  /\ UNCHANGED <<table, mounted, formVars, modal, boundVars, historyVars>>

\* A link, or the browser's Back, which works under the modal too.  Answers to a
\* component that is gone change nothing any more.
Unmount ==
  /\ mounted
  /\ mounted' = FALSE
  /\ call' = [c \in Calls |-> [call[c] EXCEPT !.live = FALSE]]
  /\ UNCHANGED <<table, started, apiVars, formVars, modal, boundVars, historyVars>>

\* Mutant: the interval is cleared as soon as a list has arrived.
PollOnce(c) ==
  /\ mounted /\ started /\ Free(c) /\ instances = None
  /\ Load(c)
  /\ UNCHANGED <<table, pageVars, formVars, modal, boundVars, historyVars>>

\* setInterval does not wait for the load before.
Poll(c) ==
  /\ mounted /\ started /\ Free(c)
  /\ Load(c)
  /\ UNCHANGED <<table, pageVars, formVars, modal, boundVars, historyVars>>

Listed(c) ==
  /\ Answered(c, "list")
  /\ Executed(c) /\ Return(c)
  /\ UNCHANGED <<table, pageVars, formVars, modal, boundVars, historyVars>>

-----------------------------------------------------------------------------
(* handleCreate *)

\* The input is not disabled while a name is being created, nor under the modal.
TypeName(n) ==
  /\ mounted
  /\ newName # n /\ newName' = n
  /\ UNCHANGED <<table, pageVars, apiVars, creating, modal, call, boundVars, historyVars>>

Create(c) ==
  /\ mounted
  /\ newName # None /\ ~creating
  /\ Free(c) /\ Click
  /\ creating' = TRUE
  /\ Send(c, "create", newName)
  /\ UNCHANGED <<table, pageVars, apiVars, newName, modal, changes, fails, historyVars>>

\* A failure is caught and shown nowhere: it did not come through execute.
CreateFailed(c) ==
  /\ Answered(c, "create") /\ Failed(c)
  /\ creating' = FALSE
  /\ Return(c)
  /\ UNCHANGED <<table, pageVars, apiVars, newName, modal, boundVars, historyVars>>

\* Mutant: the form gets the answer instead of being cleared.
CreatedShowsAnswer(c) ==
  /\ Answered(c, "create") /\ ~Failed(c)
  /\ newName' = call[c].answer
  /\ Execute /\ Send(c, "relist", None)
  /\ UNCHANGED <<table, pageVars, creating, modal, boundVars, historyVars>>

Created(c) ==
  /\ Answered(c, "create") /\ ~Failed(c)
  /\ newName' = None
  /\ Execute /\ Send(c, "relist", None)
  /\ UNCHANGED <<table, pageVars, creating, modal, boundVars, historyVars>>

CreatedListed(c) ==
  /\ Answered(c, "relist")
  /\ Executed(c) /\ Return(c)
  /\ creating' = FALSE
  /\ UNCHANGED <<table, pageVars, newName, modal, boundVars, historyVars>>

-----------------------------------------------------------------------------
(* handleConnect and the modal *)

\* The buttons of a card follow the list as last received.
Card(n) == instances # None /\ instances[n] # "absent"

Waits(n) == [name |-> n, by |-> None]
Shows(n, c) == [name |-> n, by |-> c]

\* A connect of this component is under way.
Asks(c) == call[c].kind = "connect" /\ call[c].live

\* Mutant: a modal that is open already is left as it is.
ConnectKeepsModal(c, n) ==
  /\ mounted
  /\ Card(n) /\ instances[n] # "open"
  /\ Free(c) /\ Click
  /\ modal' = IF modal = None THEN Waits(n) ELSE modal
  /\ Send(c, "connect", n)
  /\ last' = c /\ crossed' = \E d \in Calls : Asks(d)
  /\ UNCHANGED <<table, pageVars, apiVars, formVars, changes, fails>>

\* The modal covers the page but disables nothing: the keyboard still reaches the
\* buttons of the cards while it is open.
Connect(c, n) ==
  /\ mounted
  /\ Card(n) /\ instances[n] # "open"
  /\ Free(c) /\ Click
  /\ modal' = Waits(n)
  /\ Send(c, "connect", n)
  /\ last' = c /\ crossed' = \E d \in Calls : Asks(d)
  /\ UNCHANGED <<table, pageVars, apiVars, formVars, changes, fails>>

\* The answer sets the modal whatever has become of it since.
ConnectCode(c) ==
  /\ Answered(c, "connect") /\ call[c].answer = "code"
  /\ modal' = Shows(call[c].name, c)
  /\ Return(c)
  /\ UNCHANGED <<table, pageVars, apiVars, formVars, boundVars, historyVars>>

ConnectDone(c) ==
  /\ Answered(c, "connect") /\ call[c].answer = "done"
  /\ modal' = None
  /\ Load(c)
  /\ UNCHANGED <<table, pageVars, formVars, boundVars, historyVars>>

\* Mutant: a failure is not caught.
ConnectFailedKeepsModal(c) ==
  /\ Answered(c, "connect") /\ Failed(c)
  /\ Return(c)
  /\ UNCHANGED <<table, pageVars, apiVars, formVars, modal, boundVars, historyVars>>

ConnectFailed(c) ==
  /\ Answered(c, "connect") /\ Failed(c)
  /\ modal' = None
  /\ Return(c)
  /\ UNCHANGED <<table, pageVars, apiVars, formVars, boundVars, historyVars>>

CloseModal(c) ==
  /\ mounted /\ modal # None
  /\ Free(c)
  /\ modal' = None
  /\ Load(c)
  /\ UNCHANGED <<table, pageVars, formVars, boundVars, historyVars>>

-----------------------------------------------------------------------------
(* handleLogout and handleDelete, once confirmed *)

Logout(c, n) ==
  /\ mounted
  /\ Card(n) /\ instances[n] = "open"
  /\ Free(c) /\ Click
  /\ Send(c, "logout", n)
  /\ UNCHANGED <<table, pageVars, apiVars, formVars, modal, changes, fails, historyVars>>

Delete(c, n) ==
  /\ mounted
  /\ Card(n)
  /\ Free(c) /\ Click
  /\ Send(c, "delete", n)
  /\ UNCHANGED <<table, pageVars, apiVars, formVars, modal, changes, fails, historyVars>>

\* Then load; a failure is caught and shown nowhere.
LoggedOutOrDeleted(c) ==
  /\ Answered(c, "logout") \/ Answered(c, "delete")
  /\ IF Failed(c) THEN Return(c) /\ UNCHANGED apiVars ELSE Load(c)
  /\ UNCHANGED <<table, pageVars, formVars, modal, boundVars, historyVars>>

-----------------------------------------------------------------------------
(* The server and the network *)

Reply(c, a) == call' = [call EXCEPT ![c].answer = a]
ReplyList(c) == call' = [call EXCEPT ![c].answer = "done", ![c].list = table]
Refuse(c) == Reply(c, "error") /\ UNCHANGED table

\* A request in flight reaches its handler.
Serve(c) ==
  LET k == call[c].kind
      n == call[c].name
      To(s) == table' = [table EXCEPT ![n] = s]
  IN  /\ ~Free(c) /\ call[c].answer = None
      /\ \/ k \in {"list", "relist"} /\ ReplyList(c) /\ UNCHANGED table
         \/ /\ k = "create"
            /\ IF table[n] = "absent" THEN To("close") /\ Reply(c, "done") ELSE Refuse(c)
         \/ k \in {"connect", "logout", "delete"} /\ table[n] = "absent" /\ Refuse(c)
         \/ /\ k = "connect" /\ table[n] # "absent"
            /\ \/ Reply(c, "code") /\ To("close")
               \/ \E s \in {"close", "open"}, a \in {"done", "error"} : To(s) /\ Reply(c, a)
         \/ k = "logout" /\ table[n] # "absent" /\ To("close") /\ Reply(c, "done")
         \/ k = "delete" /\ table[n] # "absent" /\ To("absent") /\ Reply(c, "done")
      /\ UNCHANGED <<pageVars, apiVars, formVars, modal, boundVars, historyVars>>

\* The request or its answer is lost, or the server refuses it: api() throws.
Lose(c) ==
  /\ ~Free(c) /\ ~Failed(c)
  /\ fails < MaxFails /\ fails' = fails + 1
  /\ call' = [call EXCEPT ![c].answer = "error", ![c].list = None]
  /\ UNCHANGED <<table, pageVars, apiVars, formVars, modal, clicks, changes, historyVars>>

\* An answer nobody waits for.
Discard(c) ==
  /\ ~Free(c) /\ ~call[c].live /\ call[c].answer # None
  /\ Return(c)
  /\ UNCHANGED <<table, pageVars, apiVars, formVars, modal, boundVars, historyVars>>

\* Another client, or a phone.
Others(n) ==
  /\ changes < MaxChanges /\ changes' = changes + 1
  /\ \E s \in Status \ {table[n]} : table' = [table EXCEPT ![n] = s]
  /\ UNCHANGED <<pageVars, apiVars, formVars, modal, call, clicks, fails, historyVars>>

-----------------------------------------------------------------------------
Init ==
  /\ table \in Tables
  /\ mounted = FALSE /\ started = FALSE
  /\ instances = None /\ loading = FALSE /\ error = FALSE
  /\ newName = None /\ creating = FALSE /\ modal = None
  /\ call = [c \in Calls |-> NoCall]
  /\ clicks = 0 /\ changes = 0 /\ fails = 0
  /\ last = None /\ crossed = FALSE

\* What the event loop runs when an answer is there.
Resume(c) ==
  \/ Listed(c)
  \/ CreateFailed(c) \/ Created(c) \/ CreatedListed(c)
  \/ ConnectCode(c) \/ ConnectDone(c) \/ ConnectFailed(c)
  \/ LoggedOutOrDeleted(c)
  \/ Discard(c)

User(c) ==
  \/ Create(c) \/ CloseModal(c)
  \/ \E n \in Names : Connect(c, n) \/ Logout(c, n) \/ Delete(c, n)

Next ==
  \/ \E c \in Calls : User(c) \/ Effect(c) \/ Poll(c) \/ Resume(c) \/ Serve(c) \/ Lose(c)
  \/ Mount \/ Unmount
  \/ \E n \in Names : TypeName(n) \/ Others(n)

Spec == Init /\ [][Next]_vars

\* Requests are served and answered, answers resume their handlers, effects run
\* and the interval fires.
Fairness ==
  /\ \A c \in Calls : WF_vars(Serve(c)) /\ WF_vars(Resume(c))
  /\ WF_vars(\E c \in Calls : Effect(c)) /\ WF_vars(\E c \in Calls : Poll(c))

FairSpec == Spec /\ Fairness

-----------------------------------------------------------------------------
(* Properties *)

Answers == {None, "error", "done", "code"}

\* Every variable has its type.
TypeOK ==
  /\ table \in Tables
  /\ mounted \in BOOLEAN /\ started \in BOOLEAN
  /\ instances \in Tables \cup {None} /\ loading \in BOOLEAN /\ error \in BOOLEAN
  /\ newName \in Names \cup {None} /\ creating \in BOOLEAN
  /\ modal \in Modals \cup {None}
  /\ call \in [Calls -> [kind : Kinds \cup {"none"}, name : Names \cup {None},
                         live : BOOLEAN, answer : Answers, list : Tables \cup {None}]]
  /\ clicks \in 0..MaxClicks /\ changes \in 0..MaxChanges /\ fails \in 0..MaxFails
  /\ last \in Calls \cup {None} /\ crossed \in BOOLEAN

\* From its effect on the page never shows nothing at all: as long as no list has
\* arrived there is the spinner or the error, however many loads overlap and in
\* whatever order they end (useApi.ts:8-22, Instances.tsx:27-28, 103-105).  Before
\* the effect it is blank for a moment: useApi starts with loading false.
NeverBlank == mounted /\ started /\ instances = None => loading \/ error

\* The code in the modal is the one the latest click on Connect asked for, if no
\* earlier connect was under way at that click.  If one was, the two answers may
\* come in either order, as they are not matched with the modal that waits for
\* them: a request whose modal was closed can put its code into the next one's
\* (Instances.tsx:49-64).
ModalIsOwn == modal # None /\ modal.by # None /\ ~crossed => modal.by = last

\* A modal that waits waits for the latest connect, which is still under way and
\* for the same instance: whatever the answers of earlier ones have done to the
\* modal and however often it was closed, no spinner is left with nobody to end
\* it (Instances.tsx:49-64).
SpinnerWaits ==
  mounted /\ modal # None /\ modal.by = None
    => last # None /\ Asks(last) /\ call[last].name = modal.name

\* Once the user, the others and the failures rest, the page comes to rest on
\* the truth: the list is the server's, no error is left, the form is usable and
\* the modal does not wait, although old answers may arrive late
\* (Instances.tsx:25-64).
AtRest ==
  /\ instances = table /\ ~error
  /\ ~creating
  /\ modal = None \/ modal.by # None
PageSettles == <>[](mounted => AtRest)

=============================================================================
