# whatsgo-api in TLA+

whatsgo-api is one Go process that runs many WhatsApp accounts ("instances")
behind a REST API. These modules model what is concurrent, persistent or
retried in it, TLC checks them on small instances and TLAPS proves the main
invariants for all of them. Paths are relative to the repository
(`src/internal/...` is `internal/...` there).

## The system

| component | state it keeps | operations |
|---|---|---|
| Instance manager, `whatsapp/manager.go` | map name -> running instance, under `m.mu`; the bounded event channel | LoadAll, Create, Connect, Restart, Logout, Delete, Disconnect, DisconnectAll, Get |
| Instance, `whatsapp/instance.go` | one whatsmeow client, a copy of its row, QR observers, runtime settings | Connect, Disconnect, Logout, ConnectWithPairingCode, SubscribeQR/notifyQR, UpdateSettings, emit |
| Event handlers, `whatsapp/events.go` | none of their own; they write rows and emit events | handleConnected, handleDisconnected, handleLoggedOut, messages, receipts, presence, groups, calls |
| Senders, `whatsapp/sender.go` | none | one whatsmeow call per operation (two in UpdateGroupSettings) |
| Webhook dispatcher, `webhook/dispatcher.go` | semaphore, goroutines in flight | Start, dispatch, send, backoff |
| Store, `store/*.go` | tables instances, instance_settings, webhooks (SQLite or PostgreSQL) | one SQL statement per method |
| Migrator, `store/migrator.go` | schema_migrations | apply the pending files, one transaction each |
| Token cache and auth, `auth/`, `cache/` | token -> instance with an expiry | RequireAuth, RequireInstance, Cleanup, InvalidateToken |
| API handlers, `api/` | none | instances, settings, webhook, messages, chats, groups |
| Server and main, `server/`, `cmd/` | the HTTP server, the signal's context | Start, Shutdown |
| Configuration, `config/` | read once | Load, Validate |
| Web UI, `webui/`, `web/` | the browser's state | calls of the API |

How they interact. A request passes the middleware (which looks the instance up
by name or token), then its handler calls the manager. The manager talks to the
store, and makes Instances, each with a whatsmeow client that keeps its session
in a container of its own. The client calls `handleEvent` from its own
goroutines; the handlers write the row and put events into the manager's channel
without blocking. The dispatcher takes events from the channel, looks up the
webhook by the event's instance name, and posts it with retries. On SIGTERM
`main` cancels the context given to LoadAll and the dispatcher and calls
`Shutdown`, which disconnects the instances and then stops the HTTP server.

What is hard. `m.mu` guards the map only: every operation of the manager reads
or writes the row, the map and the client in separate steps, so two operations
on one name, the client's handlers, LoadAll (which runs beside the first
requests), shutdown and a crash interleave freely. A client can be between two
connections. Sessions live in another database than rows. The dispatcher mixes a
bounded queue, a semaphore, retries with backoff, configuration that changes
under it, and cancellation.

What makes each part correct:

* manager and instance: only dialled instances are handed out; every running
  client can be found (and stopped) by somebody; an instance never resumes
  another one's session; nothing outlives Delete; rows that were open come back
  after a restart; shutdown stops everything; Logout and Delete are complete;
* dispatcher: bounded concurrency; a bounded number of tries, none after a final
  answer; every queued event is settled; it stops when told to; events go to the
  webhook of their own instance;
* configuration API: no lost change, the runtime copy follows the row, the
  webhook is the last one asked for;
* token cache: a deleted instance's token stops working and stays so;
* QR login: no send on a closed channel, the caller gets the first event, and
  both sides end;
* dashboard: once it has begun to load it always shows something, the code in the
  modal is the one asked for and its spinner has an end, forms are saved to the
  instance they belong to and in the order of the clicks, and once everything
  rests the page shows the truth;
* migrator: every migration is applied once, whatever crashes.

`PROJECT.json` lists the hazards at their lines with the properties that would
catch each. Several are in the code as it is and no text of the repository rules
them out (two read-modify-writes at once, a connect that overlaps another, a
client stopped between two connections, ...): no property is listed for those.
The invariants near them leave their case out through a history variable, and
what they claim is that nothing else breaks the promise.

## The modules

### InstanceManager

Manager, Instance lifecycle, connection handlers, the instances table and the
process itself. A worker is a goroutine: a request (`Procs`) or the goroutine
LoadAll starts for a row (the row's id is its name). `pc` and `op` are its place
and its local variables. One action is one critical section of `m.mu`, one store
call or one client call, in the order of the code:

| operation | actions |
|---|---|
| Create | `Create`, `CreateInsert` |
| Connect | `Connect` (read the row), `ConnectEvict`, then createAndConnect |
| Restart | `Restart` (evict), `RestartLookup`, then createAndConnect |
| createAndConnect | `NewInstance`, `MarkConnecting`, `Dial`, `PutInstance` |
| Logout | `Logout` (take the entry), `LogoutClient`, `LookupRow`, `LogoutStatus`, `LogoutPhone` |
| Delete | `Delete`, `LogoutClient`, `LookupRow`, `DeleteRow` |
| Disconnect (no caller in the API) | `Disconnect`, `DisconnectClient`, `DisconnectStatus` |
| LoadAll | `LoadAll`, then createAndConnect per row |
| Shutdown | `DisconnectAll`, `DisconnectOne` per instance, `StopServing` |
| handleConnected | `HandleConnected` (read the client's session), `HandleConnectedStatus`, `HandleConnectedPhone` |
| handleLoggedOut | `HandleLoggedOut`, `HandleLoggedOutPhone` |
| crash or end of the process, and its start | `Reboot` |

`client` is what the manager's calls on a whatsmeow client can tell apart:
`none` (not allocated), `new`, `socket` (IsConnected), `in` (IsLoggedIn),
`retry` (waiting to reconnect: IsConnected is false, but it will come back),
`down`. The client, the phone and the network are external: `Pair`, `Login`,
`RemoteLogout`, `Drop`, `AutoReconnect`, `QRTimeout`. `Faults` says which calls
may fail.

`owner` and `excused` are history variables. `owner` is the row for which a
session was paired. `excused` collects the names for which one of three
conditions has happened under which the code loses track of a client: two
operations on one name overlapped; a client was told to stop while it was
between two connections; a client.Logout failed and its error was dropped. The
invariants `NoStray` and `RunningHasRow` speak about all other names: they say
that these three are the only ways in which it can happen. The runs that expect
a violation show them happening.

### WebhookDelivery and WebhookDispatcher

`WebhookDelivery` is what the dispatcher promises about one event and its two
receivers: bounded tries, none once the delivery is settled, the instance's
webhook after the global one, and giving up early only at shutdown.
`WebhookDispatcher` is the code: `Emit` (non-blocking send), `Receive`,
`StopLoop`, `Acquire` (Start), `Post`, `BackoffOver`, `BackoffCancelled` (send
and backoff), `LookupInstance`, `LookupWebhook` (dispatch), and around it
`EditWebhook`, `EditInstance`, `Cancel`. `KeepsPromise` is the refinement:
`tries` and `verdict` are history variables that the requests and the returns of
`send` set, and `stopping` is the cancelled context. An event number stands for
the goroutine that delivers it. `Emit` does not ask for a row: an instance that
outlives its row emits under its name all the same.

### ConfigAPI

The settings and webhook handlers over the two tables and the copy of the
settings a running instance holds, for one name whose instance is deleted and
created again. `running` is the manager's map. The values a request writes are
told apart by the request (`id`), so a lost change is visible however the values
look.

| handler | actions |
|---|---|
| HandleUpdateSettings | `PutRead` (read and merge), `PutUpsert`, `PutNotify` (Manager.Get and UpdateSettings) |
| HandleSetWebhook | `SetHookCheck`, then `HookUpdate` or `HookInsert` |
| HandleDeleteWebhook | `HookDelete` |
| Create | `Create` (the row), `CreateDefaults` |
| Connect | `Connect` (read the row), `ConnectEvict`, then createAndConnect |
| Restart | `Restart` (evict), `RestartLookup`, then createAndConnect |
| createAndConnect | `ConnectRead` or `ConnectReadFails` (the settings), `ConnectPut` (register) |
| LoadAll | in `Init`: a goroutine may be about to run createAndConnect |
| Logout, Delete | `Stop`; `Delete`, `DeleteRow` |
| any of them, on a failed store call | `Fail` |

`InstanceManager` has all the steps of Create, Connect, Restart, Logout and
Delete; here they keep only what touches settings, webhook and the map. A request carries the
row its middleware found, which may be gone by then (`Arrive`).

`askedSettings` and `askedHook` are history: what the requests that came to
their write have asked for. `excusedSettings`, `excusedRun` and `excusedHook`
record the overlaps under which the handlers, which lock nothing, cannot keep
the promise: two read-modify-writes of one row; a change while a connect is
between reading and registering, or two notifications in either order; a webhook
that comes or goes between a check and its write. The invariants say that these
are the only ways.

### TokenCache

RequireAuth and its cache: `Arrive` (extractToken), `Get`, `Lookup`
(GetInstanceByToken), `Set`, `ServeHTTP`; `Expire` is the passing of an entry's
time, `Cleanup` the server's ticker, and `CreateInstance`/`DeleteInstance` move
the row. A token is the number of the row it was made for. Between `Lookup` and
`Set` a deletion can slip in, so a dead token can be put into the cache; the
model shows that it still ends. It is a module of its own, not part of
ConfigAPI, because what matters of it there is only that a request may carry a
row that is gone.

### QRLogin

HandleConnect's wait (`SubscribeQR`, `Receive`, `TimeOut`, `ClientGone`, then
the deferred `Unsub`, `Remove`, `Close`) beside the goroutine of loginWithQR
(`RecvEvent`, `RecvClosed`, and notifyQR's `NotifyLock`, `NotifySend`). They
share `qrMu`, the list of observers (`observing`) and the observer's channel
(`buf`, `open`). Steps inside the mutex are steps of their own, so that a
handler that did not take it could be seen between them. The client's QR
channel is external: `GiveCode`, `EndLogin`, and `CutLogin` when the request's
context ends or the instance was evicted. `since` and `panicked` are history:
what was notified since the subscription, and a send on a closed channel.

### InstancesPage and InstanceDetail

The two stateful pages of the dashboard. JavaScript runs a handler until its
next `await`: that is one action (`Create`, `Connect`, `Poll`, `SaveSettings`,
...), and what comes after the `await` is the action that takes the answer
(`Created`, `ConnectCode`, `Listed`, `SaveAnswered`, ...). `call` holds the
requests in flight; the server may take them in any order, answers come in any
order, requests and answers get lost (`Lose`), other clients change the server
(`Others`), and a component that is gone drops its answers (`Discard`).

* `InstancesPage`: `Mount` (the first render, from the initial state), `Effect`
  (the first load and the interval, which React runs after it), `Unmount`, `Poll`;
  useApi's `Execute` and `Executed`, shared by every load; the form; the modal,
  whose owner is the call that filled it; Connect, Logout and Delete. The modal
  covers the page but disables nothing, so the keyboard reaches the form and the
  cards under it: no action asks whether it is open. `last` and `crossed` are
  history: the latest connect, and whether an earlier one of this component was
  under way when it was sent.
* `InstanceDetail`: `Open`, `Move` (another instance through the browser's
  history: the component stays), `Leave`, `Loaded` (each of the parts may have
  failed), the two forms, Save, Remove, the notices and their timers
  (`Notice`, `MsgTimer`). Contents are told apart by the click that wrote them.
  Of the webhook form the url and events (`id`, `url`) and the checkbox (`box`)
  are kept apart, since a removal clears the first two only. A form without url
  is sent like any other and refused by the server (`RefuseBlank`).
  `mixed`, `early` and `excused` are history: they name what makes the page
  differ from what is stored (see "Conditions" in the module).

### MC modules

Each `MC...` module instantiates its component for TLC: the symmetry sets of
`MCInstanceManager` and `MCConfigAPI`, the small sets of `MCWebhookDispatcher`,
and nothing more in the others.

## The runs

| run | what it asks | bounds |
|---|---|---|
| manager_ops | safety of the manager under two overlapping requests and every fault | 1 name, 2 rows, 2 objects, 1 session, 2 request workers, 1 process |
| manager_restarts | safety and resumption across shutdown, crash and restart | 1 name, 1 row, 2 objects, 1 session, 1 request worker, 2 processes |
| dispatcher | concurrency bound and the retry promise | 3 events, queue of 1, 2 slots, 2 tries |
| dispatcher_live | every event is settled, the dispatcher ends | 2 events, queue of 1, 1 slot, 2 tries, 1 change of the configuration |
| config_api | no lost change, fresh running copy, last webhook wins | 3 requests at a time (one may be LoadAll's goroutine), 2 fields, 2 rows, 4 writes, 1 fault |
| token_cache | a dead token dies for good | 3 requests, 2 rows |
| qr_login | no send on a closed channel, first event, both sides end | 1 request, 3 codes, a channel of 2 |
| instances_page | the list page under overlapping and late answers | 1 name, 2 requests in flight, 4 clicks, 1 change by others, 1 failure |
| instance_detail | the page of one instance, two of them in the history | 2 names (one with a webhook), 2 requests in flight, 3 clicks, 1 fault |
| shutdown_stops_all, logout_clears, delete_complete | a sentence of the code's comments that the code does not keep | as small as shows it |

Why the bounds are enough for the cases named above. The operations on different
names share only `m.mu` and never each other's entries, rows or clients, so one
name shows what overlapping operations do; a second row id lets that name be
deleted and created again while a client, a handler or a request still refers to
the first row. Two objects let a second client be made while the first runs, and
two requests besides the handlers and LoadAll's goroutine let any two operations
overlap. One session is enough to tell whether a row or a client holds a session
that another row paired. Two processes let everything that the first leaves in
the tables meet LoadAll. In the dispatcher a queue of one overflows with two
events, three events fill two slots and leave one waiting, and two tries give a
first, a last and a wait between and after them. `ObjectsLeft` and `NoIdLeft` keep
the finite sets of objects and row ids from blocking an operation the code would
carry out.

In ConfigAPI two fields tell a merge from an overwrite, three requests let a
read-modify-write meet both a second one and a connect, and two rows let a
request outlive its row. In QRLogin one request is enough: every HandleConnect
makes an instance, a goroutine and a channel of its own, and all that others can
do to it is to evict it (`Evict`); three codes overflow a channel of two, as
eleven overflow the ten of the code. On the dashboard two requests in flight are
what makes answers overtake each other, and the clicks suffice for the longest
stories that matter: mount, connect, close, connect another; open, save, leave
and open again. For the order of writes the longest story is open, save, leave,
open another, move back and save again, while the first save is still on its way.
Its five clicks are beyond instance_detail, whose liveness would take too long
there: `ClicksInOrder` proves it for any number of clicks (below). Names on the
list page share only the modal, where one name already shows an answer that
belongs to another click.

The expected violations, each a finding in `PROJECT.json`: a Connect or LoadAll
in flight escapes `DisconnectAll`; `Logout` of an instance that is not running,
or not logged in just then, leaves its session in the container and on the
phone; a Connect that overlaps `Delete` runs an instance without a row.

What the properties of the new modules say, and what they leave to the history
variables:

* `NoLostChange`, `HookIsLast`, `RuntimeFresh`: see ConfigAPI above.
* `StaysForgotten`: once no live entry, no lookup past the store and no handler
  knows a deleted row's token, nothing brings it back. `TokenDies`: that always
  happens. Together: InvalidateToken, which nobody calls, is not needed for the
  token to end, only for it to end at once.
* `NoSendOnClosed`, `FirstEvent`, `ConnectEnds`: the mutex order of unsub and
  notifyQR is what keeps the process from a panic; an event notified between the
  subscription and the select is not lost; the handler and the goroutine end.
* `NeverBlank`, `ModalIsOwn`, `SpinnerWaits`: from the effect on there is a list,
  a spinner or an error for any overlap of the loads (the render before it is
  blank: useApi starts with loading false); a code in the modal is the latest one
  asked for, unless an earlier connect was still under way at that click, when the
  two answers may come in either order; and a modal that waits has, crossed or
  not, its connect under way.
* `SavesOwn`, `WritesInOrder`, `PageIsRow`, `EditsStay`: a form goes to the
  instance it is for, later clicks win, the idle page shows the truth (of a
  removed webhook at most the checkbox is left, and nothing is stored), and typed
  settings survive late answers.
* `PageSettles` (both pages): at rest the page is true and usable.

### Fairness

InstanceManager: weak fairness for the next step of each worker, for LoadAll,
for the handlers and for DisconnectAll's loop: goroutines are scheduled. Nothing
is assumed of requests, phones, the network or the moments at which processes
end. WebhookDispatcher: weak fairness for the loop and for each delivery, as
goroutines are scheduled, requests end because `http.Client` has a timeout, and
timers fire. Receivers may refuse or fail for ever. `select` may prefer a
waiting event to a cancelled context, but nothing fills the channel for ever
after shutdown.

TokenCache: requests go on and entries expire; Cleanup is not needed, since Get
looks at the expiry itself. QRLogin: goroutines go on, the select's 30 s timer
fires, a mutex that is given back again and again is got in the end (strong
fairness; Go's mutexes are starvation free), and whatsmeow ends its QR channel,
as GetQRChannel documents with its timeout. The dashboard: the server answers
each request and the event loop resumes its handler, React runs a mounted
component's effect, `setInterval` and `setTimeout` fire. Nothing is assumed of the user, of other clients or of what
the answers say. ConfigAPI has no liveness property and no fairness.

Deadlock is not checked where the bounds end the model: on events in
dispatcher and dispatcher_live, on writes in config_api, on clicks in
instances_page and instance_detail, and in qr_login, where every connect ends. It is checked in all other runs.

## The proofs

`InstanceManager_proofs` proves, for every value of the constants that satisfies
`ConstantsAssumption`, with TLAPS:

* `TypeCorrect`: `Spec => []TypeOK`.
* `MapIsReady`: `Spec => []MapReady`. Not inductive alone: an instance enters
  the map from a worker's local variable, so `MapInv` adds `WorkerObject`: an
  object a worker is about to dial or register has been allocated and carries
  the worker's name.
* `SessionsStay`: `Spec => []SessionOfRow`. `SessionInv` adds what keeps a jid in
  transit honest: `WorkerRow` (a jid a worker read with a row, perhaps long ago,
  was paired for that row, which has the name the worker works on) and
  `ObjectRow` (the same for what handleConnected read from the client and for the
  row an object refers to). The argument rests on row ids and sessions never
  being used twice, not on any lock: it holds however operations overlap.

The step lemmas have one case per action; the actions that share a shape
(`DisconnectEntry`, `InstanceLogout`, `UpdateInstanceStatus`,
`UpdateInstancePhone`) are covered by lemmas cited by name. TLC has checked the
strengthened invariants too, on the instance of manager_ops.

`InstanceTracking_proofs`, under the same assumption, proves the other two
invariants of the manager. Both rest on `NameInv`: no two rows share a name
(which UNIQUE (name) decides), rows and workers have names, and LoadAll and
DisconnectAll run once.

* `NoneIsStray`: `Spec => []NoStray`. `SoleInv` is what the proof turns on: on a
  name that is not excused at most one worker is under way (`Sole`), what it has
  taken out of the map stays out until it puts something there (`EntryGone`), and
  the object it holds was made for its name (`Held`). A step then moves a client
  from one of the three places of NoStray to another, or stops it
  (`StepLive`, `StepHolds`).
* `RunningRowsExist`: `Spec => []RunningHasRow`. `RowInv` adds `WorksForRow`: a
  worker on its way to the map works for a row that is there, and a worker about
  to delete a row has found it by its own name; a row goes only by such a worker
  (`RowGone`), which is then the sole one of its name.

`WebhookDispatcher_proofs` proves, for every value of the constants that
satisfies `DispatcherAssumption`:

* `TypeCorrect`: `Spec => []TypeOK`.
* `BoundedDeliveries`: `Spec => []DeliveriesBounded`. The invariant is `SlotInv`,
  the slots taken are exactly the goroutines of dispatch that run; for `Acquire`
  it needs `QueueInv`: an event that waits in the channel is there once and is
  not being delivered, and neither is the one Start holds.
* `PromiseKept`: `Spec => KeepsPromise`, the refinement of `WebhookDelivery`.
  `PromiseInv` says what the place of an event tells about its tries and
  verdicts; with it every step of the code is a `Try`, `Skip`, `GiveUp`, `Stop`
  or a stutter of the promise.

`ConfigAPI_proofs`, for every value that satisfies `ConfigAssumption`:

* `TypeCorrect`: `Spec => [](TypeOK /\ RowsMade)`. `RowsMade`, that rows in use
  were created, is needed for the ids to stay in range.
* `ChangesKept` and `WebhookKept`: `Spec => []NoLostChange` and
  `Spec => []HookIsLast`. A request writes what it read some steps ago, so the
  invariant `StoredInv` adds `ReadsHold`: as long as the row is not excused, what
  a request is about to write is still right (the merged settings are the stored
  ones with its fields, the check of the webhook still holds), and `Unmade`: a
  row id not used yet has nothing stored. `OthersQuiet` covers the steps that
  change none of this.
* `CopyIsFresh`: `Spec => []RuntimeFresh`. RuntimeFresh is silent while a request
  is to notify, so `RunInv` says what these carry: the one request that is to
  notify brings what it has stored (`OneNotifies`); with none, the running
  instance and every connect that is about to register one hold what is stored
  (`CopiesTrue`); and what runs belongs to a row that was made (`RunningRow`),
  so no row to come inherits it.

`TokenCache_proofs`, under `TokenAssumption`: `TypeCorrect`, and
`ForgottenForGood`: `Spec => StaysForgotten`, an action property, which follows
from the types and from row ids never being used twice.

`QRLogin_proofs`, under `QRAssumption`, for any number of requests:

* `TypeCorrect`, `SendsAreSafe` (`NoSendOnClosed`) and `AnswerIsFirst`
  (`FirstEvent`), all from `LoginInv`. `MutexInv` ties who holds `qrMu` to the
  places of the two goroutines and says that a listed observer's channel is open;
  `BufferInv` says that the channel's head is the first event since the
  subscription. No step of one request touches another's part
  (`OthersUntouched`).

`InstancesPage_proofs`, under `PageAssumption`:

* `TypeCorrect`, with `ConnectNamed`: a connect is of some instance.
* `NeverIsBlank`: `Spec => []NeverBlank`, with `ListsArrive`: an answer to a load
  is a failure or a list. Once the effect has begun the first load, that useApi
  clears the error when a load begins and the spinner when any of them ends is
  enough, in every order.
* `ModalShowsOwn`: `Spec => []ModalIsOwn`, and `SpinnerIsServed`:
  `Spec => []SpinnerWaits`, both from `ModalInv`: only a mounted page has live
  requests (`LiveIsMounted`), and as long as no two connects have crossed no other
  than the latest is under way (`OneAsks`). Every answer to a connect fills or
  closes the modal, so the latest, once answered, leaves none that waits.

`InstanceDetail_proofs`, under `DetailAssumption`:

* `TypeCorrect`, with `CallShape`: a request is for an instance, and writes other
  than that of a webhook form without url have an id.
* `OwnIsSaved`: `Spec => []SavesOwn`, from `OwnInv`: what waits for an answer and
  what the forms hold belong to the instance on the page.
* `EditsAreKept`: `Spec => EditsStay`, from `OneLoad`: a component that has shown
  one instance loads once, and has no settings to edit until then.
* `ClicksInOrder`: `Spec => WritesInOrder`. `SaveInv` says that the disabled
  buttons leave a component one save at a time (`OneSave`), and so each row of a
  name that is not excused one writer (`OneWriter`); `OrderInv` says that a write
  still to be served is later than what is stored (`Ahead`).
* `IdlePageShowsRow`: `Spec => []PageIsRow`. PageIsRow is about the idle page
  only; `PageInv` says what holds on the way there: until the load is answered the
  webhook form is blank (`Loading`), what a load has read is still stored
  (`ReadsTrue`), a form holds the write that is on its way or else what is stored
  (`SettingsTrue`, `HookTrue`), a webhook that can be removed fills the form
  (`HookFilled`), and a removal fails only when it is lost and otherwise leaves
  nothing stored (`DeletesFail`).

The first attempt at ClicksInOrder failed for a good reason: the excuse for what
a component that is gone still writes (`LeftWriting`) was missing where one comes
back to an instance through the history (`Move`), and WritesInOrder was violated
in five clicks, beyond the three of instance_detail. The excuse is there now; TLC
agrees when instance_detail.cfg is given five clicks, no fault and WritesInOrder as
its only property. All strengthened invariants named here
have been checked by TLC on the instances of the runs before they were proved.

All state invariants and all action properties of the passing runs are proved,
and so is the refinement KeepsPromise. Only model-checked are the liveness
properties (OpenRowsResume, EventsSettle, StopsAfterCancel, TokenDies,
ConnectEnds and PageSettles of both pages): liveness under fairness and ENABLED
are out of the prover's reach.

## Not modelled, and why

* What events and messages contain, HTTP encoding, logging: data no property
  tells apart.
* The senders and the message, chat and group handlers: each forwards one request
  to one call of the client and keeps nothing.
* InvalidateToken, Invalidate, Flush, SetWithTTL and the store's methods for
  messages, contacts and chats: nothing calls them.
* The migrator: it runs to its end before anything else starts, and each database
  has one migration whose statements and record share a transaction. With a
  second migration a model of crashes between two would be worth having.
* The configuration: read once at start and constant; the models' constants stand
  for it.
* ApiDocs, Layout, StatusBadge and the routes of the dashboard: they only render.
  The status badge of InstanceDetail is read once per load and nothing acts on it.
* Headers of a webhook: the dashboard's Save omits them and so clears them; no
  text of the repository says that it should not.
* Timeouts of `Shutdown` (15 s) and of the HTTP server: the model lets the
  process end at any step.
* PostgreSQL and SQLite differ in nothing the modelled statements show: each is
  one atomic statement under the same UNIQUE and CASCADE rules.

## Plan

Done: InstanceManager, WebhookDelivery and WebhookDispatcher; ConfigAPI,
TokenCache and QRLogin; the two pages of the dashboard; their runs and proofs.

Every state invariant, every action property and the refinement are proved. What
is left to do depends on the code:

1. The migrator, when a second migration is added.
2. A property of what a HandleSetWebhook may omit, should the API come to say
   which fields a partial webhook keeps.
