-------------------------- MODULE WebhookDispatcher --------------------------
(***************************************************************************)
(* From Instance.emit (instance.go) through the manager's bounded event    *)
(* channel to the webhook dispatcher (dispatcher.go): the loop of Start,   *)
(* the semaphore, one goroutine per event that runs dispatch, and send's   *)
(* attempts with backoff.  Events are numbered in the order in which they  *)
(* are emitted and stand for the goroutines that deliver them.             *)
(*                                                                         *)
(* The events here are those of one instance name; events of other names   *)
(* would only compete for the channel and the semaphore, as these do.  The *)
(* API deletes and re-creates that instance and changes its webhook while  *)
(* events are under way.                                                   *)
(***************************************************************************)
EXTENDS Sequences, FiniteSets, Integers

CONSTANTS
  MaxEvents,      \* events emitted (bound)
  QueueCap,       \* capacity of Manager.eventCh
  MaxConcurrent,  \* webhook.max_concurrent
  MaxRetries,     \* webhook.max_retries
  Ids,            \* rows the name can have, one after the other (bound)
  Kinds,          \* event types
  Filters,        \* event lists a webhook may have
  GlobalURL,      \* is a global webhook configured
  GlobalEvents,   \* its event list
  MaxEdits,       \* changes of the instance and its webhook (bound)
  StoreMayFail,   \* may a read of the store fail
  None

Events == 1..MaxEvents
Targets == {"global", "instance"}

ASSUME DispatcherAssumption ==
  /\ MaxEvents \in Nat /\ MaxEdits \in Nat
  /\ QueueCap \in Nat \ {0} /\ MaxConcurrent \in Nat \ {0} /\ MaxRetries \in Nat \ {0}
  /\ GlobalURL \in BOOLEAN /\ StoreMayFail \in BOOLEAN
  /\ GlobalEvents \subseteq Kinds \cup {"*"}
  /\ \A f \in Filters : f \subseteq Kinds \cup {"*"}
  /\ None \notin Ids \cup Events

VARIABLES
  queue,     \* Manager.eventCh
  emitted,   \* number of events emitted so far
  kind,      \* an event's type
  loop,      \* Start: "select", "acquire", "stopped"
  held,      \* the event Start has received and not yet handed on
  slots,     \* len(d.sem)
  at,        \* where each event is
  attempt,   \* send's loop variable
  found,     \* the row id dispatch looked up by name
  ctx,       \* "live" or "cancelled"
  current,   \* the name's row in the instances table, if any
  used,      \* history: the rows the name has had (no id is used again)
  hook,      \* the webhooks table: id -> [enabled, events] or None
  edits,
  tries, verdict   \* history: what the receivers saw (see WebhookDelivery)

loopVars == <<loop, held, slots>>
evtVars == <<emitted, kind>>
cfgVars == <<current, used, hook, edits>>
vars == <<queue, emitted, kind, loop, held, slots, at, attempt, found, ctx,
          current, used, hook, edits, tries, verdict>>

MaybeHook == {None} \cup [enabled : BOOLEAN, events : Filters]

Unset == [t \in Targets |-> 0]
Open == [t \in Targets |-> "open"]

Waiting(t) == IF t = "global" THEN "global_wait" ELSE "instance_wait"

\* The goroutines of dispatch.
ServingAt == {"global", "global_wait", "lookup", "webhook", "instance", "instance_wait"}
Serving == {e \in Events : at[e] \in ServingAt}

\* An empty list stands for all events, and so does "*".
ShouldDispatch(allowed, k) == allowed = {} \/ k \in allowed \/ "*" \in allowed

Move(e, place) == at' = [at EXCEPT ![e] = place]
Settle(e, t, v) == verdict' = [verdict EXCEPT ![e][t] = v]

-----------------------------------------------------------------------------
(* Instance.emit: never blocks, drops the event when the channel is full.  *)
(* It does not look at the store: an instance that outlives its row emits   *)
(* under its name all the same.                                            *)

Emit ==
  LET e == emitted + 1 IN
  /\ e \in Events
  /\ emitted' = e
  /\ \E k \in Kinds : kind' = [kind EXCEPT ![e] = k]
  /\ IF Len(queue) < QueueCap
     THEN queue' = Append(queue, e) /\ Move(e, "queued")
     ELSE Move(e, "dropped") /\ UNCHANGED queue
  /\ UNCHANGED <<loopVars, attempt, found, ctx, cfgVars, tries, verdict>>

-----------------------------------------------------------------------------
(* Dispatcher.Start *)

\* With both cases ready select picks either, so a cancelled context does not
\* keep the loop from receiving once more.
Receive ==
  /\ loop = "select" /\ queue # <<>>
  /\ held' = Head(queue) /\ queue' = Tail(queue)
  /\ Move(Head(queue), "held")
  /\ loop' = "acquire"
  /\ UNCHANGED <<evtVars, slots, attempt, found, ctx, cfgVars, tries, verdict>>

StopLoop ==
  /\ loop = "select" /\ ctx = "cancelled"
  /\ loop' = "stopped"
  /\ UNCHANGED <<queue, evtVars, held, slots, at, attempt, found, ctx, cfgVars, tries, verdict>>

\* Blocks on the semaphore, whatever the context, then starts dispatch, which
\* turns to the global webhook first.
Acquire ==
  /\ loop = "acquire" /\ slots < MaxConcurrent
  /\ slots' = slots + 1
  /\ loop' = "select" /\ held' = None
  /\ IF GlobalURL /\ ShouldDispatch(GlobalEvents, kind[held])
     THEN Move(held, "global") /\ UNCHANGED verdict
     ELSE Move(held, "lookup") /\ Settle(held, "global", "skipped")
  /\ UNCHANGED <<queue, evtVars, attempt, found, ctx, cfgVars, tries>>

-----------------------------------------------------------------------------
(* Dispatcher.send and backoff *)

\* Mutant: send releases the semaphore as well, after the global webhook.
LeaveReleasesTwice(e, t) ==
  /\ attempt' = [attempt EXCEPT ![e] = 0]
  /\ Move(e, IF t = "global" THEN "lookup" ELSE "done")
  /\ slots' = slots - 1

\* After send the goroutine goes on to the instance's webhook, or ends and its
\* deferred function releases the semaphore.
Leave(e, t) ==
  /\ attempt' = [attempt EXCEPT ![e] = 0]
  /\ IF t = "global"
     THEN Move(e, "lookup") /\ UNCHANGED slots
     ELSE Move(e, "done") /\ slots' = slots - 1

\* Mutant: no return after a 4xx answer.
PostRetriesRefused(e, t) ==
  /\ at[e] = t
  /\ tries' = [tries EXCEPT ![e][t] = @ + 1]
  /\ \/ Settle(e, t, "accepted") /\ Leave(e, t)
     \/ Settle(e, t, "refused") /\ Move(e, Waiting(t)) /\ UNCHANGED <<slots, attempt>>
     \/ Move(e, Waiting(t)) /\ UNCHANGED <<slots, attempt, verdict>>
  /\ UNCHANGED <<queue, evtVars, loop, held, found, ctx, cfgVars>>

\* One request, unless its URL does not parse.  2xx and 4xx (but 408 and 429)
\* end send; an error, which may come after the receiver got the request, and
\* any other status are retried.
Post(e, t) ==
  /\ at[e] = t
  /\ \/ /\ tries' = [tries EXCEPT ![e][t] = @ + 1]
        /\ \/ \E v \in {"accepted", "refused"} : Settle(e, t, v) /\ Leave(e, t)
           \/ Move(e, Waiting(t)) /\ UNCHANGED <<slots, attempt, verdict>>
     \/ /\ attempt[e] = 0
        /\ Settle(e, t, "skipped") /\ Leave(e, t)
        /\ UNCHANGED tries
  /\ UNCHANGED <<queue, evtVars, loop, held, found, ctx, cfgVars>>

\* Mutant: attempt <= maxRetries in the loop of send.
BackoffOverOneMore(e, t) ==
  /\ at[e] = Waiting(t)
  /\ \/ /\ attempt[e] + 1 <= MaxRetries
        /\ attempt' = [attempt EXCEPT ![e] = @ + 1]
        /\ Move(e, t)
        /\ UNCHANGED <<slots, verdict>>
     \/ /\ attempt[e] = MaxRetries
        /\ Settle(e, t, "exhausted")
        /\ Leave(e, t)
  /\ UNCHANGED <<queue, evtVars, loop, held, found, ctx, cfgVars, tries>>

\* backoff waits after every failed attempt, the last one included.
BackoffOver(e, t) ==
  /\ at[e] = Waiting(t)
  /\ \/ /\ attempt[e] + 1 < MaxRetries
        /\ attempt' = [attempt EXCEPT ![e] = @ + 1]
        /\ Move(e, t)
        /\ UNCHANGED <<slots, verdict>>
     \/ /\ attempt[e] + 1 = MaxRetries
        /\ Settle(e, t, "exhausted")
        /\ Leave(e, t)
  /\ UNCHANGED <<queue, evtVars, loop, held, found, ctx, cfgVars, tries>>

\* Mutant: the goroutine exits without releasing the semaphore.
BackoffCancelledLeaks(e, t) ==
  /\ at[e] = Waiting(t) /\ ctx = "cancelled"
  /\ Settle(e, t, "cancelled")
  /\ Move(e, "done")
  /\ UNCHANGED <<queue, evtVars, loopVars, attempt, found, ctx, cfgVars, tries>>

BackoffCancelled(e, t) ==
  /\ at[e] = Waiting(t) /\ ctx = "cancelled"
  /\ Settle(e, t, "cancelled")
  /\ Leave(e, t)
  /\ UNCHANGED <<queue, evtVars, loop, held, found, ctx, cfgVars, tries>>

-----------------------------------------------------------------------------
(* The rest of dispatch *)

\* Mutant: the early returns of dispatch do not release the semaphore.
EndDispatchLeaks(e) ==
  /\ Settle(e, "instance", "skipped")
  /\ Move(e, "done")
  /\ UNCHANGED slots

EndDispatch(e) ==
  /\ Settle(e, "instance", "skipped")
  /\ Move(e, "done")
  /\ slots' = slots - 1

ReadFails == ctx = "cancelled" \/ StoreMayFail

LookupInstance(e) ==
  /\ at[e] = "lookup"
  /\ \/ /\ ctx = "live" /\ current # None
        /\ found' = [found EXCEPT ![e] = current]
        /\ Move(e, "webhook")
        /\ UNCHANGED <<slots, verdict>>
     \/ (current = None \/ ReadFails) /\ EndDispatch(e) /\ UNCHANGED found
  /\ UNCHANGED <<queue, evtVars, loop, held, attempt, ctx, cfgVars, tries>>

Wanted(e) ==
  LET wh == hook[found[e]]
  IN  wh # None /\ wh.enabled /\ ShouldDispatch(wh.events, kind[e])

LookupWebhook(e) ==
  /\ at[e] = "webhook"
  /\ \/ ctx = "live" /\ Wanted(e) /\ Move(e, "instance") /\ UNCHANGED <<slots, verdict>>
     \/ (~Wanted(e) \/ ReadFails) /\ EndDispatch(e)
  /\ UNCHANGED <<queue, evtVars, loop, held, attempt, found, ctx, cfgVars, tries>>

-----------------------------------------------------------------------------
(* Around it: the API and main.go *)

\* HandleSetWebhook and HandleDeleteWebhook of the current instance.
EditWebhook ==
  /\ edits < MaxEdits /\ edits' = edits + 1
  /\ current # None
  /\ \E wh \in MaybeHook : hook' = [hook EXCEPT ![current] = wh]
  /\ UNCHANGED <<queue, evtVars, loopVars, at, attempt, found, ctx, current, used, tries, verdict>>

\* Manager.Delete, then Manager.Create under the same name: a new row id.
EditInstance ==
  /\ edits < MaxEdits /\ edits' = edits + 1
  /\ \/ /\ current # None /\ current' = None
        /\ hook' = [hook EXCEPT ![current] = None] /\ UNCHANGED used
     \/ /\ current = None /\ UNCHANGED hook
        /\ \E i \in Ids \ used : current' = i /\ used' = used \cup {i}
  /\ UNCHANGED <<queue, evtVars, loopVars, at, attempt, found, ctx, tries, verdict>>

\* SIGTERM.
Cancel ==
  /\ ctx = "live" /\ ctx' = "cancelled"
  /\ UNCHANGED <<queue, evtVars, loopVars, at, attempt, found, cfgVars, tries, verdict>>

-----------------------------------------------------------------------------
Init ==
  /\ queue = <<>> /\ emitted = 0
  /\ kind = [e \in Events |-> None]
  /\ loop = "select" /\ held = None /\ slots = 0
  /\ at = [e \in Events |-> "new"]
  /\ attempt = [e \in Events |-> 0] /\ found = [e \in Events |-> None]
  /\ ctx = "live"
  /\ current \in Ids /\ used = {current} /\ edits = 0
  /\ \E wh \in MaybeHook : hook = [i \in Ids |-> IF i = current THEN wh ELSE None]
  /\ tries = [e \in Events |-> Unset] /\ verdict = [e \in Events |-> Open]

Loop == Receive \/ StopLoop \/ Acquire

Serve(e) ==
  \/ \E t \in Targets : Post(e, t) \/ BackoffOver(e, t) \/ BackoffCancelled(e, t)
  \/ LookupInstance(e) \/ LookupWebhook(e)

Next ==
  \/ Emit \/ Loop
  \/ \E e \in Events : Serve(e)
  \/ EditWebhook \/ EditInstance \/ Cancel

Spec == Init /\ [][Next]_vars

\* The loop and the goroutines are scheduled, requests time out (http.Client has
\* a Timeout) and timers fire.  Of select's two ready cases the cancelled one is
\* not postponed for ever: the channel empties after shutdown.
Fairness == WF_vars(Loop) /\ \A e \in Events : WF_vars(Serve(e))

FairSpec == Spec /\ Fairness

-----------------------------------------------------------------------------
(* Properties *)

Places == {"new", "queued", "held", "dropped", "done"} \cup ServingAt
Verdicts == {"open", "accepted", "refused", "skipped", "exhausted", "cancelled"}

\* Every variable has its type.
TypeOK ==
  /\ queue \in Seq(Events) /\ emitted \in 0..MaxEvents
  /\ kind \in [Events -> Kinds \cup {None}]
  /\ loop \in {"select", "acquire", "stopped"}
  /\ held \in Events \cup {None}
  /\ slots \in Int
  /\ at \in [Events -> Places]
  /\ attempt \in [Events -> 0..(MaxRetries - 1)]
  /\ found \in [Events -> Ids \cup {None}]
  /\ ctx \in {"live", "cancelled"}
  /\ current \in Ids \cup {None} /\ used \subseteq Ids
  /\ hook \in [Ids -> MaybeHook] /\ edits \in Nat
  /\ tries \in [Events -> [Targets -> Nat]]
  /\ verdict \in [Events -> [Targets -> Verdicts]]

\* "Up to 50 webhook deliveries can run concurrently" (docs/webhooks.md:102):
\* the semaphore taken by Start and released by each goroutine, whatever way it
\* ends, bounds the events being delivered (dispatcher.go:54-56).
DeliveriesBounded == Cardinality(Serving) <= MaxConcurrent

\* send and dispatch keep the promise about tries and verdicts: no request
\* after an answer that is final, none beyond the maximum, the instance's
\* webhook only after the global one is settled, and giving up early only at
\* shutdown (dispatcher.go:63-159).
Delivery == INSTANCE WebhookDelivery WITH stopping <- (ctx = "cancelled")
KeepsPromise == Delivery!Spec

\* While the server runs every event that got into the channel is delivered or
\* given up in the end, however the receivers behave (dispatcher.go:48-61).
EventsSettle ==
  \A e \in Events : at[e] = "queued" ~> (at[e] = "done" \/ ctx = "cancelled")

\* Once the context is cancelled the loop ends, although it does not look at
\* the context while it waits for a slot, and so does every delivery
\* (dispatcher.go:51-56 and 151-159).
StopsAfterCancel == ctx = "cancelled" ~> (loop = "stopped" /\ Serving = {})

=============================================================================
