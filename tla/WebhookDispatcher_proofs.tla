---------------------- MODULE WebhookDispatcher_proofs ----------------------
(***************************************************************************)
(* Proofs about WebhookDispatcher for every value of its constants: any    *)
(* number of events, any capacities and numbers of tries.                  *)
(***************************************************************************)
EXTENDS WebhookDispatcher, FiniteSetTheorems, TLAPS

-----------------------------------------------------------------------------
(* Types *)

LEMMA MoveType ==
  ASSUME TypeOK, NEW e, NEW place \in Places, Move(e, place)
  PROVE  at' \in [Events -> Places]
  BY DEF TypeOK, Move

LEMMA SettleType ==
  ASSUME TypeOK, NEW e, NEW t, NEW v \in Verdicts, Settle(e, t, v)
  PROVE  verdict' \in [Events -> [Targets -> Verdicts]]
  BY DEF TypeOK, Settle

LEMMA LeaveType ==
  ASSUME TypeOK, NEW e, NEW t, Leave(e, t)
  PROVE  /\ at' \in [Events -> Places]
         /\ attempt' \in [Events -> 0..(MaxRetries - 1)]
         /\ slots' \in Int
<1>1. attempt' \in [Events -> 0..(MaxRetries - 1)]
  <2>1. 0 \in 0..(MaxRetries - 1)
    BY DispatcherAssumption
  <2>2. QED
    BY <2>1 DEF TypeOK, Leave
<1>2. CASE t = "global"
  BY <1>1, <1>2, MoveType DEF TypeOK, Leave, Places, ServingAt
<1>3. CASE t # "global"
  BY <1>1, <1>3, MoveType DEF TypeOK, Leave, Places
<1>4. QED
  BY <1>2, <1>3

LEMMA EndDispatchType ==
  ASSUME TypeOK, NEW e, EndDispatch(e)
  PROVE  /\ at' \in [Events -> Places]
         /\ verdict' \in [Events -> [Targets -> Verdicts]]
         /\ slots' \in Int
  BY MoveType, SettleType DEF TypeOK, EndDispatch, Places, Verdicts

LEMMA TypeLoop ==
  ASSUME TypeOK, Loop
  PROVE  TypeOK'
<1>1. CASE Receive
  <2>1. Head(queue) \in Events /\ Tail(queue) \in Seq(Events)
    BY <1>1 DEF TypeOK, Receive
  <2>2. at' \in [Events -> Places]
    BY <1>1, MoveType DEF Receive, Places
  <2>3. QED
    BY <1>1, <2>1, <2>2 DEF TypeOK, Receive, evtVars, cfgVars
<1>2. CASE StopLoop
  BY <1>2 DEF TypeOK, StopLoop, evtVars, cfgVars
<1>3. CASE Acquire
  <2>1. at' \in [Events -> Places] /\ verdict' \in [Events -> [Targets -> Verdicts]]
    <3>1. CASE Move(held, "global") /\ UNCHANGED verdict
      BY <3>1, MoveType DEF TypeOK, Places, ServingAt
    <3>2. CASE Move(held, "lookup") /\ Settle(held, "global", "skipped")
      BY <3>2, MoveType, SettleType DEF Places, ServingAt, Verdicts
    <3>3. QED
      BY <1>3, <3>1, <3>2 DEF Acquire
  <2>2. QED
    BY <1>3, <2>1 DEF TypeOK, Acquire, evtVars, cfgVars
<1>4. QED
  BY <1>1, <1>2, <1>3 DEF Loop

LEMMA TypeSend ==
  ASSUME TypeOK, NEW e \in Events, NEW t \in Targets,
         Post(e, t) \/ BackoffOver(e, t) \/ BackoffCancelled(e, t)
  PROVE  TypeOK'
<1>1. Waiting(t) \in Places /\ t \in Places
  BY DEF Waiting, Places, ServingAt, Targets
<1>2. CASE Post(e, t)
  <2>1. tries' \in [Events -> [Targets -> Nat]]
    <3>1. CASE tries' = [tries EXCEPT ![e][t] = @ + 1]
      BY <3>1 DEF TypeOK
    <3>2. CASE UNCHANGED tries
      BY <3>2 DEF TypeOK
    <3>3. QED
      BY <1>2, <3>1, <3>2 DEF Post
  <2>2. /\ at' \in [Events -> Places]
        /\ attempt' \in [Events -> 0..(MaxRetries - 1)]
        /\ slots' \in Int
        /\ verdict' \in [Events -> [Targets -> Verdicts]]
    <3>1. CASE \E v \in {"accepted", "refused", "skipped"} : Settle(e, t, v) /\ Leave(e, t)
      BY <3>1, LeaveType, SettleType DEF Verdicts
    <3>2. CASE Move(e, Waiting(t)) /\ UNCHANGED <<slots, attempt, verdict>>
      BY <1>1, <3>2, MoveType DEF TypeOK
    <3>3. QED
      BY <1>2, <3>1, <3>2 DEF Post
  <2>3. QED
    BY <1>2, <2>1, <2>2 DEF TypeOK, Post, evtVars, cfgVars
<1>3. CASE BackoffOver(e, t)
  <2>1. /\ at' \in [Events -> Places]
        /\ attempt' \in [Events -> 0..(MaxRetries - 1)]
        /\ slots' \in Int
        /\ verdict' \in [Events -> [Targets -> Verdicts]]
    <3>1. CASE /\ attempt[e] + 1 < MaxRetries
               /\ attempt' = [attempt EXCEPT ![e] = @ + 1]
               /\ Move(e, t)
               /\ UNCHANGED <<slots, verdict>>
      <4>1. attempt[e] + 1 \in 0..(MaxRetries - 1)
        BY <3>1, DispatcherAssumption DEF TypeOK
      <4>2. attempt' \in [Events -> 0..(MaxRetries - 1)]
        BY <3>1, <4>1 DEF TypeOK
      <4>3. QED
        BY <1>1, <3>1, <4>2, MoveType DEF TypeOK
    <3>2. CASE Settle(e, t, "exhausted") /\ Leave(e, t)
      BY <3>2, LeaveType, SettleType DEF Verdicts
    <3>3. QED
      BY <1>3, <3>1, <3>2 DEF BackoffOver
  <2>2. QED
    BY <1>3, <2>1 DEF TypeOK, BackoffOver, evtVars, cfgVars
<1>4. CASE BackoffCancelled(e, t)
  BY <1>4, LeaveType, SettleType DEF TypeOK, BackoffCancelled, Verdicts, evtVars, cfgVars
<1>5. QED
  BY <1>2, <1>3, <1>4

LEMMA TypeLookup ==
  ASSUME TypeOK, NEW e \in Events, LookupInstance(e) \/ LookupWebhook(e)
  PROVE  TypeOK'
<1>1. CASE LookupInstance(e)
  <2>1. CASE /\ current # None
             /\ found' = [found EXCEPT ![e] = current]
             /\ Move(e, "webhook")
             /\ UNCHANGED <<slots, verdict>>
    BY <1>1, <2>1, MoveType DEF TypeOK, LookupInstance, Places, ServingAt, evtVars, cfgVars
  <2>2. CASE EndDispatch(e) /\ UNCHANGED found
    BY <1>1, <2>2, EndDispatchType DEF TypeOK, LookupInstance, evtVars, cfgVars
  <2>3. QED
    BY <1>1, <2>1, <2>2 DEF LookupInstance
<1>2. CASE LookupWebhook(e)
  <2>1. CASE Move(e, "instance") /\ UNCHANGED <<slots, verdict>>
    BY <1>2, <2>1, MoveType DEF TypeOK, LookupWebhook, Places, ServingAt, evtVars, cfgVars
  <2>2. CASE EndDispatch(e)
    BY <1>2, <2>2, EndDispatchType DEF TypeOK, LookupWebhook, evtVars, cfgVars
  <2>3. QED
    BY <1>2, <2>1, <2>2 DEF LookupWebhook
<1>3. QED
  BY <1>1, <1>2

LEMMA TypeAround ==
  ASSUME TypeOK, Emit \/ EditWebhook \/ EditInstance \/ Cancel
  PROVE  TypeOK'
<1>1. CASE Emit
  <2> DEFINE e == emitted + 1
  <2>1. e \in Events /\ e \in 0..MaxEvents
    BY <1>1 DEF TypeOK, Emit, Events
  <2>2. kind' \in [Events -> Kinds \cup {None}]
    BY <1>1, <2>1 DEF TypeOK, Emit
  <2>3. queue' \in Seq(Events) /\ at' \in [Events -> Places]
    <3>1. CASE queue' = Append(queue, e) /\ Move(e, "queued")
      BY <2>1, <3>1, MoveType DEF TypeOK, Places
    <3>2. CASE Move(e, "dropped") /\ UNCHANGED queue
      BY <3>2, MoveType DEF TypeOK, Places
    <3>3. QED
      BY <1>1, <3>1, <3>2 DEF Emit
  <2>4. QED
    BY <1>1, <2>1, <2>2, <2>3 DEF TypeOK, Emit, loopVars, cfgVars
<1>2. CASE EditWebhook
  <2>1. hook' \in [Ids -> MaybeHook]
    BY <1>2 DEF TypeOK, EditWebhook
  <2>2. QED
    BY <1>2, <2>1 DEF TypeOK, EditWebhook, evtVars, loopVars
<1>3. CASE EditInstance
  <2>1. hook' \in [Ids -> MaybeHook] /\ current' \in Ids \cup {None} /\ used' \subseteq Ids
    BY <1>3 DEF TypeOK, EditInstance, MaybeHook
  <2>2. QED
    BY <1>3, <2>1 DEF TypeOK, EditInstance, evtVars, loopVars
<1>4. CASE Cancel
  BY <1>4 DEF TypeOK, Cancel, evtVars, loopVars, cfgVars
<1>5. QED
  BY <1>1, <1>2, <1>3, <1>4

LEMMA TypeInit == Init => TypeOK
  BY DispatcherAssumption DEF Init, TypeOK, Events, Places, Verdicts, Unset, Open, MaybeHook, Targets

\* Every variable keeps its type.
THEOREM TypeCorrect == Spec => []TypeOK
<1>1. TypeOK /\ [Next]_vars => TypeOK'
  <2> SUFFICES ASSUME TypeOK, [Next]_vars PROVE TypeOK'
    OBVIOUS
  <2>1. CASE Loop
    BY <2>1, TypeLoop
  <2>2. ASSUME NEW e \in Events, Serve(e) PROVE TypeOK'
    BY <2>2, TypeSend, TypeLookup DEF Serve
  <2>3. CASE Emit \/ EditWebhook \/ EditInstance \/ Cancel
    BY <2>3, TypeAround
  <2>4. CASE UNCHANGED vars
    BY <2>4 DEF TypeOK, vars
  <2>5. QED
    BY <2>1, <2>2, <2>3, <2>4 DEF Next
<1>2. QED
  BY TypeInit, <1>1, PTL DEF Spec

-----------------------------------------------------------------------------
(* The semaphore *)

\* The events that have not reached dispatch: the channel holds each of them
\* once, Start holds the one it has received.
QueueInv ==
  /\ \A i \in 1..Len(queue) : at[queue[i]] = "queued"
  /\ \A i, j \in 1..Len(queue) : queue[i] = queue[j] => i = j
  /\ \A e \in Events : e > emitted => at[e] = "new"
  /\ loop = "acquire" => held \in Events /\ at[held] = "held"

\* Every goroutine of dispatch holds exactly one slot.
SlotInv == slots = Cardinality(Serving) /\ slots <= MaxConcurrent

LEMMA ServingFinite ==
  IsFiniteSet(Serving) /\ IsFiniteSet(Serving')
<1>1. IsFiniteSet(Events)
  BY FS_Interval, DispatcherAssumption DEF Events
<1>2. Serving \subseteq Events /\ Serving' \subseteq Events
  BY DEF Serving, Events
<1>3. QED
  BY <1>1, <1>2, FS_Subset

LEMMA ServingStays ==
  ASSUME TypeOK, NEW e \in Events, NEW place, Move(e, place),
         at[e] \in ServingAt <=> place \in ServingAt
  PROVE  Serving' = Serving
<1>1. ASSUME NEW d \in Events PROVE at'[d] \in ServingAt <=> at[d] \in ServingAt
  BY DEF TypeOK, Move
<1>2. QED
  BY <1>1 DEF Serving, Events

LEMMA ServingGains ==
  ASSUME TypeOK, NEW e \in Events, NEW place \in ServingAt, Move(e, place),
         at[e] \notin ServingAt
  PROVE  Cardinality(Serving') = Cardinality(Serving) + 1
<1>1. ASSUME NEW d \in Events PROVE at'[d] \in ServingAt <=> d = e \/ at[d] \in ServingAt
  BY DEF TypeOK, Move
<1>2. Serving' = Serving \cup {e} /\ e \notin Serving
  BY <1>1 DEF Serving, Events
<1>3. QED
  BY <1>2, ServingFinite, FS_AddElement

LEMMA ServingLoses ==
  ASSUME TypeOK, NEW e \in Events, Move(e, "done"), at[e] \in ServingAt
  PROVE  Cardinality(Serving') = Cardinality(Serving) - 1
<1>1. ASSUME NEW d \in Events PROVE at'[d] \in ServingAt <=> d # e /\ at[d] \in ServingAt
  BY DEF TypeOK, Move, ServingAt
<1>2. Serving' = Serving \ {e} /\ e \in Serving
  BY <1>1 DEF Serving, Events
<1>3. QED
  BY <1>2, ServingFinite, FS_RemoveElement

\* A step of a goroutine moves its own event, and gives the slot back exactly
\* when it ends.
Ends(e) == Move(e, "done") /\ slots' = slots - 1
GoesOn(e) == \E place \in ServingAt : Move(e, place) /\ slots' = slots

LEMMA LeaveMoves ==
  ASSUME NEW e, NEW t, Leave(e, t)
  PROVE  Ends(e) \/ GoesOn(e)
  BY DEF Leave, Ends, GoesOn, ServingAt

LEMMA ServeMoves ==
  ASSUME NEW e \in Events, Serve(e)
  PROVE  /\ at[e] \in ServingAt
         /\ UNCHANGED <<queue, emitted, loop, held>>
         /\ Ends(e) \/ GoesOn(e)
<1>1. \A t \in Targets : t \in ServingAt /\ Waiting(t) \in ServingAt
  BY DEF Targets, Waiting, ServingAt
<1>2. ASSUME NEW t \in Targets, Post(e, t) \/ BackoffOver(e, t) \/ BackoffCancelled(e, t)
      PROVE  /\ at[e] \in ServingAt
             /\ UNCHANGED <<queue, emitted, loop, held>>
             /\ Ends(e) \/ GoesOn(e)
  <2>1. at[e] \in ServingAt /\ UNCHANGED <<queue, emitted, loop, held>>
    BY <1>1, <1>2 DEF Post, BackoffOver, BackoffCancelled, evtVars
  <2>2. \/ Leave(e, t)
        \/ Move(e, Waiting(t)) /\ UNCHANGED slots
        \/ Move(e, t) /\ UNCHANGED slots
    BY <1>2 DEF Post, BackoffOver, BackoffCancelled
  <2>3. QED
    BY <1>1, <2>1, <2>2, LeaveMoves DEF GoesOn
<1>3. CASE LookupInstance(e) \/ LookupWebhook(e)
  <2>1. at[e] \in ServingAt /\ UNCHANGED <<queue, emitted, loop, held>>
    BY <1>3 DEF LookupInstance, LookupWebhook, evtVars, ServingAt
  <2>2. \/ EndDispatch(e)
        \/ Move(e, "webhook") /\ UNCHANGED slots
        \/ Move(e, "instance") /\ UNCHANGED slots
    BY <1>3 DEF LookupInstance, LookupWebhook
  <2>3. QED
    BY <2>1, <2>2 DEF EndDispatch, Ends, GoesOn, ServingAt
<1>4. QED
  BY <1>2, <1>3 DEF Serve

LEMMA QueueServe ==
  ASSUME TypeOK, QueueInv, NEW e \in Events, Serve(e)
  PROVE  QueueInv'
<1>1. /\ at[e] \in ServingAt
      /\ UNCHANGED <<queue, emitted, loop, held>>
      /\ \E place : Move(e, place)
  BY ServeMoves DEF Ends, GoesOn
<1>2. \A d \in Events : d # e => at'[d] = at[d]
  BY <1>1 DEF TypeOK, Move
<1>3. ASSUME NEW i \in 1..Len(queue) PROVE queue[i] \in Events /\ queue[i] # e
  BY <1>1, <1>3 DEF TypeOK, QueueInv, ServingAt
<1>4. loop = "acquire" => held # e
  BY <1>1 DEF QueueInv, ServingAt
<1>5. e <= emitted
  BY <1>1 DEF TypeOK, QueueInv, ServingAt, Events
<1>6. QED
  BY <1>1, <1>2, <1>3, <1>4, <1>5 DEF TypeOK, QueueInv, Events

LEMMA QueueEmit ==
  ASSUME TypeOK, QueueInv, Emit
  PROVE  QueueInv' /\ Serving' = Serving /\ UNCHANGED slots
<1> DEFINE e == emitted + 1
<1>1. e \in Events /\ at[e] = "new" /\ emitted' = e
  BY DEF TypeOK, QueueInv, Emit, Events
<1>2. \/ queue' = Append(queue, e) /\ Move(e, "queued")
      \/ Move(e, "dropped") /\ UNCHANGED queue
  BY DEF Emit
<1>3. UNCHANGED <<loop, held, slots>>
  BY DEF Emit, loopVars
<1>4. Serving' = Serving
  BY <1>1, <1>2, ServingStays DEF ServingAt
<1>5. \A d \in Events : d # e => at'[d] = at[d]
  BY <1>2 DEF TypeOK, Move
<1>6. \A i \in 1..Len(queue) : queue[i] \in Events /\ queue[i] # e
  BY <1>1 DEF TypeOK, QueueInv
<1>7. CASE queue' = Append(queue, e) /\ Move(e, "queued")
  <2>1. at'[e] = "queued"
    BY <1>1, <1>7 DEF TypeOK, Move
  <2>2. /\ Len(queue') = Len(queue) + 1
        /\ queue'[Len(queue) + 1] = e
        /\ \A i \in 1..Len(queue) : queue'[i] = queue[i]
    BY <1>1, <1>7 DEF TypeOK
  <2>3. ASSUME NEW i \in 1..Len(queue')
        PROVE  \/ i = Len(queue) + 1 /\ queue'[i] = e
               \/ i \in 1..Len(queue) /\ queue'[i] = queue[i] /\ queue[i] # e
    BY <1>6, <2>2 DEF TypeOK
  <2>4. \A i \in 1..Len(queue') : at'[queue'[i]] = "queued"
    BY <1>5, <1>6, <2>1, <2>3 DEF QueueInv
  <2>5. \A i, j \in 1..Len(queue') : queue'[i] = queue'[j] => i = j
    BY <2>3 DEF QueueInv
  <2>6. \A d \in Events : d > emitted' => at'[d] = "new"
    BY <1>1, <1>5 DEF TypeOK, QueueInv, Events
  <2>7. QED
    BY <1>1, <1>3, <1>4, <1>5, <2>4, <2>5, <2>6 DEF QueueInv
<1>8. CASE Move(e, "dropped") /\ UNCHANGED queue
  BY <1>1, <1>3, <1>4, <1>5, <1>6, <1>8 DEF TypeOK, QueueInv, Events
<1>9. QED
  BY <1>2, <1>7, <1>8

LEMMA QueueReceive ==
  ASSUME TypeOK, QueueInv, Receive
  PROVE  QueueInv' /\ Serving' = Serving /\ UNCHANGED slots
<1> DEFINE e == Head(queue)
<1>1. /\ queue \in Seq(Events) /\ queue # <<>>
      /\ e = queue[1] /\ e \in Events /\ at[e] = "queued"
  BY DEF TypeOK, QueueInv, Receive
<1>2. /\ held' = e /\ queue' = Tail(queue) /\ Move(e, "held") /\ loop' = "acquire"
      /\ UNCHANGED <<slots, emitted>>
  BY DEF Receive, evtVars
<1>3. Serving' = Serving
  BY <1>1, <1>2, ServingStays DEF ServingAt
<1>4. at'[e] = "held" /\ \A d \in Events : d # e => at'[d] = at[d]
  BY <1>1, <1>2 DEF TypeOK, Move
<1>5. /\ Len(queue') = Len(queue) - 1
      /\ \A i \in 1..Len(queue') : queue'[i] = queue[i + 1] /\ i + 1 \in 1..Len(queue)
  BY <1>1, <1>2
<1>6. ASSUME NEW i \in 1..Len(queue') PROVE queue'[i] # e /\ at'[queue'[i]] = "queued"
  <2>1. queue'[i] = queue[i + 1] /\ i + 1 \in 1..Len(queue) /\ 1 \in 1..Len(queue) /\ i + 1 # 1
    BY <1>1, <1>5
  <2>2. queue[i + 1] # e
    BY <1>1, <2>1 DEF QueueInv
  <2>3. queue[i + 1] \in Events
    BY <1>1, <2>1
  <2>4. QED
    BY <1>4, <2>1, <2>2, <2>3 DEF QueueInv
<1>7. ASSUME NEW i \in 1..Len(queue'), NEW j \in 1..Len(queue'), queue'[i] = queue'[j]
      PROVE  i = j
  <2>1. queue[i + 1] = queue[j + 1] /\ i + 1 \in 1..Len(queue) /\ j + 1 \in 1..Len(queue)
    BY <1>5, <1>7
  <2>2. i + 1 = j + 1
    BY <2>1 DEF QueueInv
  <2>3. QED
    BY <2>2
<1>8. \A d \in Events : d > emitted' => at'[d] = "new"
  BY <1>1, <1>2, <1>4 DEF QueueInv
<1>9. QED
  BY <1>1, <1>2, <1>3, <1>4, <1>6, <1>7, <1>8 DEF QueueInv

LEMMA QueueAcquire ==
  ASSUME TypeOK, QueueInv, Acquire
  PROVE  QueueInv' /\ Cardinality(Serving') = Cardinality(Serving) + 1
<1>1. /\ held \in Events /\ at[held] = "held" /\ loop' = "select"
      /\ UNCHANGED <<queue, emitted>>
  BY DEF QueueInv, Acquire, evtVars
<1>2. \E place \in ServingAt : Move(held, place)
  BY DEF Acquire, ServingAt
<1>3. Cardinality(Serving') = Cardinality(Serving) + 1
  BY <1>1, <1>2, ServingGains DEF ServingAt
<1>4. \A d \in Events : d # held => at'[d] = at[d]
  BY <1>2 DEF TypeOK, Move
<1>5. \A i \in 1..Len(queue) : queue[i] \in Events /\ queue[i] # held
  BY <1>1 DEF TypeOK, QueueInv
<1>6. held <= emitted
  BY <1>1 DEF TypeOK, QueueInv, Events
<1>7. QED
  BY <1>1, <1>3, <1>4, <1>5, <1>6 DEF TypeOK, QueueInv, Events

\* Loop and goroutines keep the count of the semaphore right.
LEMMA SlotStep ==
  ASSUME TypeOK, QueueInv, SlotInv, [Next]_vars
  PROVE  QueueInv' /\ SlotInv'
<1>1. Cardinality(Serving) \in Nat
  BY ServingFinite, FS_CardinalityType
<1>2. CASE Emit
  BY <1>2, QueueEmit DEF SlotInv
<1>3. CASE Receive
  BY <1>3, QueueReceive DEF SlotInv
<1>4. CASE Acquire
  <2>1. slots' = slots + 1 /\ slots < MaxConcurrent
    BY <1>4 DEF Acquire
  <2>2. QED
    BY <1>1, <1>4, <2>1, QueueAcquire, DispatcherAssumption DEF SlotInv
<1>5. ASSUME NEW e \in Events, Serve(e) PROVE QueueInv' /\ SlotInv'
  <2>1. QueueInv'
    BY <1>5, QueueServe
  <2>2. at[e] \in ServingAt
    BY <1>5, ServeMoves
  <2>3. CASE Ends(e)
    BY <1>1, <2>1, <2>2, <2>3, ServingLoses, DispatcherAssumption DEF Ends, SlotInv
  <2>4. CASE GoesOn(e)
    BY <2>1, <2>2, <2>4, ServingStays DEF GoesOn, SlotInv
  <2>5. QED
    BY <1>5, <2>3, <2>4, ServeMoves
<1>6. CASE StopLoop \/ EditWebhook \/ EditInstance \/ Cancel \/ UNCHANGED vars
  <2>1. UNCHANGED <<queue, emitted, held, slots, at>> /\ loop' \in {loop, "stopped"}
    BY <1>6 DEF StopLoop, EditWebhook, EditInstance, Cancel, evtVars, loopVars, vars
  <2>2. Serving' = Serving
    BY <2>1 DEF Serving
  <2>3. QED
    BY <2>1, <2>2 DEF QueueInv, SlotInv
<1>7. QED
  BY <1>2, <1>3, <1>4, <1>5, <1>6 DEF Next, Loop

LEMMA SlotInit == Init => QueueInv /\ SlotInv
<1> SUFFICES ASSUME Init PROVE QueueInv /\ SlotInv
  OBVIOUS
<1>1. Serving = {}
  BY DEF Init, Serving, ServingAt
<1>2. QED
  BY <1>1, FS_EmptySet, DispatcherAssumption DEF Init, QueueInv, SlotInv

LEMMA SlotInvariant == Spec => [](TypeOK /\ QueueInv /\ SlotInv)
<1>1. QueueInv /\ SlotInv /\ TypeOK /\ [Next]_vars => QueueInv' /\ SlotInv'
  BY SlotStep
<1>2. QED
  BY <1>1, SlotInit, TypeCorrect, PTL DEF Spec

\* However the goroutines end, no more than MaxConcurrent events are being
\* delivered at any time (dispatcher.go:54-56).
THEOREM BoundedDeliveries == Spec => []DeliveriesBounded
<1>1. SlotInv => DeliveriesBounded
  BY DEF SlotInv, DeliveriesBounded
<1>2. QED
  BY <1>1, SlotInvariant, PTL

-----------------------------------------------------------------------------
(* The promise *)

\* What the place of an event says about its tries and verdicts: the receivers
\* are settled in turn, and attempt counts the requests of the current send.
Kept(place, k, v, n) ==
  /\ place # "done" => v["instance"] = "open"
  /\ place \in {"new", "queued", "held", "global", "global_wait"} => v["global"] = "open"
  /\ place \in {"lookup", "webhook", "instance", "instance_wait"} => v["global"] # "open"
  /\ place \in {"new", "queued", "held", "lookup", "webhook"} => k = 0
  /\ place \in {"new", "queued", "held"} => n["global"] = 0
  /\ place \notin {"instance", "instance_wait", "done"} => n["instance"] = 0
  /\ place \in Targets => n[place] = k
  /\ \A t \in Targets : place = Waiting(t) => n[t] = k + 1

PromiseInv == \A e \in Events : Kept(at[e], attempt[e], verdict[e], tries[e])

\* A step that touches one event only has to keep the promise for that one.
LEMMA OneEvent ==
  ASSUME PromiseInv, NEW e \in Events,
         \A d \in Events \ {e} :
           /\ at'[d] = at[d] /\ attempt'[d] = attempt[d]
           /\ verdict'[d] = verdict[d] /\ tries'[d] = tries[d],
         Kept(at'[e], attempt'[e], verdict'[e], tries'[e])
  PROVE  PromiseInv'
<1>1. ASSUME NEW d \in Events PROVE Kept(at'[d], attempt'[d], verdict'[d], tries'[d])
  BY DEF PromiseInv
<1>2. QED
  BY <1>1 DEF PromiseInv

\* The places of send, with their receiver's turn and number of tries.
LEMMA InSend ==
  ASSUME TypeOK, PromiseInv, NEW e \in Events, NEW t \in Targets, at[e] \in {t, Waiting(t)}
  PROVE  /\ Delivery!Turn(e, t)
         /\ attempt[e] < MaxRetries /\ attempt[e] \in Nat
         /\ tries[e][t] = IF at[e] = t THEN attempt[e] ELSE attempt[e] + 1
         /\ t = "global" => verdict[e]["instance"] = "open" /\ tries[e]["instance"] = 0
<1>1. Kept(at[e], attempt[e], verdict[e], tries[e])
  BY DEF PromiseInv
<1>2. attempt[e] \in Nat /\ attempt[e] < MaxRetries
  BY DispatcherAssumption DEF TypeOK
<1>3. CASE t = "global"
  BY <1>1, <1>2, <1>3 DEF Kept, Targets, Waiting, Delivery!Turn
<1>4. CASE t = "instance"
  BY <1>1, <1>2, <1>4 DEF Kept, Targets, Waiting, Delivery!Turn
<1>5. QED
  BY <1>3, <1>4 DEF Targets

\* Leaving send with a verdict keeps the promise.
LEMMA LeaveKeeps ==
  ASSUME TypeOK, PromiseInv, NEW e \in Events, NEW t \in Targets, at[e] \in {t, Waiting(t)},
         NEW v \in Verdicts \ {"open"}, Settle(e, t, v), Leave(e, t),
         tries' = tries \/ tries' = [tries EXCEPT ![e][t] = @ + 1]
  PROVE  PromiseInv'
<1>1. /\ t = "global" => verdict[e]["instance"] = "open" /\ tries[e]["instance"] = 0
  BY InSend
<1>2. \A d \in Events \ {e} :
        /\ at'[d] = at[d] /\ attempt'[d] = attempt[d]
        /\ verdict'[d] = verdict[d] /\ tries'[d] = tries[d]
  BY DEF TypeOK, Settle, Leave, Move
<1>3. /\ attempt'[e] = 0 /\ at'[e] = IF t = "global" THEN "lookup" ELSE "done"
      /\ verdict'[e][t] = v /\ \A s \in Targets \ {t} : verdict'[e][s] = verdict[e][s]
      /\ \A s \in Targets \ {t} : tries'[e][s] = tries[e][s]
  BY DEF TypeOK, Settle, Leave, Move
<1>4. CASE t = "global"
  BY <1>1, <1>2, <1>3, <1>4, OneEvent DEF Kept, Targets, Waiting
<1>5. CASE t = "instance"
  BY <1>2, <1>3, <1>5, OneEvent DEF Kept, Targets, Waiting
<1>6. QED
  BY <1>4, <1>5 DEF Targets

LEMMA PostKeeps ==
  ASSUME TypeOK, PromiseInv, NEW e \in Events, NEW t \in Targets, Post(e, t)
  PROVE  PromiseInv' /\ Delivery!Next
<1>1. at[e] = t /\ ctx' = ctx
  BY DEF Post
<1>2. Delivery!Turn(e, t) /\ tries[e][t] = attempt[e] /\ attempt[e] < MaxRetries
  BY <1>1, InSend
<1>3. CASE /\ tries' = [tries EXCEPT ![e][t] = @ + 1]
           /\ \E v \in {"accepted", "refused"} : Settle(e, t, v) /\ Leave(e, t)
  <2>1. PromiseInv'
    BY <1>1, <1>3, LeaveKeeps DEF Verdicts
  <2>2. Delivery!Try(e, t)
    BY <1>1, <1>2, <1>3 DEF Delivery!Try, Delivery!Settle, Settle
  <2>3. QED
    BY <2>1, <2>2 DEF Delivery!Next, Delivery!Targets, Targets
<1>4. CASE /\ tries' = [tries EXCEPT ![e][t] = @ + 1]
           /\ Move(e, Waiting(t)) /\ UNCHANGED <<slots, attempt, verdict>>
  <2>1. \A d \in Events \ {e} : at'[d] = at[d] /\ tries'[d] = tries[d]
    BY <1>4 DEF TypeOK, Move
  <2>2. /\ at'[e] = Waiting(t) /\ tries'[e][t] = attempt[e] + 1
        /\ \A s \in Targets \ {t} : tries'[e][s] = tries[e][s]
    BY <1>2, <1>4 DEF TypeOK, Move
  <2>3. Kept(at[e], attempt[e], verdict[e], tries[e])
    BY DEF PromiseInv
  <2>4. Kept(at'[e], attempt[e], verdict[e], tries'[e])
    <3>1. CASE t = "global"
      BY <1>1, <2>2, <2>3, <3>1 DEF Kept, Targets, Waiting
    <3>2. CASE t = "instance"
      BY <1>1, <2>2, <2>3, <3>2 DEF Kept, Targets, Waiting
    <3>3. QED
      BY <3>1, <3>2 DEF Targets
  <2>5. PromiseInv'
    BY <1>4, <2>1, <2>4, OneEvent
  <2>6. Delivery!Try(e, t)
    BY <1>1, <1>2, <1>4 DEF Delivery!Try
  <2>7. QED
    BY <2>5, <2>6 DEF Delivery!Next, Delivery!Targets, Targets
<1>5. CASE attempt[e] = 0 /\ Settle(e, t, "skipped") /\ Leave(e, t) /\ UNCHANGED tries
  <2>1. PromiseInv'
    BY <1>1, <1>5, LeaveKeeps DEF Verdicts
  <2>2. Delivery!Skip(e, t)
    BY <1>1, <1>2, <1>5 DEF Delivery!Skip, Delivery!Settle, Settle
  <2>3. QED
    BY <2>1, <2>2 DEF Delivery!Next, Delivery!Targets, Targets
<1>6. QED
  BY <1>3, <1>4, <1>5 DEF Post

LEMMA BackoffKeeps ==
  ASSUME TypeOK, PromiseInv, NEW e \in Events, NEW t \in Targets,
         BackoffOver(e, t) \/ BackoffCancelled(e, t)
  PROVE  PromiseInv' /\ [Delivery!Next]_(Delivery!vars)
<1>1. at[e] = Waiting(t) /\ at[e] # t /\ ctx' = ctx /\ tries' = tries
  BY DEF BackoffOver, BackoffCancelled, Waiting, Targets
<1>2. Delivery!Turn(e, t) /\ attempt[e] \in Nat /\ tries[e][t] = attempt[e] + 1
  BY <1>1, InSend
<1>3. CASE /\ attempt' = [attempt EXCEPT ![e] = @ + 1]
           /\ Move(e, t)
           /\ UNCHANGED <<slots, verdict>>
  <2>1. \A d \in Events \ {e} : at'[d] = at[d] /\ attempt'[d] = attempt[d]
    BY <1>3 DEF TypeOK, Move
  <2>2. at'[e] = t /\ attempt'[e] = attempt[e] + 1
    BY <1>3 DEF TypeOK, Move
  <2>3. Kept(at[e], attempt[e], verdict[e], tries[e])
    BY DEF PromiseInv
  <2>4. Kept(at'[e], attempt'[e], verdict[e], tries[e])
    <3>1. CASE t = "global"
      BY <1>1, <1>2, <2>2, <2>3, <3>1 DEF Kept, Targets, Waiting
    <3>2. CASE t = "instance"
      BY <1>1, <1>2, <2>2, <2>3, <3>2 DEF Kept, Targets, Waiting
    <3>3. QED
      BY <3>1, <3>2 DEF Targets
  <2>5. QED
    BY <1>1, <1>3, <2>1, <2>4, OneEvent DEF Delivery!vars
<1>4. CASE attempt[e] + 1 = MaxRetries /\ Settle(e, t, "exhausted") /\ Leave(e, t)
  <2>1. PromiseInv'
    BY <1>1, <1>4, LeaveKeeps DEF Verdicts
  <2>2. Delivery!GiveUp(e, t)
    BY <1>1, <1>2, <1>4 DEF Delivery!GiveUp, Delivery!Settle, Settle
  <2>3. QED
    BY <2>1, <2>2 DEF Delivery!Next, Delivery!Targets, Targets
<1>5. CASE ctx = "cancelled" /\ Settle(e, t, "cancelled") /\ Leave(e, t)
  <2>1. PromiseInv'
    BY <1>1, <1>5, LeaveKeeps DEF Verdicts
  <2>2. Delivery!GiveUp(e, t)
    BY <1>1, <1>2, <1>5 DEF Delivery!GiveUp, Delivery!Settle, Settle
  <2>3. QED
    BY <2>1, <2>2 DEF Delivery!Next, Delivery!Targets, Targets
<1>6. QED
  BY <1>3, <1>4, <1>5 DEF BackoffOver, BackoffCancelled

LEMMA LookupKeeps ==
  ASSUME TypeOK, PromiseInv, NEW e \in Events, LookupInstance(e) \/ LookupWebhook(e)
  PROVE  PromiseInv' /\ [Delivery!Next]_(Delivery!vars)
<1>1. at[e] \in {"lookup", "webhook"} /\ UNCHANGED <<ctx, attempt, tries>>
  BY DEF LookupInstance, LookupWebhook
<1>2. Kept(at[e], attempt[e], verdict[e], tries[e])
  BY DEF PromiseInv
<1>3. CASE EndDispatch(e)
  <2>1. \A d \in Events \ {e} : at'[d] = at[d] /\ verdict'[d] = verdict[d]
    BY <1>3 DEF TypeOK, EndDispatch, Move, Settle
  <2>2. at'[e] = "done"
    BY <1>3 DEF TypeOK, EndDispatch, Move
  <2>3. Kept(at'[e], attempt'[e], verdict'[e], tries'[e])
    BY <2>2 DEF Kept, Targets, Waiting
  <2>4. PromiseInv'
    BY <1>1, <2>1, <2>3, OneEvent
  <2>5. Delivery!Skip(e, "instance")
    BY <1>1, <1>2, <1>3
       DEF Kept, EndDispatch, Settle, Delivery!Skip, Delivery!Settle, Delivery!Turn
  <2>6. QED
    BY <2>4, <2>5 DEF Delivery!Next, Delivery!Targets
<1>4. CASE (Move(e, "webhook") \/ Move(e, "instance")) /\ UNCHANGED verdict
  <2>1. at'[e] \in {"webhook", "instance"} /\ \A d \in Events \ {e} : at'[d] = at[d]
    BY <1>4 DEF TypeOK, Move
  <2>2. Kept(at'[e], attempt[e], verdict[e], tries[e])
    BY <1>1, <1>2, <2>1 DEF Kept, Targets, Waiting
  <2>3. QED
    BY <1>1, <1>4, <2>1, <2>2, OneEvent DEF Delivery!vars
<1>5. QED
  BY <1>3, <1>4 DEF LookupInstance, LookupWebhook

LEMMA LoopKeeps ==
  ASSUME TypeOK, QueueInv, PromiseInv, Emit \/ Receive \/ Acquire
  PROVE  PromiseInv' /\ [Delivery!Next]_(Delivery!vars)
<1>1. UNCHANGED <<ctx, attempt, tries>>
  BY DEF Emit, Receive, Acquire
<1>2. ASSUME NEW e \in Events, at[e] \in {"new", "queued", "held"}, UNCHANGED verdict,
             NEW place \in {"queued", "held", "dropped", "global"}, Move(e, place)
      PROVE  PromiseInv' /\ UNCHANGED Delivery!vars
  <2>1. at'[e] = place /\ \A d \in Events \ {e} : at'[d] = at[d]
    BY <1>2 DEF TypeOK, Move
  <2>2. Kept(at[e], attempt[e], verdict[e], tries[e])
    BY DEF PromiseInv
  <2>3. Kept(at'[e], attempt[e], verdict[e], tries[e])
    BY <1>2, <2>1, <2>2 DEF Kept, Targets, Waiting
  <2>4. QED
    BY <1>1, <1>2, <2>1, <2>3, OneEvent DEF Delivery!vars
<1>3. CASE Emit
  <2>1. emitted + 1 \in Events /\ at[emitted + 1] = "new"
    BY <1>3 DEF TypeOK, QueueInv, Emit, Events
  <2>2. QED
    BY <1>2, <1>3, <2>1 DEF Emit
<1>4. CASE Receive
  <2>1. Head(queue) \in Events /\ at[Head(queue)] = "queued"
    BY <1>4 DEF TypeOK, QueueInv, Receive
  <2>2. QED
    BY <1>2, <1>4, <2>1 DEF Receive
<1>5. CASE Acquire
  <2>1. held \in Events /\ at[held] = "held"
    BY <1>5 DEF QueueInv, Acquire
  <2>2. CASE Move(held, "global") /\ UNCHANGED verdict
    BY <1>2, <2>1, <2>2
  <2>3. CASE Move(held, "lookup") /\ Settle(held, "global", "skipped")
    <3>1. Kept(at[held], attempt[held], verdict[held], tries[held])
      BY <2>1 DEF PromiseInv
    <3>2. /\ \A d \in Events \ {held} : at'[d] = at[d] /\ verdict'[d] = verdict[d]
          /\ at'[held] = "lookup" /\ verdict'[held]["global"] = "skipped"
          /\ verdict'[held]["instance"] = verdict[held]["instance"]
      BY <2>1, <2>3 DEF TypeOK, Move, Settle, Targets
    <3>3. Kept(at'[held], attempt'[held], verdict'[held], tries'[held])
      BY <1>1, <2>1, <3>1, <3>2 DEF Kept, Targets, Waiting
    <3>4. PromiseInv'
      BY <1>1, <2>1, <3>2, <3>3, OneEvent
    <3>5. Delivery!Skip(held, "global")
      BY <1>1, <2>1, <2>3, <3>1
         DEF Kept, Settle, Delivery!Skip, Delivery!Settle, Delivery!Turn
    <3>6. QED
      BY <2>1, <3>4, <3>5 DEF Delivery!Next, Delivery!Targets
  <2>4. QED
    BY <1>5, <2>2, <2>3 DEF Acquire
<1>6. QED
  BY <1>3, <1>4, <1>5

LEMMA PromiseInit == Init => PromiseInv /\ Delivery!Init
  BY DEF Init, PromiseInv, Kept, Unset, Open, Targets, Waiting, Delivery!Init, Delivery!Targets

\* The detailed dispatcher implements the promise of WebhookDelivery: every
\* step of the code is a try, a skip, a giving up or the stop that the promise
\* allows, or changes nothing it speaks of (dispatcher.go:63-159).
THEOREM PromiseKept == Spec => KeepsPromise
<1>1. TypeOK /\ QueueInv /\ PromiseInv /\ [Next]_vars
        => PromiseInv' /\ [Delivery!Next]_(Delivery!vars)
  <2> SUFFICES ASSUME TypeOK, QueueInv, PromiseInv, [Next]_vars
               PROVE  PromiseInv' /\ [Delivery!Next]_(Delivery!vars)
    OBVIOUS
  <2>1. CASE Emit \/ Receive \/ Acquire
    BY <2>1, LoopKeeps
  <2>2. ASSUME NEW e \in Events, Serve(e)
        PROVE  PromiseInv' /\ [Delivery!Next]_(Delivery!vars)
    BY <2>2, PostKeeps, BackoffKeeps, LookupKeeps DEF Serve
  <2>3. CASE StopLoop \/ EditWebhook \/ EditInstance \/ UNCHANGED vars
    <3>1. UNCHANGED <<at, attempt, verdict, tries, ctx>>
      BY <2>3 DEF StopLoop, EditWebhook, EditInstance, vars
    <3>2. QED
      BY <3>1 DEF PromiseInv, Delivery!vars
  <2>4. CASE Cancel
    <3>1. UNCHANGED <<at, attempt, verdict, tries>> /\ ctx' = "cancelled"
      BY <2>4 DEF Cancel
    <3>2. PromiseInv'
      BY <3>1 DEF PromiseInv
    <3>3. Delivery!Stop
      BY <3>1 DEF Delivery!Stop
    <3>4. QED
      BY <3>2, <3>3 DEF Delivery!Next
  <2>5. QED
    BY <2>1, <2>2, <2>3, <2>4 DEF Next, Loop
<1>2. QED
  BY <1>1, PromiseInit, SlotInvariant, PTL DEF Spec, KeepsPromise, Delivery!Spec

=============================================================================
