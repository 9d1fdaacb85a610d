--------------------------- MODULE WebhookDelivery ---------------------------
(***************************************************************************)
(* What the webhook dispatcher promises about one event and its two        *)
(* receivers, the global URL and the instance's own webhook                *)
(* (docs/webhooks.md, "Retry behavior"): a receiver is tried a bounded     *)
(* number of times and only until it has answered, the instance's webhook  *)
(* after the global one is settled, and a delivery is given up before its  *)
(* tries are used up only when the server stops.                           *)
(***************************************************************************)
EXTENDS Integers

CONSTANTS Events, MaxRetries

Targets == {"global", "instance"}

VARIABLES
  tries,     \* tries[e][t]: requests sent to t for e
  verdict,   \* verdict[e][t]: "open" until the delivery is settled
  stopping   \* the server is shutting down

vars == <<tries, verdict, stopping>>

Settle(e, t, v) == verdict' = [verdict EXCEPT ![e][t] = v]

Turn(e, t) == verdict[e][t] = "open" /\ (t = "instance" => verdict[e]["global"] # "open")

Init ==
  /\ tries = [e \in Events |-> [t \in Targets |-> 0]]
  /\ verdict = [e \in Events |-> [t \in Targets |-> "open"]]
  /\ stopping = FALSE

\* A request, which may settle the delivery.
Try(e, t) ==
  /\ Turn(e, t) /\ tries[e][t] < MaxRetries
  /\ tries' = [tries EXCEPT ![e][t] = @ + 1]
  /\ \/ UNCHANGED verdict
     \/ \E v \in {"accepted", "refused"} : Settle(e, t, v)
  /\ UNCHANGED stopping

\* Nobody is to be told, or it cannot be found out whom: no request is sent.
Skip(e, t) ==
  /\ Turn(e, t) /\ tries[e][t] = 0
  /\ Settle(e, t, "skipped")
  /\ UNCHANGED <<tries, stopping>>

GiveUp(e, t) ==
  /\ Turn(e, t) /\ tries[e][t] > 0
  /\ \/ tries[e][t] = MaxRetries /\ Settle(e, t, "exhausted")
     \/ stopping /\ Settle(e, t, "cancelled")
  /\ UNCHANGED <<tries, stopping>>

Stop == stopping' = TRUE /\ UNCHANGED <<tries, verdict>>

Next ==
  \/ \E e \in Events, t \in Targets : Try(e, t) \/ Skip(e, t) \/ GiveUp(e, t)
  \/ Stop

Spec == Init /\ [][Next]_vars

=============================================================================
