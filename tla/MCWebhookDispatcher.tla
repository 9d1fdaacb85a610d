------------------------ MODULE MCWebhookDispatcher ------------------------
(* Instances of WebhookDispatcher for TLC. *)
EXTENDS WebhookDispatcher

KindsMC == {"message.received", "connection.update"}
FiltersMC == {{}, {"connection.update"}}
GlobalEventsMC == {"message.received"}

=============================================================================
