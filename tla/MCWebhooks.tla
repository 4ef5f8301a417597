---------------------------- MODULE MCWebhooks ----------------------------
(* One delivery of each kind: without the header, no JSON, not as it should *)
(* be, shown, and ignored because of its type or its action; a reload.  *)
EXTENDS Webhooks

Delivery(header, json, type, action) ==
  [header |-> header, json |-> json, fit |-> json, type |-> type, action |-> action]
MCHooks ==
  {[Delivery(TRUE, TRUE, "issues", "opened") EXCEPT !.fit = FALSE],
   Delivery(FALSE, TRUE, "issues", "opened"), Delivery(TRUE, FALSE, "push", ""),
   Delivery(TRUE, TRUE, "issues", "opened"), Delivery(TRUE, TRUE, "ping", ""),
   Delivery(TRUE, TRUE, "pull_request", "synchronize")}
=============================================================================
