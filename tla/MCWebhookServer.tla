-------------------------- MODULE MCWebhookServer --------------------------
(* Instantiation of WebhookServer for TLC: three connections, each one of *)
(* the requests below, a listen queue of two and one signal.               *)
EXTENDS WebhookServer

CONSTANTS r1, r2, r3

MCRequests == {r1, r2, r3}

Get(path) ==
    [method |-> "GET", path |-> path, body |-> "empty",
     event_type |-> "absent", wrapped |-> FALSE, fields |-> "none"]
Post(body, type, wrapped, fields) ==
    [method |-> "POST", path |-> Webhook, body |-> body,
     event_type |-> type, wrapped |-> wrapped, fields |-> fields]

MCPayloads ==
    { Get("/health"), Get("/metrics"),
      [Get("/") EXCEPT !.method = "POST"],
      Post("empty", "absent", FALSE, "none"),
      Post("bad_json", "absent", FALSE, "none"),
      \* send_test_event's payload, and one lacking a required field
      Post("json", "backup_complete", TRUE, "all"),
      Post("json", "backup_complete", TRUE, "none"),
      \* the four required fields only, and another event type
      Post("json", "absent", TRUE, "required"),
      Post("json", "other", TRUE, "all"),
      \* flat events, with and without event_type
      Post("json", "backup_complete", FALSE, "all"),
      Post("json", "absent", FALSE, "all") }
=============================================================================
