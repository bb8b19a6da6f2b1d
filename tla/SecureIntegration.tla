---------------------------- MODULE SecureIntegration ----------------------------
(***************************************************************************)
(* The secure integration path: PythonSecurityManager's authenticate,      *)
(* authorize and validate contract (src/shared/security/                   *)
(* python_security.py), the SecureWebhookServer that applies it to every   *)
(* request, and process_secure_backup_completion of SecureGitOpsClient     *)
(* (src/shared/integration/secure_gitops_client.py).                       *)
(*                                                                         *)
(* The server handles each request in its middleware and a route handler.  *)
(* The only state requests share is the manager's RateLimiter, whose       *)
(* allow() is synchronous, so a request is one step; the limiter is the    *)
(* RateLimiter module, instantiated over the request sources.  A request   *)
(* is abstracted to its source, the credential it carries, its route and   *)
(* its body; validate_request and its JSON checks are the InputValidator   *)
(* module.  The client runs one backup completion through its own manager. *)
(***************************************************************************)
EXTENDS Integers, Sequences, FiniteSets

CONSTANTS
    Sources,          \* request source addresses
    Creds,            \* credentials requests can carry (see Authenticate)
    Bodies,           \* request bodies: [ctype_json, raw, doc] (InputValidator)
    StrictMode,       \* security.strict_mode
    ApiKeySet,        \* security.api_key is configured
    EventComplete,    \* the backup event has backup_id, cluster_name, minio_path
    MaxRequests, Window, CleanupInterval, ClockJumps, MaxJumps, MaxTime,
    MaxServed,        \* bound on the number of requests served
    NoRecord

ASSUME Creds \subseteq {"key_ok", "key_bad", "bearer_ok", "bearer_short",
                        "basic_ok", "basic_weak", "other", "none"}
ASSUME {StrictMode, ApiKeySet, EventComplete} \subseteq BOOLEAN

VARIABLES
    rt, now, jumps, clients, last_cleanup, log,  \* the manager's RateLimiter
    served,     \* number of requests the server has answered
    last,       \* the last answer: [route, perms, body, decision, status], body
                \* being the body validate_request checked (NoBody if the
                \* request was refused before its body checks)
    cpc         \* process_secure_backup_completion: "init", "entered",
                \* "raised" or "started"

rlvars == <<rt, now, jumps, clients, last_cleanup, log>>
vars == <<rlvars, served, last, cpc>>

RL == INSTANCE RateLimiter WITH Clients <- Sources, MaxCalls <- MaxServed
IV == INSTANCE InputValidator

\* A request with no body: request.can_read_body is false and body is None.
NoBody == [ctype_json |-> FALSE, raw |-> "empty", doc |-> IV!Num]

NoAnswer == [route |-> "health", perms |-> {}, body |-> NoBody,
             decision |-> "none", status |-> 0]

Init == RL!Init /\ served = 0 /\ last = NoAnswer /\ cpc = "init"

Routes == {"health", "backup_complete", "security_status"}
\* Permission each protected handler asks authorize_request for.
RoutePerm == [backup_complete |-> "webhook_backup",
              security_status |-> "security_status"]
Method(route) == IF route = "backup_complete" THEN "POST" ELSE "GET"
\* Permissions every accepted credential is given.
GrantedPerms == {"webhook_access", "status_read"}

\* Mutant of Authenticate: an accepted credential is given admin.
AuthenticateAdmin(cred) ==
    IF (cred = "key_ok" /\ ApiKeySet) \/ cred \in {"bearer_ok", "basic_ok"}
      THEN [error |-> FALSE, authenticated |-> TRUE, perms |-> {"admin"}]
    ELSE IF cred = "none" /\ ~StrictMode
      THEN [error |-> FALSE, authenticated |-> FALSE, perms |-> {"health_check"}]
    ELSE [error |-> TRUE, authenticated |-> FALSE, perms |-> {}]

(***************************************************************************)
(* authenticate_request: an X-API-Key header decides alone (equal to the  *)
(* configured key, else 401); otherwise a Bearer token of 32 characters or *)
(* more, or Basic credentials with a name and a password of 8 or more, are *)
(* accepted; any other Authorization header is 401; no credential is 401   *)
(* in strict mode and an anonymous context with health_check otherwise.    *)
(***************************************************************************)
Authenticate(cred) ==
    LET Ctx(auth, perms) == [error |-> FALSE, authenticated |-> auth, perms |-> perms]
        Refused == [error |-> TRUE, authenticated |-> FALSE, perms |-> {}]
    IN  IF (cred = "key_ok" /\ ApiKeySet) \/ cred \in {"bearer_ok", "basic_ok"}
          THEN Ctx(TRUE, GrantedPerms)
        ELSE IF cred = "none" /\ ~StrictMode
          THEN Ctx(FALSE, {"health_check"})
        ELSE Refused

\* authorize_request: TRUE, or it raises AuthorizationError.
Authorize(ctx, perm) ==
    /\ ctx.authenticated \/ ~StrictMode
    /\ perm \in ctx.perms \/ "admin" \in ctx.perms

\* validate_request(method, path, headers, body, client_ip) as the
\* middleware calls it, given the limiter's verdict on this call.
Validated(route, body, allowed) ==
    IV!ValidateRequest([allowed |-> allowed, oversize |-> FALSE,
                        method |-> Method(route), json_ctype |-> body.ctype_json,
                        raw |-> body.raw, doc |-> body.doc])

\* The route handler, reached with a valid request.
HandlerDecision(route, ctx, body) ==
    IF route = "health" THEN "ok"
    ELSE IF ~ctx.authenticated THEN "auth_error"
    ELSE IF ~Authorize(ctx, RoutePerm[route]) THEN "authz_error"
    ELSE IF route = "backup_complete" /\ body.raw = "empty" THEN "attribute_error"
    ELSE "ok"

\* Every branch answers through web.json_response, and web is imported only
\* inside start(): the name is undefined in the middleware and handlers, the
\* NameError escapes, and aiohttp answers 500.
Sent(decision) == 500

(***************************************************************************)
(* _security_middleware and the handler: authenticate (a SecurityError is  *)
(* answered, the limiter untouched), then validate_request, whose first    *)
(* check is the rate limiter, then the handler.                            *)
(***************************************************************************)
Serve(src, cred, route, body) ==
    /\ served < MaxServed
    /\ served' = served + 1
    /\ LET ctx == Authenticate(cred)
           Answer(b, d) == last' = [route |-> route, perms |-> ctx.perms, body |-> b,
                                    decision |-> d, status |-> Sent(d)]
       IN IF ctx.error
            THEN Answer(NoBody, "unauthenticated") /\ UNCHANGED rlvars
            ELSE /\ RL!Allow(src)
                 /\ IF ~log'[Len(log')].allowed
                      THEN Answer(NoBody, "rate_limited")
                      ELSE LET v == Validated(route, body, TRUE)
                           IN  Answer(body, IF v = "accepted"
                                            THEN HandlerDecision(route, ctx, body)
                                            ELSE v)
    /\ UNCHANGED cpc

ServeRequest ==
    \E src \in Sources, cred \in Creds, route \in Routes, body \in Bodies :
        /\ Method(route) = "GET" => body = NoBody
        /\ Serve(src, cred, route, body)

\* __aenter__: _authenticate_client sends the configured API key, if any, to
\* the client's own manager.
ClientEnter ==
    /\ cpc = "init"
    /\ cpc' = IF Authenticate(IF ApiKeySet THEN "key_ok" ELSE "none").error
                THEN "raised" ELSE "entered"
    /\ UNCHANGED <<rlvars, served, last>>

\* _validate_gitops_request: the event's fields must be set, then
\* validate_request is given json.dumps(asdict(request)), and the request's
\* datetime timestamp makes json.dumps raise TypeError.
ValidateGitOpsRequest == EventComplete /\ FALSE

(***************************************************************************)
(* start_secure_gitops_generation: it needs an authenticated context and   *)
(* the gitops_generate permission, then _validate_gitops_request; any      *)
(* exception is re-raised as a SecurityError and ends                      *)
(* process_secure_backup_completion.  Past it ("started") the flow would   *)
(* poll and notify, which no behaviour reaches and the model leaves out.   *)
(***************************************************************************)
ClientStart ==
    /\ cpc = "entered"
    /\ LET ctx == Authenticate(IF ApiKeySet THEN "key_ok" ELSE "none")
       IN cpc' = IF ctx.authenticated /\ Authorize(ctx, "gitops_generate")
                    /\ ValidateGitOpsRequest
                   THEN "started" ELSE "raised"
    /\ UNCHANGED <<rlvars, served, last>>

Next ==
    \/ (RL!Tick \/ RL!ClockJump) /\ UNCHANGED <<served, last, cpc>>
    \/ ServeRequest
    \/ ClientEnter \/ ClientStart

Spec == Init /\ [][Next]_vars /\ WF_vars(ClientEnter \/ ClientStart)

-----------------------------------------------------------------------------
\* The errors validate_request raises, and the handlers' outcomes.
Refusals == {"rate_limited", "too_large", "invalid_method", "invalid_content_type",
             "invalid_json", "json_failed"} \cup {"json_" \o IV!Checks[i] : i \in 1..Len(IV!Checks)}
Decisions == {"unauthenticated", "auth_error", "authz_error", "attribute_error",
              "ok"} \cup Refusals

TypeOK ==
    /\ RL!TypeOK
    /\ served \in 0..MaxServed
    /\ last \in [route : Routes, perms : SUBSET (GrantedPerms \cup {"health_check"}),
                 body : Bodies \cup {NoBody},
                 decision : Decisions \cup {"none"}, status : {0, 200, 500}]
    /\ cpc \in {"init", "entered", "raised", "started"}

\* The manager's limiter holds for the server: no source gets more than
\* rate_limit.requests requests past validate_request's rate check in any
\* window of real time, across cleanups and a wall clock stepped back.
AdmittedWithinLimit == RL!LimitRespected

\* The limiter refuses a request only when the client already had
\* max_requests allowed requests in the window ending at that call (or
\* stamped later, when the wall clock was stepped back since).
LimiterExact == RL!NoSpuriousDenial

\* A JSON body reaches a handler only when no string in it, key or value at
\* any depth, trips a check of _validate_string; a body that got past the
\* header checks and has one is refused naming the check tripped by the
\* first such string in document order (validate_json recursing through
\* objects and lists, lines 440-460, called by validate_request at 311-320).
BodyVerdictMatchesReference ==
    last.body.raw = "json"
    /\ last.decision \notin {"none", "unauthenticated", "rate_limited",
                              "invalid_content_type"} =>
        LET flagged == SelectSeq(IV!StringsOf(last.body.doc),
                                 LAMBDA str : IV!ValidateString(str) # "none")
        IN  IF flagged = <<>> THEN last.decision \notin Refusals
            ELSE last.decision = "json_" \o IV!ValidateString(Head(flagged))
====
