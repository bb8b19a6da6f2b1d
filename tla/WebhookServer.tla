--------------------------- MODULE WebhookServer ---------------------------
(***************************************************************************)
(* The webhook server of src/shared/triggers/webhook_handler.py.           *)
(*                                                                         *)
(* WebhookServer.start() installs _signal_handler for SIGINT and SIGTERM   *)
(* and runs HTTPServer.serve_forever() on the main thread.  The server is  *)
(* single-threaded: each request is handled to its end, the GitOps         *)
(* generation subprocess included, before the next is taken from the      *)
(* listen queue.  Python runs a signal handler on the main thread between  *)
(* two bytecodes, so it can interrupt the select() of the loop or a        *)
(* request in the middle of its generation.                                *)
(*                                                                         *)
(* The stdlib part is modelled from socketserver: serve_forever loops      *)
(* while __shutdown_request is false and sets __is_shut_down in its        *)
(* finally clause; shutdown() sets __shutdown_request and waits for        *)
(* __is_shut_down.                                                         *)
(*                                                                         *)
(* A request is a record of what the handler looks at: method and path,    *)
(* the body (empty, not JSON, or JSON), event_type, whether the event is   *)
(* wrapped under "backup", and which event fields it carries: "required"   *)
(* (the four _validate_webhook_payload checks) or "all" (the nine          *)
(* BackupCompletionEvent needs).                                           *)
(***************************************************************************)
EXTENDS Integers, Sequences

CONSTANTS
    Requests,     \* the connections clients make
    Payloads,     \* the requests they may send
    Backlog,      \* the listen queue (request_queue_size)
    MaxSignals,   \* SIGINT/SIGTERM delivered to the process
    NoRequest

VARIABLES
    payload,          \* request -> what it carries
    queue,            \* accepted connections not yet taken by the loop
    sent,             \* requests that have connected
    mpc,              \* main thread: "select" in the loop, "generating"
    current,          \* the request being handled, or NoRequest
    running,          \* WebhookServer.running
    shutdown_request, \* HTTPServer.__shutdown_request
    is_shut_down,     \* HTTPServer.__is_shut_down (an Event)
    waiting,          \* nested _signal_handler frames blocked in shutdown()
    pending,          \* a signal delivered whose handler has not run yet
    signals,          \* signals delivered so far
    closed,           \* server_close() has run
    answer,           \* request -> HTTP status sent, 0 if none yet
    triggered         \* requests handle_backup_completion was called for

vars == <<payload, queue, sent, mpc, current, running, shutdown_request,
          is_shut_down, waiting, pending, signals, closed, answer, triggered>>

Webhook == "/webhook/backup-complete"

-----------------------------------------------------------------------------
(* _validate_webhook_payload: an event_type other than backup_complete is *)
(* refused; data.get('backup', data) must hold the four required fields.  *)
ValidWebhookPayload(p) ==
    /\ p.event_type \in {"absent", "backup_complete"}
    /\ p.fields \in {"required", "all"}

(* BackupCompletionEvent.from_dict: cls(...) needs the nine fields and    *)
(* refuses any other key.  A flat payload still holds event_type, so it    *)
(* fails whatever fields it has.                                           *)
FromDictSucceeds(p) ==
    /\ p.fields = "all"
    /\ p.wrapped

\* Mutant: a payload that fails validation answered 422.
RouteUnprocessable(p) ==
    CASE p.method = "GET" ->
           IF p.path \in {"/health", "/"} THEN 200 ELSE 404
      [] p.path # Webhook -> 404
      [] p.body \in {"empty", "bad_json"} -> 400
      [] ~ValidWebhookPayload(p) -> 422
      [] ~p.wrapped /\ p.event_type # "backup_complete" -> 400
      [] ~FromDictSucceeds(p) -> 400
      [] OTHER -> 0

(* The status the handler answers a request with before it reaches        *)
(* handle_backup_completion, or 0 (no answer yet) when it reaches it:      *)
(* do_GET, do_POST and _handle_backup_complete_webhook up to that call.    *)
Route(p) ==
    CASE p.method = "GET" ->
           IF p.path \in {"/health", "/"} THEN 200 ELSE 404
      [] p.path # Webhook -> 404
      [] p.body = "empty" -> 400
      [] p.body = "bad_json" -> 400
      [] ~ValidWebhookPayload(p) -> 400
      [] ~p.wrapped /\ p.event_type # "backup_complete" -> 400
      [] ~FromDictSucceeds(p) -> 400
      [] OTHER -> 0

-----------------------------------------------------------------------------
(* A client connects and sends its request; the kernel queues it while    *)
(* the listen queue has room.                                              *)
Connect(r) ==
    /\ r \notin sent
    /\ Len(queue) < Backlog
    /\ queue' = Append(queue, r)
    /\ sent' = sent \cup {r}
    /\ UNCHANGED <<payload, mpc, current, running, shutdown_request,
                   is_shut_down, waiting, pending, signals, closed, answer,
                   triggered>>

(* SIGINT or SIGTERM reaches the process.                                  *)
Signal ==
    /\ signals < MaxSignals
    /\ signals' = signals + 1
    /\ pending' = TRUE
    /\ UNCHANGED <<payload, queue, sent, mpc, current, running,
                   shutdown_request, is_shut_down, waiting, closed, answer,
                   triggered>>

(* _signal_handler on the main thread, wherever it was: stop() calls       *)
(* shutdown() while running, which sets __shutdown_request and waits for   *)
(* __is_shut_down; server_close() and running = False follow only when     *)
(* that wait returns.                                                      *)
SignalHandler ==
    /\ pending
    /\ pending' = FALSE
    /\ IF running
         THEN /\ shutdown_request' = TRUE
              /\ IF is_shut_down
                   THEN closed' = TRUE /\ running' = FALSE
                        /\ UNCHANGED waiting
                   ELSE waiting' = waiting + 1 /\ UNCHANGED <<closed, running>>
         ELSE UNCHANGED <<shutdown_request, waiting, closed, running>>
    /\ UNCHANGED <<payload, queue, sent, mpc, current, is_shut_down, signals,
                   answer, triggered>>

\* The main thread runs its own code only when no handler frame is blocked.
MainThreadFree == waiting = 0

(* One iteration of serve_forever with a ready socket: take the oldest    *)
(* connection and run the handler; a request that reaches                 *)
(* handle_backup_completion starts the generation subprocess.             *)
HandleRequest ==
    /\ MainThreadFree
    /\ mpc = "select"
    /\ ~shutdown_request
    /\ queue # <<>>
    /\ LET r == Head(queue) IN
         /\ queue' = Tail(queue)
         /\ IF Route(payload[r]) = 0
              THEN /\ mpc' = "generating"
                   /\ current' = r
                   /\ triggered' = triggered \cup {r}
                   /\ UNCHANGED answer
              ELSE /\ answer' = [answer EXCEPT ![r] = Route(payload[r])]
                   /\ UNCHANGED <<mpc, current, triggered>>
    /\ UNCHANGED <<payload, sent, running, shutdown_request, is_shut_down,
                   waiting, pending, signals, closed>>

\* Mutant: the handler answers but the loop does not go back to select().
FinishGenerationNoReturn ==
    /\ MainThreadFree
    /\ mpc = "generating"
    /\ \E status \in {200, 500} :
         answer' = [answer EXCEPT ![current] = status]
    /\ UNCHANGED <<payload, queue, sent, mpc, current, running,
                   shutdown_request, is_shut_down, waiting, pending, signals,
                   closed, triggered>>

\* What the generator subprocess does once it is started.
GeneratorRuns == {"exit0", "exit_nonzero", "timeout"}

(***************************************************************************)
(* _trigger_gitops_generation returns output only when the environment it  *)
(* builds holds no None config value (subprocess raises TypeError),        *)
(* _find_gitops_binary found a binary (else RuntimeError) and the          *)
(* subprocess exits 0 within max_wait_time (a timeout or a non-zero exit   *)
(* is re-raised as RuntimeError).  _find_config_file and the log level     *)
(* only add arguments.  handle_backup_completion turns a raise into        *)
(* success=False; automation.enabled is always True (ConfigLoader).        *)
(***************************************************************************)
TriggerGitopsGeneration(env_ok, binary_found, run) ==
    env_ok /\ binary_found /\ run = "exit0"

\* handle_backup_completion returns and the handler answers 200 on success,
\* 500 otherwise.
FinishGeneration ==
    /\ MainThreadFree
    /\ mpc = "generating"
    /\ \E env_ok, binary_found \in BOOLEAN, run \in GeneratorRuns :
         answer' = [answer EXCEPT ![current] =
                      IF TriggerGitopsGeneration(env_ok, binary_found, run)
                        THEN 200 ELSE 500]
    /\ mpc' = "select"
    /\ current' = NoRequest
    /\ UNCHANGED <<payload, queue, sent, running, shutdown_request,
                   is_shut_down, waiting, pending, signals, closed, triggered>>

Init ==
    /\ payload \in [Requests -> Payloads]
    /\ queue = <<>>
    /\ sent = {}
    /\ mpc = "select"
    /\ current = NoRequest
    /\ running = TRUE
    /\ shutdown_request = FALSE
    /\ is_shut_down = FALSE
    /\ waiting = 0
    /\ pending = FALSE
    /\ signals = 0
    /\ closed = FALSE
    /\ answer = [r \in Requests |-> 0]
    /\ triggered = {}

Main == HandleRequest \/ FinishGeneration \/ SignalHandler

Next ==
    \/ \E r \in Requests : Connect(r)
    \/ Signal
    \/ Main

\* The main thread is always scheduled when it can run; clients and
\* signals are the environment.
Spec == Init /\ [][Next]_vars /\ WF_vars(Main)

-----------------------------------------------------------------------------
TypeOK ==
    /\ queue \in Seq(Requests) /\ Len(queue) <= Backlog
    /\ sent \subseteq Requests /\ triggered \subseteq sent
    /\ mpc \in {"select", "generating"}
    /\ current \in Requests \cup {NoRequest}
    /\ waiting \in 0 .. MaxSignals /\ signals \in 0 .. MaxSignals
    /\ {running, shutdown_request, is_shut_down, pending, closed} \subseteq BOOLEAN
    /\ answer \in [Requests -> {0, 200, 400, 404, 500}]

\* While no signal has come, every request a client sends is answered:
\* the single-threaded loop reaches each queued connection even when the
\* requests before it run a GitOps generation.
AnsweredUnlessSignalled ==
    \A r \in Requests : (r \in sent) ~> (answer[r] # 0 \/ signals > 0)

\* A SIGINT or SIGTERM stops the server: _signal_handler's "shutting down
\* gracefully" ends with the socket closed by stop().
StopsOnSignal ==
    (signals > 0) ~> closed

=============================================================================
