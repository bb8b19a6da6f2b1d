------------------------------ MODULE RateLimiter ------------------------------
(***************************************************************************)
(* RateLimiter of src/shared/security/python_security.py: the per-client   *)
(* sliding-window log behind PythonSecurityManager.validate_request, with  *)
(* its periodic cleanup of idle clients.                                   *)
(*                                                                         *)
(* allow() is synchronous and runs on the one asyncio event loop, so each  *)
(* call is one atomic step.  Time is whole seconds.  rt is real time; now  *)
(* is time.time(), the wall clock, which moves with rt except when it is   *)
(* stepped by one of ClockJumps (an NTP correction, a resumed VM).         *)
(***************************************************************************)
EXTENDS Integers, Sequences, FiniteSets

CONSTANTS
    Clients,          \* source addresses
    MaxRequests,      \* config.rate_limit_requests
    Window,           \* config.rate_limit_window, seconds
    CleanupInterval,  \* cleanup_interval (300 s in the code)
    ClockJumps,       \* steps the wall clock can make, in seconds
    MaxJumps,         \* bound on the number of clock steps
    MaxTime,          \* bound on real time
    MaxCalls,         \* bound on the number of allow() calls
    NoRecord          \* model value: no entry for the client in self.clients

ASSUME MaxRequests \in Nat /\ Window \in Nat \ {0} /\ CleanupInterval \in Nat
ASSUME ClockJumps \subseteq Int \ {0} /\ MaxJumps \in Nat /\ MaxTime \in Nat

VARIABLES
    rt,            \* real time
    now,           \* time.time()
    jumps,         \* clock steps so far
    clients,       \* self.clients: client -> [requests, last_request] or NoRecord
    last_cleanup,  \* self.last_cleanup
    log            \* every allow() call: [client, rt, at (its now), allowed]

vars == <<rt, now, jumps, clients, last_cleanup, log>>

Init ==
    /\ rt = 0
    /\ now = 0
    /\ jumps = 0
    /\ clients = [c \in Clients |-> NoRecord]
    /\ last_cleanup = 0
    /\ log = <<>>

\* Real time passes a second; the wall clock with it.
Tick ==
    /\ rt < MaxTime
    /\ rt' = rt + 1
    /\ now' = now + 1
    /\ UNCHANGED <<jumps, clients, last_cleanup, log>>

\* The wall clock is stepped.
ClockJump ==
    /\ jumps < MaxJumps
    /\ \E j \in ClockJumps : now' = now + j
    /\ jumps' = jumps + 1
    /\ UNCHANGED <<rt, clients, last_cleanup, log>>

\* _cleanup: drop every client whose last allowed request is older than
\* two windows.
Cleanup(cl) ==
    [c \in Clients |->
        IF cl[c] # NoRecord /\ cl[c].last_request < now - 2 * Window
          THEN NoRecord ELSE cl[c]]

\* Mutant of InWindow: a request exactly one window old is still counted.
InWindowInclusive(t) == t >= now - Window

\* The filter of allow(): req_time > window_start.
InWindow(t) == t > now - Window

\* The limit check: the request is refused when the window is full.
Admits(kept) == ~(Len(kept) >= MaxRequests)

\* Mutant of Admitted: last_request is not refreshed on an allowed request.
AdmittedKeepsLast(rec, kept) ==
    [requests |-> Append(kept, now), last_request |-> rec.last_request]

\* The record after an allowed request.
Admitted(rec, kept) == [requests |-> Append(kept, now), last_request |-> now]

(***************************************************************************)
(* allow(client_id): cleanup when the interval has passed, get or create   *)
(* the client's record, filter its requests to the window, then refuse a   *)
(* full window (keeping the filtered list) or append now and refresh       *)
(* last_request.                                                           *)
(***************************************************************************)
Allow(c) ==
    /\ Len(log) < MaxCalls
    /\ LET due == now - last_cleanup > CleanupInterval
           cl  == IF due THEN Cleanup(clients) ELSE clients
           rec == IF cl[c] = NoRecord
                    THEN [requests |-> <<>>, last_request |-> now] ELSE cl[c]
           kept == SelectSeq(rec.requests, InWindow)
           ok  == Admits(kept)
       IN /\ clients' = [cl EXCEPT ![c] = IF ok THEN Admitted(rec, kept)
                                             ELSE [rec EXCEPT !.requests = kept]]
          /\ last_cleanup' = IF due THEN now ELSE last_cleanup
          /\ log' = Append(log, [client |-> c, rt |-> rt, at |-> now, allowed |-> ok])
    /\ UNCHANGED <<rt, now, jumps>>

Next == Tick \/ ClockJump \/ \E c \in Clients : Allow(c)

Spec == Init /\ [][Next]_vars

-----------------------------------------------------------------------------
\* The type, with the bound the filter and the limit check keep on every
\* client's request list: never more than MaxRequests entries.
TypeOK ==
    /\ rt \in 0..MaxTime /\ now \in Int /\ jumps \in 0..MaxJumps
    /\ last_cleanup \in Int
    /\ \A c \in Clients :
         \/ clients[c] = NoRecord
         \/ /\ clients[c].requests \in Seq(Int)
            /\ Len(clients[c].requests) <= MaxRequests
            /\ clients[c].last_request \in Int

\* Allowed requests of client c among the first k calls whose time, read
\* through field f, lies in (t - Window, t].
AllowedIn(c, k, f, t) ==
    Cardinality({i \in 1..k : /\ log[i].client = c /\ log[i].allowed
                              /\ t - Window < log[i][f] /\ log[i][f] <= t})

\* No client is allowed more than max_requests requests in any Window
\* seconds of real time, across cleanups: _cleanup may forget only clients
\* none of whose requests is still in the window.
LimitRespected ==
    \A c \in Clients, t \in 0..rt : AllowedIn(c, Len(log), "rt", t) <= MaxRequests

\* allow() refuses a request only when the client already had
\* max_requests allowed requests stamped within the window that ends at
\* that call (open at its old end), or later, when the wall clock has
\* been stepped back since.
NoSpuriousDenial ==
    \A i \in 1..Len(log) :
        ~log[i].allowed =>
            Cardinality({j \in 1..i - 1 :
                           /\ log[j].client = log[i].client /\ log[j].allowed
                           /\ log[j].at > log[i].at - Window}) >= MaxRequests
====
