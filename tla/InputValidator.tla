------------------------------ MODULE InputValidator ------------------------------
(***************************************************************************)
(* PythonSecurityManager.validate_request and the recursive                *)
(* InputValidator.validate_json it calls on a parsed body                  *)
(* (src/shared/security/python_security.py).                               *)
(*                                                                         *)
(* A JSON value is abstracted to its shape: a string is the set of the     *)
(* checks of _validate_string it trips ("sql", "xss", "traversal", "long"; *)
(* "javascript:" trips both "sql" and "xss"), a number, boolean or null is *)
(* a "num", and lists and objects keep their order (json.loads keeps the   *)
(* order of an object's keys).  The module has no state: validate_request *)
(* is synchronous apart from awaits that never suspend, and the server     *)
(* that calls it (SecureIntegration) gives it the rate limiter's verdict   *)
(* from the RateLimiter module.                                            *)
(***************************************************************************)
EXTENDS Naturals, Sequences, SequencesExt

\* The checks of _validate_string, in the order it runs them: the
\* sql_injection_patterns, the xss_patterns, the path_traversal_patterns,
\* then the length limit of 10000.
Checks == <<"sql", "xss", "traversal", "long">>

Str(s) == [kind |-> "str", cats |-> s, keys |-> <<>>, items |-> <<>>]
Num == [kind |-> "num", cats |-> {}, keys |-> <<>>, items |-> <<>>]
List(vs) == [kind |-> "list", cats |-> {}, keys |-> <<>>, items |-> vs]
Dict(ks, vs) == [kind |-> "dict", cats |-> {}, keys |-> ks, items |-> vs]

\* The bodies validate_request can be given: empty (b"" is falsy), not
\* UTF-8, not JSON, or a JSON document.
Raws == {"empty", "bad_utf8", "bad_json", "json"}

\* _validate_string: the first check the string trips raises, or "none".
ValidateString(s) ==
    LET i == SelectInSeq(Checks, LAMBDA c : c \in s)
    IN  IF i = 0 THEN "none" ELSE Checks[i]

\* The first of a sequence of checks run in order that raised.
FirstRaised(rs) ==
    LET i == SelectInSeq(rs, LAMBDA r : r # "none") IN IF i = 0 THEN "none" ELSE rs[i]

\* Mutant of ValidateJson: the keys of an object are not checked.
RECURSIVE ValidateJsonNoKeys(_)
ValidateJsonNoKeys(d) ==
    CASE d.kind = "dict" ->
           FirstRaised([i \in DOMAIN d.items |-> ValidateJsonNoKeys(d.items[i])])
      [] d.kind = "list" ->
           FirstRaised([i \in DOMAIN d.items |-> ValidateJsonNoKeys(d.items[i])])
      [] d.kind = "str" -> ValidateString(d.cats)
      [] OTHER -> "none"

(***************************************************************************)
(* validate_json: an object's entries in order, the key (str(key)) then    *)
(* the value; a list's items in order; a string is validated; anything     *)
(* else passes.  A value or item that is a string is validated and one     *)
(* that is a list or object is recursed into, which is what validate_json  *)
(* itself does with each, so each is given to ValidateJson.                *)
(***************************************************************************)
RECURSIVE ValidateJson(_)
ValidateJson(d) ==
    CASE d.kind = "dict" ->
           FirstRaised([i \in DOMAIN d.items |->
                          FirstRaised(<<ValidateString(d.keys[i]),
                                        ValidateJson(d.items[i])>>)])
      [] d.kind = "list" ->
           FirstRaised([i \in DOMAIN d.items |-> ValidateJson(d.items[i])])
      [] d.kind = "str" -> ValidateString(d.cats)
      [] OTHER -> "none"

(***************************************************************************)
(* validate_request, its checks in order: the rate limiter, the size of a  *)
(* non-empty body, the method, the Content-Type of a POST or PUT with a    *)
(* body, then a non-empty body is decoded, parsed and given to             *)
(* validate_json.  JSONDecodeError is "Invalid JSON format"; any other     *)
(* exception there (UnicodeDecodeError, a ValidationError of               *)
(* validate_json) becomes "JSON validation failed: ...".                   *)
(***************************************************************************)
ValidateRequest(r) ==
    CASE ~r.allowed -> "rate_limited"
      [] r.oversize -> "too_large"
      [] r.method \notin {"GET", "POST", "PUT", "DELETE", "HEAD", "OPTIONS"} ->
           "invalid_method"
      [] r.method \in {"POST", "PUT"} /\ r.raw # "empty" /\ ~r.json_ctype ->
           "invalid_content_type"
      [] r.raw = "empty" -> "accepted"
      [] r.raw = "bad_json" -> "invalid_json"
      [] r.raw = "bad_utf8" -> "json_failed"
      [] ValidateJson(r.doc) # "none" -> "json_" \o ValidateJson(r.doc)
      [] OTHER -> "accepted"

-----------------------------------------------------------------------------
\* The strings of a document in the order a depth-first reading of it meets
\* them, an object's key before its value.
RECURSIVE StringsOf(_)
StringsOf(d) ==
    CASE d.kind = "str" -> <<d.cats>>
      [] d.kind = "list" -> FlattenSeq([i \in DOMAIN d.items |-> StringsOf(d.items[i])])
      [] d.kind = "dict" ->
           FlattenSeq([i \in DOMAIN d.items |-> <<d.keys[i]>> \o StringsOf(d.items[i])])
      [] OTHER -> <<>>

====
