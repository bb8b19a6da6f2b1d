-------------------------- MODULE MCSecureIntegration --------------------------
(* Instantiation of SecureIntegration for TLC: two request sources and     *)
(* four request bodies.                                                    *)
EXTENDS SecureIntegration, TLC

CONSTANTS s1, s2

MCSources == {s1, s2}
MCSymmetry == Permutations(MCSources)
\* The wall clock may be stepped back two seconds.
MCStepBack == {-2}

\* String shapes: plain, "javascript:..." (trips the SQL and the XSS
\* patterns) and "../..." (path traversal).
Plain == IV!Str({})
Script == {"sql", "xss"}
Dotdot == IV!Str({"traversal"})
\* A JSON body sent with Content-Type application/json.
Json(d) == [ctype_json |-> TRUE, raw |-> "json", doc |-> d]
\* {"a": [1, "x"], "b": "y"}: nothing to refuse.
CleanDoc == IV!Dict(<<{}, {}>>, <<IV!List(<<IV!Num, Plain>>), Plain>>)
\* {"a": [{"javascript:x": "../y"}]}: two offenders, the first a key two
\* levels down, the second its value.
DeepKeyDoc == IV!Dict(<<{}>>, <<IV!List(<<IV!Dict(<<Script>>, <<Dotdot>>)>>)>>)
MCBodies == {NoBody, [Json(CleanDoc) EXCEPT !.ctype_json = FALSE],
             Json(CleanDoc), Json(DeepKeyDoc)}
====
