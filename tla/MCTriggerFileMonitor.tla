------------------------- MODULE MCTriggerFileMonitor -------------------------
(* Instantiation of TriggerFileMonitor for TLC: three backup events, one of *)
(* which the generator always fails on.                                     *)
EXTENDS TriggerFileMonitor

CONSTANTS e1, e2, e3, n1, n2, n3

MCEvents == {e1, e2, e3}
MCNames == {n1, n2, n3}
\* Every event has a file name of its own.
MCDistinctNames == (e1 :> n1) @@ (e2 :> n2) @@ (e3 :> n3)
MCFailing == {e3}
====
