--------------------------- MODULE MCConfigLoader ---------------------------
(* Instantiation of ConfigLoader for TLC: two config paths, each missing,  *)
(* unparsable, empty or one of a few documents, and a few environments.    *)
EXTENDS ConfigLoader

CONSTANTS p1, p2

MCFiles == {p1, p2}
MCPaths == <<p1, p2>>

\* A complete storage and GitOps section.
DocComplete ==
    [endpoint |-> "a", access_key |-> "a", secret_key |-> "a", name |-> "a",
     url |-> "a", method |-> "none"]
\* A second file overriding some fields with values the validator rejects.
DocOverride ==
    [endpoint |-> "b", bucket |-> "", use_ssl |-> FALSE, batch_size |-> 2000,
     level |-> "a", method |-> "pat"]
\* Keys written with no value: YAML nulls.
DocNulls ==
    [access_key |-> Null, use_ssl |-> Null, batch_size |-> Null, level |-> Null]
\* A null in a field _expand_environment_variables reads.
DocNullUrl == [url |-> Null, batch_size |-> 0]
DocEmpty == [n \in {} |-> Null]

\* Files as they are written: no section is left empty.
MCWellFormed ==
    {Missing, Unparsable, DocEmpty, DocComplete, DocOverride, DocNulls,
     DocNullUrl}

\* A file whose cluster section is written with no body ("cluster:" and
\* nothing under it) after a storage endpoint.
DocNullCluster == [endpoint |-> "b", cluster |-> Null]

\* Well-formed files and the one with a bodiless section.
MCWithNullSection == MCWellFormed \cup {DocNullCluster}

NoEnv == [k \in Keys |-> Unset]
MCEnvChoices ==
    { NoEnv,
      [NoEnv EXCEPT !["endpoint"] = "", !["batch_size"] = "100"],
      [NoEnv EXCEPT !["use_ssl"] = "TRUE", !["batch_size"] = "x",
                    !["method"] = "ssh", !["url"] = "a"],
      [NoEnv EXCEPT !["use_ssl"] = "yes", !["batch_size"] = "",
                    !["access_key"] = "b", !["level"] = ""] }
=============================================================================
