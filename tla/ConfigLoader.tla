---------------------------- MODULE ConfigLoader ----------------------------
(***************************************************************************)
(* The shared configuration loader (src/shared/config/loader.py).         *)
(*                                                                         *)
(* ConfigLoader.load() and load_without_validation() are one sequential    *)
(* call: start from SharedConfig(), merge each existing YAML file of       *)
(* config_paths in list order, apply the environment overrides, expand     *)
(* $VAR and ~ in some string fields, and (load() only) validate.  Each of  *)
(* those helpers is one action here; an uncaught exception ends the call.  *)
(*                                                                         *)
(* Data abstraction.  Only the fields that the properties tell apart are   *)
(* kept, under the name of their last attribute.  A string is one of       *)
(*   "a"   a well-formed value for that field,                             *)
(*   "b"   a malformed one (e.g. endpoint "minio 9000", url "repo"),       *)
(*   "d"   the dataclass default where that is not "" (bucket, level),     *)
(*   ""    the empty string,                                               *)
(* or Null, YAML's null (Python None).  No value holds a "$" or a "~", so  *)
(* expandvars leaves every str unchanged; it raises TypeError on None.     *)
(* A parsed YAML document is a function from the names below to values;    *)
(* a section name mapped to Null is a section written with no body         *)
(* ("cluster:" followed by nothing), which YAML also reads as None.        *)
(***************************************************************************)
EXTENDS Integers, Sequences, SequencesExt, FiniteSets

CONSTANTS
    Files,        \* the paths of config_paths
    Paths,        \* config_paths, a sequence over Files
    FileChoices,  \* what a path may hold: a document, Missing or Unparsable
    EnvChoices,   \* the environments the process may be started with
    Null,         \* YAML null / Python None
    Unset,        \* os.getenv finds no variable; a document lacks the key
    Missing,      \* the path does not exist
    Unparsable    \* yaml.safe_load raises

\* The tracked fields of SharedConfig.
Keys == {"endpoint", "access_key", "secret_key", "bucket", "use_ssl",
         "name", "url", "method", "batch_size", "level"}

\* The sections _merge_configs descends into.
Sections == {"storage", "connection", "cluster", "gitops", "repository",
             "auth", "backup", "behavior", "cleanup", "observability",
             "logging"}

\* The order in which _merge_configs reads sections and fields.  A section
\* that is None raises at its first .get or "in" test, after everything
\* before it in this order has been assigned.
MergeOrder == <<"storage", "endpoint", "access_key", "secret_key", "bucket",
                "use_ssl", "connection", "cluster", "name", "gitops",
                "repository", "url", "auth", "method", "backup", "behavior",
                "batch_size", "cleanup", "observability", "logging", "level">>

Str == {"a", "b", "d", ""}
BatchSizes == {0, 50, 100, 2000}
Methods == {"ssh", "pat", "none", "b"}

\* The dataclass defaults of the tracked fields, one dataclass each
\* ("cluster-backups" and "info" are the default string "d").
StorageDefaults ==
    [endpoint |-> "", access_key |-> "", secret_key |-> "", bucket |-> "d",
     use_ssl |-> TRUE]
ClusterDefaults == [name |-> ""]
BehaviorDefaults == [batch_size |-> 50]
RepositoryDefaults == [url |-> "", method |-> "ssh"]
LoggingDefaults == [level |-> "d"]

\* SharedConfig(): every section built by its default_factory.
Defaults ==
    StorageDefaults @@ ClusterDefaults @@ BehaviorDefaults
        @@ RepositoryDefaults @@ LoggingDefaults

IsDocument(c) == c \notin {Missing, Unparsable}

VARIABLES
    content,     \* path -> what the file holds
    env,         \* field -> the value of its environment variable, or Unset
    validating,  \* load() (TRUE) or load_without_validation() (FALSE)
    config,      \* the SharedConfig being built
    pc,          \* "files", "expand", "validate", "returned", "raised"
    i,           \* index of the next path
    warned,      \* paths whose load printed "Failed to load config"
    raised       \* the exception that ended the call, or "none"

vars == <<content, env, validating, config, pc, i, warned, raised>>

-----------------------------------------------------------------------------
(* _merge_configs: every field up to the first None section is assigned,  *)
(* data.get(k, current) giving the file's value when the key is written,  *)
(* even an explicit null.  The exception propagates to _load_file.         *)
FirstNullSection(doc) ==
    SelectInSeq(MergeOrder, LAMBDA n : n \in Sections /\ n \in DOMAIN doc
                                       /\ doc[n] = Null)

MergeConfigs(cfg, doc) ==
    LET stop == IF FirstNullSection(doc) = 0 THEN Len(MergeOrder) + 1
                ELSE FirstNullSection(doc)
        assigned == {MergeOrder[j] : j \in 1 .. stop - 1} \cap Keys \cap DOMAIN doc
    IN  [cfg  |-> [k \in Keys |-> IF k \in assigned THEN doc[k] ELSE cfg[k]],
         fail |-> stop <= Len(MergeOrder)]

\* Mutant: the paths taken in reverse order, the first one winning.
LoadFileReversed ==
    /\ pc = "files"
    /\ i <= Len(Paths)
    /\ LET c == content[Paths[Len(Paths) + 1 - i]] IN
         CASE c = Missing ->
                UNCHANGED <<config, warned>>
           [] c = Unparsable ->
                /\ warned' = warned \cup {Paths[Len(Paths) + 1 - i]}
                /\ UNCHANGED config
           [] OTHER ->
                LET m == MergeConfigs(config, c) IN
                /\ config' = IF DOMAIN c = {} THEN config ELSE m.cfg
                /\ warned' = IF DOMAIN c # {} /\ m.fail
                               THEN warned \cup {Paths[Len(Paths) + 1 - i]}
                               ELSE warned
    /\ i' = i + 1
    /\ UNCHANGED <<content, env, validating, pc, raised>>

\* Mutant: _load_file without its try/except, so a YAML error propagates.
LoadFileUncaught ==
    /\ pc = "files"
    /\ i <= Len(Paths)
    /\ LET c == content[Paths[i]] IN
         CASE c = Missing ->
                UNCHANGED <<config, pc, raised>>
           [] c = Unparsable ->
                /\ pc' = "raised" /\ raised' = "YAMLError"
                /\ UNCHANGED config
           [] OTHER ->
                /\ config' = IF DOMAIN c = {} THEN config
                              ELSE MergeConfigs(config, c).cfg
                /\ UNCHANGED <<pc, raised>>
    /\ i' = i + 1
    /\ UNCHANGED <<content, env, validating, warned>>

(* _load_file: a missing path leaves config alone; a parse error or an     *)
(* exception from _merge_configs is caught and printed, and the config     *)
(* keeps whatever the merge assigned before it raised (it is mutated in    *)
(* place); an empty document is skipped by "if data".                      *)
LoadFile ==
    /\ pc = "files"
    /\ i <= Len(Paths)
    /\ LET c == content[Paths[i]] IN
         CASE c = Missing ->
                UNCHANGED <<config, warned>>
           [] c = Unparsable ->
                /\ warned' = warned \cup {Paths[i]}
                /\ UNCHANGED config
           [] OTHER ->
                LET m == MergeConfigs(config, c) IN
                /\ config' = IF DOMAIN c = {} THEN config ELSE m.cfg
                /\ warned' = IF DOMAIN c # {} /\ m.fail
                               THEN warned \cup {Paths[i]} ELSE warned
    /\ i' = i + 1
    /\ UNCHANGED <<content, env, validating, pc, raised>>

(* _apply_environment_overrides: os.getenv(NAME, current) for the string  *)
(* fields, NAME being MINIO_ENDPOINT, MINIO_ACCESS_KEY, MINIO_SECRET_KEY,  *)
(* MINIO_BUCKET, CLUSTER_NAME, GIT_REPOSITORY, GIT_AUTH_METHOD, LOG_LEVEL  *)
(* fields (a variable set to "" overrides too); MINIO_USE_SSL, or str() of *)
(* the current value, lowered and compared with "true"; BATCH_SIZE only    *)
(* when non-empty and int() parses it.  It runs after the file loop ends.  *)
\* int() of the decimal texts the environment may hold; "x" does not parse.
IntText == [t \in {"0", "100", "2000"} |->
              CASE t = "0" -> 0 [] t = "100" -> 100 [] OTHER -> 2000]

\* .lower() == "true" of the MINIO_USE_SSL text.  The fallback, str() of the
\* config value (a bool or None), is "True" only for True.
LowerIsTrue(text) == text \in {"true", "True", "TRUE"}

EnvironmentOverride(cfg, e) ==
    [k \in Keys |->
        CASE k = "use_ssl" ->
               IF e[k] # Unset THEN LowerIsTrue(e[k]) ELSE cfg[k] = TRUE
          [] k = "batch_size" ->
               IF e[k] \in DOMAIN IntText THEN IntText[e[k]] ELSE cfg[k]
          [] OTHER ->
               IF e[k] # Unset THEN e[k] ELSE cfg[k]]

ApplyEnvironmentOverrides ==
    /\ pc = "files"
    /\ i > Len(Paths)
    /\ config' = EnvironmentOverride(config, env)
    /\ pc' = "expand"
    /\ UNCHANGED <<content, env, validating, i, warned, raised>>

(* _expand_environment_variables: os.path.expandvars on endpoint, bucket,  *)
(* cluster name and domain and the repository url; on None it raises       *)
(* TypeError, which nothing in load() catches.                             *)
Expanded == {"endpoint", "bucket", "name", "url"}

ExpandEnvironmentVariables ==
    /\ pc = "expand"
    /\ IF \E k \in Expanded : config[k] = Null
         THEN pc' = "raised" /\ raised' = "TypeError"
         ELSE /\ pc' = IF validating THEN "validate" ELSE "returned"
              /\ UNCHANGED raised
    /\ UNCHANGED <<content, env, validating, config, i, warned>>

(* _validate: "config_dict = self.to_dict(config)".  ConfigLoader has no   *)
(* to_dict (the converter is _config_to_dict), so load() raises            *)
(* AttributeError here whatever the configuration.                         *)
Validate ==
    /\ pc = "validate"
    /\ pc' = "raised"
    /\ raised' = "AttributeError"
    /\ UNCHANGED <<content, env, validating, config, i, warned>>

Init ==
    /\ content \in [Files -> FileChoices]
    /\ env \in EnvChoices
    /\ validating \in BOOLEAN
    /\ config = Defaults
    /\ pc = "files"
    /\ i = 1
    /\ warned = {}
    /\ raised = "none"

Next ==
    \/ LoadFile
    \/ ApplyEnvironmentOverrides
    \/ ExpandEnvironmentVariables
    \/ Validate

\* The call ends in "returned" or "raised".
Spec == Init /\ [][Next]_vars

-----------------------------------------------------------------------------
TypeOK ==
    /\ config["use_ssl"] \in BOOLEAN \cup {Null}
    /\ config["batch_size"] \in BatchSizes \cup {Null}
    /\ \A k \in Keys \ {"use_ssl", "batch_size"} : config[k] \in Str \cup Methods \cup {Null}
    /\ pc \in {"files", "expand", "validate", "returned", "raised"}
    /\ i \in 1 .. Len(Paths) + 1
    /\ warned \subseteq Files
    /\ raised \in {"none", "TypeError", "AttributeError"}

\* The merge precedence load_without_validation gives, written from the
\* sources alone: for each field, its environment variable when set (for
\* BATCH_SIZE: set to a decimal), else the last file among P, in the order
\* of config_paths, that writes it, else the dataclass default;
\* MINIO_USE_SSL and the use_ssl of a file count as true only when they
\* spell "true".
LastWriter(k, P) ==
    SelectLastInSeq(Paths, LAMBDA p : p \in P /\ IsDocument(content[p])
                                      /\ k \in DOMAIN content[p])

FileValue(k, P) ==
    IF LastWriter(k, P) = 0 THEN Defaults[k]
    ELSE content[Paths[LastWriter(k, P)]][k]

Expected(k, P) ==
    CASE k = "use_ssl" ->
           IF env[k] = Unset THEN FileValue(k, P) = TRUE
           ELSE env[k] \in {"true", "True", "TRUE"}
      [] k = "batch_size" ->
           IF env[k] \in {"0", "100", "2000"}
           THEN CHOOSE n \in BatchSizes : ToString(n) = env[k]
           ELSE FileValue(k, P)
      [] OTHER ->
           IF env[k] = Unset THEN FileValue(k, P) ELSE env[k]

\* The configuration load_without_validation returns has, in every
\* tracked field, the value of the highest-priority source that sets it:
\* the environment over later files over earlier files over the defaults
\* (ConfigLoader.load's "Load from files in order", then the overrides).
LaterSourceWins ==
    pc = "returned" => \A k \in Keys : config[k] = Expected(k, Files)


\* A config file whose load printed "Warning: Failed to load config from"
\* (_load_file's except) contributed nothing: the returned configuration
\* is the one the other sources alone give.  _merge_configs assigns into
\* the SharedConfig in place, field by field, so a section that is None
\* raises after the fields before it were already written.
FailedFileLeavesNoTrace ==
    pc = "returned" => \A k \in Keys : config[k] = Expected(k, Files \ warned)

=============================================================================
