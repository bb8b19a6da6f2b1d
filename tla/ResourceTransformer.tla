------------------------- MODULE ResourceTransformer -------------------------
(***************************************************************************)
(* The resource transformation of Preparation, gitops_restore.py:         *)
(* _transform_to_gitops, _apply_gitops_transformations and                 *)
(* _validate_gitops_manifests.                                             *)
(*                                                                         *)
(* A resource is a dict; "metadata" is a nested dict.  dict.copy() copies  *)
(* only the top level, so the copy and the original share one metadata     *)
(* dict: every write through transformed['metadata'] is a write to the     *)
(* resource the caller passed in, unless the resource had no metadata and  *)
(* the copy got a fresh one.  A resource is modelled as a record; whether  *)
(* a metadata write reaches the input is decided by that sharing.          *)
(* Label and annotation dicts are partial functions; a missing dict and   *)
(* an empty one are the same value.                                        *)
(***************************************************************************)
EXTENDS Naturals, Sequences, TLC

CONSTANTS
    Namespaces,     \* namespace names, Default among them
    Default,        \* a namespace resources carry in the backup
    NoNamespace,    \* model value: metadata has no namespace key
    MaxResources    \* bound on the length of the backup's resource list

ASSUME Default \in Namespaces /\ NoNamespace \notin Namespaces

VARIABLES
    target_namespaces,  \* request.target_namespaces ([] for None)
    backup_resources,   \* the list _load_backup_resources returned
    manifests,          \* gitops_manifests
    outcome             \* "pending", "prepared" or "invalid"

vars == <<target_namespaces, backup_resources, manifests, outcome>>

EmptyDict == [k \in {} |-> "none"]

\* Label and annotation values written by the transformation; the request's
\* fields are opaque values.
TrackingLabels ==
    ("restore.gitops.io/restore-id" :> "restore_id") @@
    ("restore.gitops.io/source-backup" :> "backup_id") @@
    ("restore.gitops.io/dr-scenario" :> "dr_scenario")
TrackingAnnotations ==
    ("restore.gitops.io/restored-at" :> "utcnow") @@
    ("restore.gitops.io/source-cluster" :> "source_cluster") @@
    ("restore.gitops.io/target-cluster" :> "target_cluster")

\* Labels and annotations a backed-up resource can already carry: none, its
\* own, or tracking keys of an earlier restore.
LabelSets == {EmptyDict, "app" :> "web",
              "restore.gitops.io/restore-id" :> "earlier"}
AnnotationSets == {EmptyDict,
                   "restore.gitops.io/source-cluster" :> "earlier"}

Metadata == [labels : LabelSets, annotations : AnnotationSets,
             namespace : Namespaces \cup {NoNamespace}]
NoMetadata == [labels |-> EmptyDict, annotations |-> EmptyDict,
               namespace |-> NoNamespace]

\* has_* say whether the top-level key is present.
Resources ==
    [has_api_version : BOOLEAN, has_kind : BOOLEAN, has_metadata : {FALSE},
     metadata : {NoMetadata}]
    \cup [has_api_version : BOOLEAN, has_kind : BOOLEAN, has_metadata : {TRUE},
          metadata : Metadata]

TargetChoices == {<<>>} \cup {<<n>> : n \in Namespaces}
                        \cup {<<n, m>> : n, m \in Namespaces}

Init ==
    /\ target_namespaces \in TargetChoices
    /\ backup_resources \in UNION {[1..n -> Resources] : n \in 1..MaxResources}
    /\ manifests = <<>>
    /\ outcome = "pending"

\* Mutant of NewMetadata: namespace mapping without the check that the
\* resource has a namespace.
NewMetadataAnyNs(md) ==
    LET m1 == [md EXCEPT !.labels = TrackingLabels @@ @,
                         !.annotations = TrackingAnnotations @@ @] IN
    IF Len(target_namespaces) = 1
      THEN [m1 EXCEPT !.namespace = target_namespaces[1]]
      ELSE m1

(***************************************************************************)
(* The metadata dict after _apply_gitops_transformations: the tracking     *)
(* labels and annotations merged over the existing ones (dict.update), and *)
(* the namespace replaced when exactly one target namespace is given and   *)
(* the resource has one.                                                   *)
(***************************************************************************)
NewMetadata(md) ==
    LET m1 == [md EXCEPT !.labels = TrackingLabels @@ @,
                         !.annotations = TrackingAnnotations @@ @] IN
    IF target_namespaces # <<>> /\ md.namespace # NoNamespace
       /\ Len(target_namespaces) = 1
      THEN [m1 EXCEPT !.namespace = target_namespaces[1]]
      ELSE m1

\* Mutant of Transformed: no metadata dict is created for a resource
\* without one.
TransformedNoNewMetadata(r) ==
    [r EXCEPT !.metadata = NewMetadata(r.metadata)]

\* The returned copy.
Transformed(r) ==
    [r EXCEPT !.has_metadata = TRUE, !.metadata = NewMetadata(r.metadata)]

\* The input afterwards: its metadata dict, when it had one, is the dict
\* the copy wrote to.
InputAfter(r) ==
    IF r.has_metadata THEN [r EXCEPT !.metadata = NewMetadata(r.metadata)]
                      ELSE r

\* Mutant of ManifestValid: the kind check is missing.
ManifestValidNoKind(m) == m.has_api_version /\ m.has_metadata

\* _validate_gitops_manifests raises on a manifest without apiVersion,
\* kind or metadata.
ManifestValid(m) == m.has_api_version /\ m.has_kind /\ m.has_metadata

(***************************************************************************)
(* Preparation from the resource list on: _transform_to_gitops over the   *)
(* list, then _validate_gitops_manifests, which aborts the phase on the    *)
(* first invalid manifest.                                                 *)
(***************************************************************************)
PrepareManifests ==
    /\ outcome = "pending"
    /\ manifests' = [i \in DOMAIN backup_resources |->
                       Transformed(backup_resources[i])]
    /\ backup_resources' = [i \in DOMAIN backup_resources |->
                              InputAfter(backup_resources[i])]
    /\ outcome' = IF \A i \in DOMAIN manifests' : ManifestValid(manifests'[i])
                    THEN "prepared" ELSE "invalid"
    /\ UNCHANGED target_namespaces

Next == PrepareManifests

Spec == Init /\ [][Next]_vars /\ WF_vars(Next)

-----------------------------------------------------------------------------
TypeOK ==
    /\ target_namespaces \in TargetChoices
    /\ outcome \in {"pending", "prepared", "invalid"}
    /\ \A i \in DOMAIN manifests : manifests[i].has_metadata

\* Spec 4.3 and 8, as a definition independent of the code's: a manifest
\* keeps its resource's apiVersion, kind and every label and annotation
\* except the six tracking keys, which carry this restore's values; its
\* namespace is the single target namespace if the resource was
\* namespaced and exactly one target is given, else the original one.
ExpectedNamespace(r) ==
    IF r.metadata.namespace # NoNamespace /\ Len(target_namespaces) = 1
      THEN target_namespaces[1] ELSE r.metadata.namespace

Conforms(m, r) ==
    /\ m.has_api_version = r.has_api_version /\ m.has_kind = r.has_kind
    /\ m.metadata.namespace = ExpectedNamespace(r)
    /\ DOMAIN m.metadata.labels = DOMAIN r.metadata.labels \cup DOMAIN TrackingLabels
    /\ \A k \in DOMAIN m.metadata.labels :
         m.metadata.labels[k] = IF k \in DOMAIN TrackingLabels
                                  THEN TrackingLabels[k] ELSE r.metadata.labels[k]
    /\ DOMAIN m.metadata.annotations
         = DOMAIN r.metadata.annotations \cup DOMAIN TrackingAnnotations
    /\ \A k \in DOMAIN m.metadata.annotations :
         m.metadata.annotations[k] = IF k \in DOMAIN TrackingAnnotations
                                       THEN TrackingAnnotations[k]
                                       ELSE r.metadata.annotations[k]

\* Every manifest Preparation produces conforms to the resource it came
\* from, as that resource was before the step.
TransformMatchesReference ==
    [][outcome = "pending" =>
         \A i \in DOMAIN backup_resources :
             Conforms(manifests'[i], backup_resources[i])]_vars

\* Preparation succeeds exactly when every backed-up resource has both
\* apiVersion and kind; otherwise ManifestInvalid aborts it.
InvalidManifestRejected ==
    [][outcome = "pending" =>
         (outcome' = "prepared" <=>
            \A i \in DOMAIN backup_resources :
                backup_resources[i].has_api_version /\ backup_resources[i].has_kind)]_vars

\* Spec 4.3: the transformer "must not mutate its input; it returns a
\* copy", and _apply_gitops_transformations copies the resource "to avoid
\* modifying original": Preparation leaves every backed-up resource as it
\* was.
InputUnchanged ==
    [][outcome = "pending" => backup_resources' = backup_resources]_vars

====
