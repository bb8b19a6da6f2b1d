\* Up to two resources, two namespaces, every shape of target_namespaces.
CONSTANTS
    default = default
    prod = prod
    none = none
    Namespaces <- MCNamespaces
    Default = default
    NoNamespace = none
    MaxResources = 2
SPECIFICATION Spec
INVARIANT TypeOK
PROPERTY TransformMatchesReference
PROPERTY InvalidManifestRejected
\* One Preparation per request: the model stops after it.
CHECK_DEADLOCK FALSE
