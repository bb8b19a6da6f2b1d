\* One resource, two namespaces, every shape of target_namespaces: does
\* the transformation write into the resource it was given?
CONSTANTS
    default = default
    prod = prod
    none = none
    Namespaces <- MCNamespaces
    Default = default
    NoNamespace = none
    MaxResources = 1
SPECIFICATION Spec
PROPERTY InputUnchanged
\* One Preparation per request: the model stops after it.
CHECK_DEADLOCK FALSE
