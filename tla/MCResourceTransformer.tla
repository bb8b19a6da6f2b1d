------------------------ MODULE MCResourceTransformer ------------------------
(* Instantiation of ResourceTransformer for TLC.                          *)
EXTENDS ResourceTransformer

CONSTANTS default, prod, none

MCNamespaces == {default, prod}
====
