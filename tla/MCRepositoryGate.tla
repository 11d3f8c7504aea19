---- MODULE MCRepositoryGate ----
(* The repository gate over the fixtures of the conformance scripts.  Two   *)
(* changes are taken over together, or one after the other.                 *)
EXTENDS RepositoryGate, RepositoryChanges
====
